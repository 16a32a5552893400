------------------------------ MODULE MCDaemons -----------------------------
(***************************************************************************)
(* TLC instances of the services that run as long as the application does: *)
(* the usage watcher, with its schedule and the background tasks it belongs *)
(* to, the router, and the tray.  They share nothing here, so a behaviour  *)
(* is of one of them and the others stay where they began.                 *)
(***************************************************************************)
EXTENDS UsageWatcher, Sequences, FiniteSets

CONSTANTS
    Requests, Providers, Models, Whole, Subscription, Capacity, ShortCooldown, LongCooldown,
    p1, p2, p3, m1, m2, m3, r1, r2,
    MaxUpdates, MaxDays

VARIABLES
    service,
    req, row, waiting, blacklist, closing, doomed, resting,
    data, day, unsent, gate, lock, job, active, shown, retained

\* The first model has three Providers, the others share one.
Routes == [m \in Models |-> IF m = m3 THEN <<p1, p2, p3>> ELSE <<p1>>]

Handlers == INSTANCE MCRouter WITH exit <- closing
Tray == INSTANCE TrayUsage

ASSUME RouterAssumption == Handlers!RouterConstants

routerVars == <<req, row, waiting, blacklist, closing, doomed, resting>>
trayVars == <<data, day, unsent, gate, lock, job, active, shown, retained>>

AllInit ==
    /\ service \in {"watcher", "router", "tray"}
    /\ Init /\ (service # "watcher" => \A s \in Sources : ~ unread[s])
    /\ Handlers!MCInit /\ (service # "router" => \E r \in Requests : req[r].pc = "done")
    /\ Tray!Init

AllNext ==
    /\ UNCHANGED service
    /\ IF service = "watcher" THEN Next ELSE UNCHANGED vars
    /\ IF service = "router" THEN Handlers!Next ELSE UNCHANGED routerVars
    /\ IF service = "tray" THEN Tray!Next ELSE UNCHANGED trayVars

AllSpec == AllInit /\ [][AllNext]_<<service, vars, routerVars, trayVars>>

-----------------------------------------------------------------------------

\* A request reaches only Providers that the gate has let it go to.
SentWhereAdmitted == Handlers!SentWhereAdmitted

\* The row of a request tells how it ended.
RowTellsOutcome == Handlers!RowTellsOutcome

\* At exit every held request has its row.
DrainedIsAudited == Handlers!DrainedIsAudited

\* A Provider that has just failed rests.
FailedProviderRests == Handlers!FailedProviderRests

\* The tray shows the database as it is.
ChangeIsShown == Tray!ChangeIsShown

\* The tray does not say that a refresh is going on when it is over.
NoStuckProgress == Tray!NoStuckProgress
=============================================================================
