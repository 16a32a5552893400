--------------------------- MODULE MCFairServices ---------------------------
(***************************************************************************)
(* TLC instances of the services whose liveness is checked.  As in         *)
(* MCServices a behaviour is of one of them, and the others stay where     *)
(* they began: what is fair of a service is fair when it is the one.       *)
(***************************************************************************)
EXTENDS Naturals, Sequences, FiniteSets

CONSTANTS
    None,
    Sources, Intervals, MinInterval, FallbackInterval, MaxMarks, MaxEpoch, MaxAge,
    Owners, MaxLines, MaxTotal, MaxFiles, MaxWrites, MaxCommands, MaxBindings,
    Requests, Providers, Models, p1, p2, Whole, Subscription, Capacity, ShortCooldown, LongCooldown,
    Uploads, Downloads, MaxWait

VARIABLES
    service,
    dirty, pass, wait, failures, interval, epoch, shutdown, handle, watched, event,
    driver, due, scanned, sinceFallback, exit, unread, lost, sinceStart,
    files, path, clock, dirtime, cursors, events, logs, owner, bindings, commands, syncs, skipped,
    req, row, waiting, blacklist, closing, doomed, resting,
    enabled, signal, worker, elapsed, patience, command, lock, owed

Routes == [m \in Models |-> <<p1, p2>>]

Watcher == INSTANCE UsageWatcher
Ingestion == INSTANCE UsageIngestion WITH pass <- syncs, lost <- skipped
Handlers == INSTANCE Router WITH exit <- closing
Sync == INSTANCE AutoSync

watcherVars == <<dirty, pass, wait, failures, interval, epoch, shutdown, handle, watched, event,
                 driver, due, scanned, sinceFallback, exit, unread, lost, sinceStart>>
ingestionVars == <<files, path, clock, dirtime, cursors, events, logs, owner, bindings, commands,
                   syncs, skipped>>
routerVars == <<req, row, waiting, blacklist, closing, doomed, resting>>
syncVars == <<enabled, signal, worker, elapsed, patience, command, lock, owed>>
vars == <<service, watcherVars, ingestionVars, routerVars, syncVars>>

Init ==
    /\ service \in {"watcher", "ingestion", "router", "sync"}
    /\ Watcher!Init /\ (service # "watcher" => \A s \in Sources : ~ unread[s])
    /\ Ingestion!Init /\ (service # "ingestion" => owner = CHOOSE a \in Owners : TRUE)
    /\ Handlers!Init
    /\ Sync!Init /\ (service # "sync" => enabled)

Next ==
    /\ UNCHANGED service
    /\ IF service = "watcher" THEN Watcher!Next ELSE UNCHANGED watcherVars
    /\ IF service = "ingestion" THEN Ingestion!Next ELSE UNCHANGED ingestionVars
    /\ IF service = "router" THEN Handlers!Next ELSE UNCHANGED routerVars
    /\ IF service = "sync" THEN Sync!Next ELSE UNCHANGED syncVars

Of(name) == service = name /\ UNCHANGED service

WatcherFairness ==
    /\ WF_watcherVars(Of("watcher") /\ Watcher!DriverStep)
    /\ WF_watcherVars(Of("watcher") /\ Watcher!Tick)
    /\ \A s \in Sources :
        SF_watcherVars(Of("watcher") /\ \E d \in due : d.source = s /\ Watcher!Scan(d, TRUE))
    /\ WF_watcherVars(Of("watcher") /\ exit = "stopping" /\ Watcher!CloseTasks)
    /\ WF_watcherVars(Of("watcher") /\ Watcher!TasksEnded)

IngestionFairness ==
    /\ WF_ingestionVars(Of("ingestion") /\ Ingestion!List("bound"))
    /\ SF_ingestionVars(Of("ingestion") /\ Ingestion!Open("bound"))
    /\ SF_ingestionVars(Of("ingestion") /\ Ingestion!Read("bound"))
    /\ SF_ingestionVars(Of("ingestion") /\ Ingestion!Insert("bound"))
    /\ SF_ingestionVars(Of("ingestion") /\ Ingestion!Advance("bound"))

RouterFairness ==
    /\ \A r \in Requests :
        /\ WF_routerVars(Of("router") /\ Handlers!Handler(r))
        /\ WF_routerVars(Of("router") /\ \E outcome \in Handlers!Outcomes : Handlers!Resolve(r, outcome))
    /\ WF_routerVars(Of("router") /\ (Handlers!DrainEnds \/ Handlers!DrainTimesOut \/ Handlers!Exit))

SyncFairness ==
    /\ WF_syncVars(Of("sync") /\ Sync!Worker)
    /\ SF_syncVars(Of("sync") /\ Sync!Lock)
    /\ WF_syncVars(Of("sync") /\ Sync!Tick)
    /\ \A c \in Sync!Manual : WF_syncVars(Of("sync") /\ Sync!CommandEnds(c))

FairSpec == Init /\ [][Next]_vars
    /\ WatcherFairness /\ IngestionFairness /\ RouterFairness /\ SyncFairness

-----------------------------------------------------------------------------

\* Every entry of a log is read at some time, even if no event ever arrives.
EveryWriteIsRead == Watcher!EveryWriteIsRead

\* A shutdown that has begun comes to its end.
ShutdownEnds == Watcher!ShutdownEnds

\* What is written to a session log is stored in the end.
EveryUseIsStored == Ingestion!EveryUseIsStored

\* Every request that came in is over at some time.
EveryRequestEnds == Handlers!EveryRequestEnds

\* A change of the database is uploaded however many follow it.
EveryChangeIsDealtWith == Sync!EveryChangeIsDealtWith
=============================================================================
