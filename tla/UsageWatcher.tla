---------------------------- MODULE UsageWatcher ----------------------------
(***************************************************************************)
(* Usage is read from the session logs of other tools.  A file watcher     *)
(* (usage/watcher.rs) turns directory events into dirty marks on a         *)
(* schedule (usage/watcher_state.rs); one driver task (lib.rs) wakes on an *)
(* event or a timeout, syncs the sources that are dirty and due, and       *)
(* reports the outcome back.  Events are lost (sleep, network volumes,     *)
(* full queues), so a slow fallback marks every source from time to time.  *)
(*                                                                         *)
(* Generations are counted from the completed one: dirty[s] is             *)
(* dirty_generation - completed_generation.  Deadlines are counted from    *)
(* now: wait[s] is next_allowed_second - now, or 0.  One tick is a minute  *)
(* of a clock that never steps back.                                       *)
(***************************************************************************)
EXTENDS Naturals

CONSTANTS
    Sources,           \* the log directories: claude, codex, gemini, opencode
    Intervals,         \* intervals the schedule may be given
    MinInterval,       \* SYNC_MIN_INTERVAL_SECS
    FallbackInterval,  \* SLOW_FALLBACK_INTERVAL_SECS
    None,
    MaxMarks,          \* bound on the marks of a source that are counted
    MaxEpoch,          \* bound on the changes of the interval
    MaxAge             \* bound on the age of a pass that is counted

ASSUME IntervalAssumption ==
    /\ Intervals \subseteq Nat \ {0} /\ MinInterval \in Intervals
    /\ FallbackInterval \in Nat \ {0}
ASSUME BoundAssumption ==
    /\ MaxMarks \in Nat \ {0} /\ MaxEpoch \in Nat
    /\ MaxAge \in Nat /\ \A i \in Intervals : i <= MaxAge
ASSUME NoneAssumption ==
    None \notin [generation : Nat, epoch : Nat]
            \cup [source : Sources, generation : Nat, epoch : Nat, clean : BOOLEAN]

VARIABLES
    \* WatcherSchedule, shared under its mutex
    dirty,          \* [Sources -> marks since the completed generation]
    pass,           \* [Sources -> the generation and epoch being synced, or None]
    wait,           \* [Sources -> minutes until the next pass is allowed]
    failures,       \* [Sources -> consecutive failures]
    interval, epoch, shutdown,
    \* the watcher
    handle,         \* whether ACTIVE_USAGE_WATCHER holds a watcher
    watched,        \* the sources whose directory is watched
    event,          \* [Sources -> whether an event is under way to the callback]
    \* the driver task
    driver, due, scanned, sinceFallback,
    exit,           \* how far the shutdown of the application is
    \* the logs
    unread,         \* [Sources -> whether the log has entries no sync has read]
    \* what the properties remember
    lost,           \* [Sources -> whether an event was lost since the last mark]
    sinceStart      \* [Sources -> minutes since the last pass began]

schedule == <<dirty, pass, wait, failures, interval, epoch, shutdown>>
driverVars == <<driver, due, scanned, sinceFallback>>
vars == <<dirty, pass, wait, failures, interval, epoch, shutdown, handle, watched, event,
          driver, due, scanned, sinceFallback, exit, unread, lost, sinceStart>>

\* Mutant: what saturates goes on counting.
AtMostUnsaturated(n, bound) == n

AtMost(n, bound) == IF n <= bound THEN n ELSE bound
Less1(n) == IF n = 0 THEN 0 ELSE n - 1

Init ==
    /\ dirty = [s \in Sources |-> 0]
    /\ pass = [s \in Sources |-> None]
    /\ wait = [s \in Sources |-> 0]
    /\ failures = [s \in Sources |-> 0]
    /\ interval = MinInterval /\ epoch = 0 /\ shutdown = FALSE
    /\ handle = FALSE /\ watched = {}
    /\ event = [s \in Sources |-> FALSE]
    /\ driver = "spawned" /\ due = {} /\ scanned = None /\ sinceFallback = 0
    /\ exit = "running"
    /\ unread \in [Sources -> BOOLEAN]
    /\ lost = [s \in Sources |-> TRUE]
    /\ sinceStart = [s \in Sources |-> MaxAge]

-----------------------------------------------------------------------------
(* Operations of the schedule, each one critical section of its mutex.     *)

\* mark_dirty, mark_all_dirty: generations saturate.
MarkDirty(S) ==
    LET marked == IF shutdown THEN {} ELSE S IN
    /\ dirty' = [s \in Sources |-> IF s \in marked THEN AtMost(dirty[s] + 1, MaxMarks) ELSE dirty[s]]
    /\ lost' = [s \in Sources |-> lost[s] /\ s \notin marked]
    /\ UNCHANGED <<pass, wait, failures, interval, epoch, shutdown>>

IsDue(s) == ~ shutdown /\ dirty[s] > 0 /\ pass[s] = None /\ wait[s] = 0

\* The sources that are due begin a pass over what they are marked with now.
BeginDue ==
    LET starting == {s \in Sources : IsDue(s)} IN
    /\ due' = {[source |-> s, generation |-> dirty[s], epoch |-> epoch] : s \in starting}
    /\ pass' = [s \in Sources |->
                  IF s \in starting THEN [generation |-> dirty[s], epoch |-> epoch] ELSE pass[s]]
    /\ sinceStart' = [s \in Sources |-> IF s \in starting THEN 0 ELSE sinceStart[s]]
    /\ UNCHANGED <<dirty, wait, failures, interval, epoch, shutdown>>

BackoffMultipliers == <<1, 2, 4, 6>>

\* Mutant: the pass completes whatever the source is marked with by now.
FinishPassNewest(d, clean) ==
    /\ dirty' = [dirty EXCEPT ![d.source] = IF clean THEN 0 ELSE @]
    /\ failures' = [failures EXCEPT ![d.source] = IF clean THEN 0 ELSE AtMost(@ + 1, 4)]
    /\ pass' = [pass EXCEPT ![d.source] = None]
    /\ wait' = [wait EXCEPT ![d.source] = interval]

\* Mutant: what has failed is tried again at once.
FinishPassRetries(d, clean) ==
    /\ dirty' = [dirty EXCEPT ![d.source] = IF clean THEN @ - d.generation ELSE @]
    /\ failures' = [failures EXCEPT ![d.source] = IF clean THEN 0 ELSE AtMost(@ + 1, 4)]
    /\ pass' = [pass EXCEPT ![d.source] = None]
    /\ wait' = [wait EXCEPT ![d.source] = IF clean THEN interval ELSE @]

\* A clean pass completes the generation it began with; one that failed backs
\* off.  A deadline set by a change of the interval in the meantime stands.
FinishPass(d, clean) ==
    LET s == d.source
        failed == AtMost(failures[s] + 1, 4)
        delay == IF clean THEN interval ELSE interval * BackoffMultipliers[failed]
    IN
    /\ dirty' = [dirty EXCEPT ![s] = IF clean THEN @ - d.generation ELSE @]
    /\ failures' = [failures EXCEPT ![s] = IF clean THEN 0 ELSE failed]
    /\ pass' = [pass EXCEPT ![s] = None]
    /\ wait' = [wait EXCEPT ![s] = IF d.epoch = epoch THEN delay ELSE @]

\* A stale report, or one after the shutdown, is ignored.
Report(d, clean) ==
    /\ IF ~ shutdown /\ pass[d.source] = [generation |-> d.generation, epoch |-> d.epoch]
       THEN FinishPass(d, clean)
       ELSE UNCHANGED <<dirty, failures, pass, wait>>
    /\ UNCHANGED <<interval, epoch, shutdown>>

\* Part of the schedule's interface; in this version only its tests call it.
SetInterval(i) ==
    /\ ~ shutdown /\ epoch < MaxEpoch
    /\ interval' = i /\ epoch' = epoch + 1
    /\ wait' = [s \in Sources |-> i]
    /\ UNCHANGED <<dirty, pass, failures, shutdown, handle, watched, event, driverVars,
                   exit, unread, lost, sinceStart>>

\* stop_usage_watcher: the watcher shuts the schedule down and is dropped.
StopUsageWatcher ==
    /\ shutdown' = (shutdown \/ handle)
    /\ pass' = IF handle THEN [s \in Sources |-> None] ELSE pass
    /\ handle' = FALSE /\ watched' = {}
    /\ UNCHANGED <<dirty, wait, failures, interval, epoch>>

-----------------------------------------------------------------------------
(* The logs, the operating system and the clock.                           *)

\* A tool appends to its log.  Directories that are not watched, and events the
\* system drops, tell nobody.
Write(s) ==
    /\ unread' = [unread EXCEPT ![s] = TRUE]
    /\ \/ s \in watched /\ event' = [event EXCEPT ![s] = TRUE] /\ UNCHANGED lost
       \/ lost' = [lost EXCEPT ![s] = TRUE] /\ UNCHANGED event
    /\ UNCHANGED <<schedule, handle, watched, driverVars, exit, sinceStart>>

\* The callback.  Beyond MaxMarks it is delayed, never ignored.
EventArrives(s) ==
    /\ event[s] /\ handle /\ dirty[s] < MaxMarks
    /\ MarkDirty({s})
    /\ event' = [event EXCEPT ![s] = FALSE]
    /\ UNCHANGED <<handle, watched, driverVars, exit, unread, sinceStart>>

Tick ==
    /\ wait' = [s \in Sources |-> Less1(wait[s])]
    /\ sinceStart' = [s \in Sources |-> AtMost(sinceStart[s] + 1, MaxAge)]
    /\ sinceFallback' = AtMost(sinceFallback + 1, FallbackInterval)
    /\ UNCHANGED <<dirty, pass, failures, interval, epoch, shutdown, handle, watched, event,
                   driver, due, scanned, exit, unread, lost>>

-----------------------------------------------------------------------------
(* The driver task.                                                        *)

\* Directories that do not exist are skipped, others may fail to be watched;
\* when no watcher can be made at all the slot stays empty.
StartWatcher ==
    /\ driver = "spawned" /\ driver' = "initial"
    /\ \/ handle' = TRUE /\ watched' \in SUBSET Sources
       \/ handle' = FALSE /\ watched' = {}
    /\ UNCHANGED <<schedule, event, due, scanned, sinceFallback, exit, unread, lost, sinceStart>>

\* Every source is synced once; what fails is only logged.
InitialSync ==
    /\ driver = "initial" /\ driver' = "started"
    /\ \E read \in SUBSET Sources : unread' = [s \in Sources |-> unread[s] /\ s \notin read]
    /\ UNCHANGED <<schedule, handle, watched, event, due, scanned, sinceFallback, exit, lost,
                   sinceStart>>

MarkAllAtStart ==
    /\ driver = "started" /\ driver' = "waiting"
    /\ MarkDirty(Sources)
    /\ sinceFallback' = 0
    /\ UNCHANGED <<handle, watched, event, due, scanned, exit, unread, sinceStart>>

\* Mutant: the tasks are waited for but not aborted.
NeverAborted == FALSE

\* BackgroundTasks::take aborts every task it takes.
Aborted == exit = "aborting"

\* On an event, or on the timeout of DRIVER_WAKE_TIMEOUT_SECS.
WakeUp ==
    /\ driver = "waiting" /\ ~ Aborted
    /\ driver' = IF shutdown THEN "ended" ELSE "woken"
    /\ UNCHANGED <<schedule, handle, watched, event, due, scanned, sinceFallback, exit, unread,
                   lost, sinceStart>>

\* Mutant: the fallback is for the sources that are watched.
FallbackSourcesWatched == watched

FallbackSources == Sources

Fallback ==
    /\ driver = "woken" /\ driver' = "begin"
    /\ IF sinceFallback >= FallbackInterval
       THEN MarkDirty(FallbackSources) /\ sinceFallback' = 0
       ELSE UNCHANGED <<schedule, lost, sinceFallback>>
    /\ UNCHANGED <<handle, watched, event, due, scanned, exit, unread, sinceStart>>

Begin ==
    /\ driver = "begin"
    /\ BeginDue
    /\ driver' = IF due' = {} THEN "waiting" ELSE "syncing"
    /\ UNCHANGED <<handle, watched, event, scanned, sinceFallback, exit, unread, lost>>

\* One source of the round is synced, with no lock held: a clean sync has read
\* everything, one with errors some of it.
Scan(d, clean) ==
    /\ driver = "syncing" /\ scanned = None
    /\ scanned' = [source |-> d.source, generation |-> d.generation, epoch |-> d.epoch,
                   clean |-> clean]
    /\ \/ unread' = [unread EXCEPT ![d.source] = FALSE]
       \/ ~ clean /\ UNCHANGED unread
    /\ UNCHANGED <<schedule, handle, watched, event, driver, due, sinceFallback, exit, lost,
                   sinceStart>>

Finish ==
    /\ scanned # None /\ scanned' = None
    /\ LET d == [source |-> scanned.source, generation |-> scanned.generation,
                 epoch |-> scanned.epoch]
       IN  Report(d, scanned.clean) /\ due' = due \ {d}
    /\ driver' = IF due' = {} THEN "waiting" ELSE "syncing"
    /\ UNCHANGED <<handle, watched, event, sinceFallback, exit, unread, lost, sinceStart>>

\* An aborted task ends where it next gives up its thread.
Cancelled ==
    /\ Aborted /\ driver \in {"spawned", "waiting"} /\ driver' = "ended"
    /\ UNCHANGED <<schedule, handle, watched, event, due, scanned, sinceFallback, exit, unread,
                   lost, sinceStart>>

DriverStep ==
    \/ StartWatcher \/ InitialSync \/ MarkAllAtStart
    \/ WakeUp \/ Fallback \/ Begin
    \/ \E d \in due, clean \in BOOLEAN : Scan(d, clean)
    \/ Finish \/ Cancelled

-----------------------------------------------------------------------------
(* The shutdown of the application.                                        *)

RequestExit ==
    /\ exit = "running" /\ exit' = "stopping"
    /\ StopUsageWatcher
    /\ UNCHANGED <<event, driverVars, unread, lost, sinceStart>>

\* The background tasks are taken and aborted; a restart begins here.
CloseTasks ==
    /\ exit \in {"running", "stopping"} /\ exit' = "aborting"
    /\ UNCHANGED <<schedule, handle, watched, event, driverVars, unread, lost, sinceStart>>

\* Mutant: the watcher is not stopped again.
TasksEndedStopsOnce ==
    /\ exit = "aborting" /\ driver = "ended" /\ exit' = "done"
    /\ UNCHANGED <<schedule, handle, watched, event, driverVars, unread, lost, sinceStart>>

\* "Startup can have registered a watcher just before cancellation."
TasksEnded ==
    /\ exit = "aborting" /\ driver = "ended" /\ exit' = "done"
    /\ StopUsageWatcher
    /\ UNCHANGED <<event, driverVars, unread, lost, sinceStart>>

Next ==
    \/ \E s \in Sources : Write(s) \/ EventArrives(s)
    \/ \E i \in Intervals : SetInterval(i)
    \/ Tick
    \/ DriverStep
    \/ RequestExit \/ CloseTasks \/ TasksEnded

Spec == Init /\ [][Next]_vars

\* The runtime runs the tasks and time passes.  Events may never arrive, nobody
\* has to quit, and a sync that is tried again and again succeeds once.
FairSpec ==
    /\ Spec
    /\ WF_vars(DriverStep) /\ WF_vars(Tick)
    /\ \A s \in Sources : SF_vars(\E d \in due : d.source = s /\ Scan(d, TRUE))
    /\ WF_vars(exit = "stopping" /\ CloseTasks) /\ WF_vars(TasksEnded)

-----------------------------------------------------------------------------
(* Properties.                                                             *)

Passes == [generation : 1..MaxMarks, epoch : 0..MaxEpoch]
Dues == [source : Sources, generation : 1..MaxMarks, epoch : 0..MaxEpoch]
Scans == [source : Sources, generation : 1..MaxMarks, epoch : 0..MaxEpoch, clean : BOOLEAN]

\* Every variable has its type.
TypeOK ==
    /\ dirty \in [Sources -> 0..MaxMarks]
    /\ pass \in [Sources -> Passes \cup {None}]
    /\ wait \in [Sources -> Nat]
    /\ failures \in [Sources -> 0..4]
    /\ interval \in Intervals /\ epoch \in 0..MaxEpoch /\ shutdown \in BOOLEAN
    /\ handle \in BOOLEAN /\ watched \in SUBSET Sources
    /\ event \in [Sources -> BOOLEAN]
    /\ driver \in {"spawned", "initial", "started", "waiting", "woken", "begin", "syncing", "ended"}
    /\ due \in SUBSET Dues /\ scanned \in Scans \cup {None}
    /\ sinceFallback \in 0..FallbackInterval
    /\ exit \in {"running", "stopping", "aborting", "done"}
    /\ unread \in [Sources -> BOOLEAN] /\ lost \in [Sources -> BOOLEAN]
    /\ sinceStart \in [Sources -> 0..MaxAge]

\* While the driver waits, an entry nobody has read is in a source that is dirty,
\* or an event will mark it, or its event was lost and the fallback is for it:
\* a mark that arrives during a pass is not completed by that pass.
UnreadIsAnnounced ==
    driver = "waiting" /\ ~ shutdown =>
        \A s \in Sources : unread[s] => dirty[s] > 0 \/ (handle /\ event[s]) \/ lost[s]

\* "The minimum interval between two syncs of the same source": two passes of a
\* source begin at least the interval in force apart, whatever marks arrive,
\* however a pass ends and however the interval changes under it.
PassesApart ==
    [][\A s \in Sources : pass[s] = None /\ pass'[s] # None => sinceStart[s] >= interval]_vars

\* When the shutdown is over the driver has ended and no watcher is left, even
\* when the startup registers one while the application is quitting.
NothingOutlivesShutdown == exit = "done" => driver = "ended" /\ ~ handle

\* "At worst one sync in every 15 minutes, not never": every entry of a log is
\* read while the application runs, even if no event ever arrives.
EveryWriteIsRead == \A s \in Sources : unread[s] ~> (~ unread[s] \/ exit # "running")

\* A shutdown that has begun comes to its end, whatever the driver is doing and
\* whether or not there is a watcher.
ShutdownEnds == exit # "running" ~> exit = "done"
=============================================================================
