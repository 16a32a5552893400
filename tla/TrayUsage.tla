------------------------------ MODULE TrayUsage ------------------------------
(***************************************************************************)
(* The snapshot of the day's usage that the tray shows                     *)
(* (usage/tray_usage.rs), and what asks for a new one: changes of the      *)
(* database, gathered by a debounced action (usage_events.rs), commands    *)
(* that change a budget, the cycle of quota probes, a refresh the user     *)
(* asks for, and the scheduler that waits for midnight                     *)
(* (usage/tray_usage_scheduler.rs).                                        *)
(*                                                                         *)
(* The content of the database is a number.  The snapshot that is cached   *)
(* and the one that is published are one: both are written under the lock. *)
(***************************************************************************)
EXTENDS Naturals, FiniteSets

CONSTANTS
    None,
    MaxUpdates,   \* bound: changes of the database
    MaxDays       \* bound: midnights

VARIABLES
    data,      \* content of the database
    day,       \* the local day
    unsent,    \* changes that have not called notify_* yet
    gate,      \* TRAY_REBUILD_SCHEDULED
    lock,      \* who holds commit_order, or None
    job,       \* [Jobs -> where it stands, and what it has read]
    active,    \* refresh_active
    shown,     \* the published snapshot
    retained   \* the day the scheduler has seen, or None

vars == <<data, day, unsent, gate, lock, job, active, shown, retained>>

Jobs == {"debounced", "midnight", "startup", "budget", "quota", "refresh"}
Idle == [pc |-> "idle", data |-> None, day |-> None]

\* setup starts the scheduler and asks for the first snapshot.
Init ==
    /\ data = 0 /\ day = 0 /\ unsent = 0 /\ gate = "Idle"
    /\ lock = None /\ active = FALSE
    /\ job = [j \in Jobs |-> [Idle EXCEPT !.pc = CASE j = "startup" -> "take"
                                                   [] j = "midnight" -> "observe"
                                                   [] OTHER -> "idle"]]
    /\ shown = [data |-> None, day |-> None, stale |-> FALSE, progress |-> FALSE]
    /\ retained = None

At(j, place) == job[j].pc = place
Goto(j, place) == job' = [job EXCEPT ![j].pc = place]

-----------------------------------------------------------------------------
(* TrayUsageService.                                                       *)

\* The lock is taken, and the time is read under it.
Take(j) ==
    /\ At(j, "take") /\ lock = None
    /\ lock' = j
    /\ job' = [job EXCEPT ![j].pc = "project", ![j].day = day]
    /\ UNCHANGED <<data, day, unsent, gate, active, shown, retained>>

Project(j) ==
    /\ At(j, "project")
    /\ job' = [job EXCEPT ![j].pc = "commit", ![j].data = data]
    /\ UNCHANGED <<data, day, unsent, gate, lock, active, shown, retained>>

\* project_snapshot, or a source of a refresh, or a probe of the quota cycle, failed.
ProjectFails(j) ==
    /\ At(j, "project")
    /\ Goto(j, "fail")
    /\ UNCHANGED <<data, day, unsent, gate, lock, active, shown, retained>>

\* Where a job goes on when its snapshot is committed.
After(j) ==
    CASE j = "debounced" -> "finish"
      [] j = "midnight" -> "observe"
      [] OTHER -> "idle"

\* Mutant: the last snapshot of a refresh is committed like any other.
ProgressLikeAny(j) == active

\* refresh_in_progress of a snapshot that is committed.
Progress(j) == IF j = "refresh" THEN FALSE ELSE active

\* commit_success_locked and commit_failure_locked; a failure keeps the old figures.
Commit(j) ==
    /\ At(j, "commit") \/ At(j, "fail")
    /\ shown' = IF At(j, "commit")
                THEN [data |-> job[j].data, day |-> job[j].day, stale |-> FALSE, progress |-> Progress(j)]
                ELSE [shown EXCEPT !.stale = TRUE, !.progress = Progress(j)]
    /\ active' = (active /\ j # "refresh")
    /\ lock' = None
    /\ job' = [job EXCEPT ![j] = [Idle EXCEPT !.pc = After(j)]]
    /\ retained' = IF j = "midnight" THEN None ELSE retained
    /\ UNCHANGED <<data, day, unsent, gate>>

\* try_begin_refresh; who comes second gets the snapshot that is there.
BeginRefresh ==
    /\ At("refresh", "idle") /\ ~ active
    /\ active' = TRUE /\ Goto("refresh", "start")
    /\ UNCHANGED <<data, day, unsent, gate, lock, shown, retained>>

\* publish_refresh_started
Started ==
    /\ At("refresh", "start") /\ lock = None
    /\ shown' = [shown EXCEPT !.progress = active]
    /\ Goto("refresh", "sources")
    /\ UNCHANGED <<data, day, unsent, gate, lock, active, retained>>

\* refresh_sources is over; what it has stored are changes of the database.
SourcesEnd ==
    /\ At("refresh", "sources")
    /\ Goto("refresh", "take")
    /\ UNCHANGED <<data, day, unsent, gate, lock, active, shown, retained>>

\* set_api_budget_config and the like rebuild themselves.
SetBudget ==
    /\ At("budget", "idle") /\ data < MaxUpdates
    /\ data' = data + 1 /\ Goto("budget", "take")
    /\ UNCHANGED <<day, unsent, gate, lock, active, shown, retained>>

\* A cycle of quota probes is over: a rebuild, or mark_refresh_failed_at.
QuotaCycle ==
    /\ At("quota", "idle")
    /\ Goto("quota", "take")
    /\ UNCHANGED <<data, day, unsent, gate, lock, active, shown, retained>>

-----------------------------------------------------------------------------
(* The debounced action.                                                   *)

Change ==
    /\ data < MaxUpdates
    /\ data' = data + 1 /\ unsent' = unsent + 1
    /\ UNCHANGED <<day, gate, lock, job, active, shown, retained>>

\* Mutant: a notification is dropped while the action runs.
AdmittedUnlessRunning == IF gate = "Idle" THEN "Scheduled" ELSE gate

\* try_admit
Admitted ==
    CASE gate = "Idle" -> "Scheduled"
      [] gate = "Running" -> "RunningDirty"
      [] OTHER -> gate

Notify ==
    /\ unsent > 0 /\ unsent' = unsent - 1
    /\ gate' = Admitted
    /\ IF gate = "Idle" THEN Goto("debounced", "wait") ELSE UNCHANGED job
    /\ UNCHANGED <<data, day, lock, active, shown, retained>>

\* The window of 200 ms is over: begin_action.
BeginAction ==
    /\ At("debounced", "wait")
    /\ gate' = "Running" /\ Goto("debounced", "take")
    /\ UNCHANGED <<data, day, unsent, lock, active, shown, retained>>

FinishAction ==
    /\ At("debounced", "finish")
    /\ gate' = IF gate = "RunningDirty" THEN "Scheduled" ELSE "Idle"
    /\ Goto("debounced", IF gate = "RunningDirty" THEN "wait" ELSE "idle")
    /\ UNCHANGED <<data, day, unsent, lock, active, shown, retained>>

-----------------------------------------------------------------------------
(* The scheduler.                                                          *)

\* decide_poll: another day than the one that was seen asks for a rebuild.
Observe ==
    /\ At("midnight", "observe")
    /\ IF retained \notin {None, day}
       THEN Goto("midnight", "take") /\ UNCHANGED retained
       ELSE Goto("midnight", "wait") /\ retained' = day
    /\ UNCHANGED <<data, day, unsent, gate, lock, active, shown>>

NoCalendar ==
    /\ At("midnight", "observe")
    /\ Goto("midnight", "wait")
    /\ UNCHANGED <<data, day, unsent, gate, lock, active, shown, retained>>

\* A wait ends at the next midnight, or after a quarter of an hour.
Wake ==
    /\ At("midnight", "wait")
    /\ Goto("midnight", "observe")
    /\ UNCHANGED <<data, day, unsent, gate, lock, active, shown, retained>>

\* Neither the start nor a rebuild of the scheduler takes from one day to another.
NewDay ==
    /\ day < MaxDays /\ retained = day
    /\ day' = day + 1
    /\ UNCHANGED <<data, unsent, gate, lock, job, active, shown, retained>>

Service(j) == Take(j) \/ Project(j) \/ ProjectFails(j) \/ Commit(j)

Next ==
    \/ \E j \in Jobs : Service(j)
    \/ BeginRefresh \/ Started \/ SourcesEnd \/ SetBudget \/ QuotaCycle
    \/ Change \/ Notify \/ BeginAction \/ FinishAction
    \/ Observe \/ NoCalendar \/ Wake \/ NewDay

Spec == Init /\ [][Next]_vars

-----------------------------------------------------------------------------
(* Properties.                                                             *)

\* A notification may be merged into an action that is scheduled or runs, and
\* snapshots are made by several tasks at once; still, when no change has yet to be
\* notified and no rebuild of one is under way, the tray shows the database as it
\* is, or says that it does not.
ChangeIsShown ==
    unsent = 0 /\ gate = "Idle" /\ (\A j \in {"startup", "budget"} : At(j, "idle")) =>
        shown.data = data \/ shown.stale

\* However a refresh overlaps with other snapshots, the tray does not say that one
\* is going on when it is over.
NoStuckProgress == lock = None /\ ~ active => ~ shown.progress

=============================================================================
