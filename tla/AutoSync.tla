------------------------------ MODULE AutoSync ------------------------------
(***************************************************************************)
(* Uploads that follow changes of the database (sync/webdav_auto_sync.rs;  *)
(* sync/s3_auto_sync.rs is the same for the other transport).  The update  *)
(* hook of SQLite leaves a signal in a channel of capacity one; a worker   *)
(* waits until the changes pause, but not longer than MaxWait, and uploads *)
(* a snapshot under the lock that the manual commands also take.           *)
(*                                                                         *)
(* One unit of time is the debounce time.  What a snapshot is and where it *)
(* goes is in CloudSnapshot.                                               *)
(***************************************************************************)
EXTENDS Naturals, FiniteSets

CONSTANTS
    Uploads, Downloads,   \* manual commands
    MaxWait               \* MAX_AUTO_SYNC_WAIT_MS

VARIABLES
    enabled,     \* the settings say that changes are uploaded
    signal,      \* DB_CHANGE_TX: whether the channel is full
    worker,      \* where run_worker_loop stands
    elapsed,     \* time since the first signal of a batch
    patience,    \* time the worker still waits for another signal
    command,     \* [commands -> where a manual command stands]
    lock,        \* who holds sync_mutex, or "nobody"
    owed         \* remembered: a noticed change no upload has dealt with

vars == <<enabled, signal, worker, elapsed, patience, command, lock, owed>>

Manual == Uploads \cup Downloads

Init ==
    /\ enabled \in BOOLEAN /\ signal = FALSE
    /\ worker = "waiting" /\ elapsed = 0 /\ patience = 0
    /\ command = [c \in Manual |-> "idle"]
    /\ lock = "nobody" /\ owed = FALSE

\* AUTO_SYNC_SUPPRESS_DEPTH: a download has its guard from before it waits for any
\* lock until it returns.
Suppressed == \E c \in Downloads : command[c] # "idle"

\* Mutant: every signal gets the whole debounce time.
WaitForAlways(past) == 1

\* auto_sync_wait_duration, 0 for None.
WaitFor(past) == IF past < MaxWait THEN 1 ELSE 0

-----------------------------------------------------------------------------

\* notify_db_changed, for a row of providers, provider_endpoints or settings.
Change ==
    /\ ~ Suppressed
    /\ signal' = TRUE /\ owed' = TRUE
    /\ UNCHANGED <<enabled, worker, elapsed, patience, command, lock>>

Receive ==
    /\ worker = "waiting" /\ signal
    /\ signal' = FALSE
    /\ worker' = "collecting" /\ elapsed' = 0 /\ patience' = WaitFor(0)
    /\ UNCHANGED <<enabled, command, lock, owed>>

\* Another signal; it is preferred when the time is up as well.
Merge ==
    /\ worker = "collecting" /\ signal
    /\ signal' = FALSE
    /\ patience' = WaitFor(elapsed)
    /\ worker' = IF WaitFor(elapsed) = 0 THEN "ready" ELSE worker
    /\ UNCHANGED <<enabled, elapsed, command, lock, owed>>

TimeIsUp ==
    /\ worker = "collecting" /\ ~ signal /\ patience = 0
    /\ worker' = "ready"
    /\ UNCHANGED <<enabled, signal, elapsed, patience, command, lock, owed>>

\* run_auto_sync_upload: the settings are read before the lock is taken.
Start ==
    /\ worker = "ready"
    /\ IF enabled THEN worker' = "locking" /\ UNCHANGED owed
                  ELSE worker' = "waiting" /\ owed' = FALSE
    /\ UNCHANGED <<enabled, signal, elapsed, patience, command, lock>>

Lock ==
    /\ worker = "locking" /\ lock = "nobody"
    /\ lock' = "worker" /\ worker' = "preparing"
    /\ UNCHANGED <<enabled, signal, elapsed, patience, command, owed>>

\* build_local_snapshot, after the remote directories have been made.
Build ==
    /\ worker = "preparing"
    /\ worker' = "sending" /\ owed' = FALSE
    /\ UNCHANGED <<enabled, signal, elapsed, patience, command, lock>>

\* An error is kept for the settings page; there is no other attempt.
PrepareFails ==
    /\ worker = "preparing"
    /\ worker' = "waiting" /\ lock' = "nobody" /\ owed' = FALSE
    /\ UNCHANGED <<enabled, signal, elapsed, patience, command>>

\* Mutant: what has been signalled during an upload is considered done with it.
SentAndDrained ==
    /\ worker = "sending"
    /\ worker' = "waiting" /\ lock' = "nobody" /\ signal' = FALSE
    /\ UNCHANGED <<enabled, elapsed, patience, command, owed>>

Sent ==
    /\ worker = "sending"
    /\ worker' = "waiting" /\ lock' = "nobody"
    /\ UNCHANGED <<enabled, signal, elapsed, patience, command, owed>>

Worker == Receive \/ Merge \/ TimeIsUp \/ Start \/ Build \/ PrepareFails \/ Sent

-----------------------------------------------------------------------------
(* The manual commands (api/commands/webdav_sync.rs).                      *)

Call(c) ==
    /\ command[c] = "idle"
    /\ command' = [command EXCEPT ![c] = "locking"]
    /\ UNCHANGED <<enabled, signal, worker, elapsed, patience, lock, owed>>

CommandLocks(c) ==
    /\ command[c] = "locking" /\ lock = "nobody"
    /\ lock' = c /\ command' = [command EXCEPT ![c] = "working"]
    /\ UNCHANGED <<enabled, signal, worker, elapsed, patience, owed>>

CommandUnlocks(c) ==
    /\ command[c] = "working"
    /\ lock' = "nobody" /\ command' = [command EXCEPT ![c] = "leaving"]
    /\ UNCHANGED <<enabled, signal, worker, elapsed, patience, owed>>

\* A download has refreshed what depends on the database before it returns.
CommandReturns(c) ==
    /\ command[c] = "leaving"
    /\ command' = [command EXCEPT ![c] = "idle"]
    /\ UNCHANGED <<enabled, signal, worker, elapsed, patience, lock, owed>>

CommandEnds(c) == CommandUnlocks(c) \/ CommandReturns(c)

Toggle ==
    /\ enabled' = ~ enabled
    /\ UNCHANGED <<signal, worker, elapsed, patience, command, lock, owed>>

Tick ==
    /\ worker = "collecting"
    /\ elapsed' = IF elapsed < MaxWait THEN elapsed + 1 ELSE elapsed
    /\ patience' = IF patience > 0 THEN patience - 1 ELSE 0
    /\ UNCHANGED <<enabled, signal, worker, command, lock, owed>>

Next ==
    \/ Change \/ Worker \/ Lock \/ Toggle \/ Tick
    \/ \E c \in Manual : Call(c) \/ CommandLocks(c) \/ CommandEnds(c)

Spec == Init /\ [][Next]_vars

\* The runtime runs the worker, the lock is given in turn (tokio's is fair), time
\* passes, and no transfer takes forever.
FairSpec ==
    /\ Spec
    /\ WF_vars(Worker) /\ SF_vars(Lock) /\ WF_vars(Tick)
    /\ \A c \in Manual : WF_vars(CommandEnds(c))

-----------------------------------------------------------------------------
(* Properties.                                                             *)

\* "We only need dirty signals, not every event": a signal may be dropped because
\* the channel is full, but a noticed change always has a signal or a snapshot yet
\* to be built ahead of it.
ChangeIsAnnounced == owed => signal \/ worker \notin {"waiting", "sending"}

\* However fast changes follow one another, and whatever the user does by hand, a
\* noticed change is uploaded, or its upload is reported as failed or switched off.
EveryChangeIsDealtWith == owed ~> ~ owed
=============================================================================
