------------------------- MODULE UsageWatcher_proofs -------------------------
(***************************************************************************)
(* The safety properties of UsageWatcher for any sources, intervals and    *)
(* bounds.                                                                 *)
(***************************************************************************)
EXTENDS UsageWatcher, TLAPS

Syncing == driver = "syncing"
Running == driver \in {"waiting", "woken", "begin", "syncing"}

\* A watcher exists only between its start and the shutdown of the schedule.
HandleInv ==
    /\ handle => ~ shutdown
    /\ watched # {} => handle
    /\ \A s \in Sources : event[s] => handle \/ shutdown
    /\ driver = "spawned" => ~ handle /\ ~ shutdown
    /\ exit = "done" => driver = "ended" /\ ~ handle

\* What the driver holds of a round is what the schedule has of it, until the
\* schedule is shut down; no mark that a pass covers disappears under it.
RoundInv ==
    /\ ~ Syncing => due = {} /\ scanned = None
    /\ scanned # None =>
         [source |-> scanned.source, generation |-> scanned.generation, epoch |-> scanned.epoch]
           \in due
    /\ \A d, e \in due : d.source = e.source => d = e
    /\ ~ shutdown => \A d \in due :
         /\ pass[d.source] = [generation |-> d.generation, epoch |-> d.epoch]
         /\ d.generation <= dirty[d.source]
    /\ \A s \in Sources : pass[s] # None => ~ shutdown /\ \E d \in due : d.source = s

\* A mark that came after the scan is beyond the generation of the pass.
ScannedClean(s) == scanned # None /\ scanned.source = s /\ scanned.clean
Marked(s) == dirty[s] > 0 /\ (ScannedClean(s) => dirty[s] > scanned.generation)

MarkInv ==
    Running /\ ~ shutdown =>
        \A s \in Sources : unread[s] => Marked(s) \/ (handle /\ event[s]) \/ lost[s]

\* A source that no pass of this epoch is syncing has its interval still to wait
\* or behind it.
AgeInv ==
    ~ shutdown =>
        \A s \in Sources : (pass[s] = None \/ pass[s].epoch # epoch) =>
            sinceStart[s] + wait[s] >= interval

IInv == TypeOK /\ HandleInv /\ RoundInv /\ MarkInv /\ AgeInv

-----------------------------------------------------------------------------

LEMMA InitIInv == Init => IInv
<1> SUFFICES ASSUME Init PROVE IInv
  OBVIOUS
<1> USE DEF Init
<1>1. MaxAge \in Nat /\ MinInterval \in Nat /\ MinInterval <= MaxAge
  BY IntervalAssumption, BoundAssumption
<1>2. TypeOK
  <2>1. 0 \in 0..MaxMarks /\ 0 \in 0..MaxEpoch /\ 0 \in 0..FallbackInterval
    BY IntervalAssumption, BoundAssumption
  <2>2. MaxAge \in 0..MaxAge
    BY <1>1
  <2>3. /\ dirty \in [Sources -> 0..MaxMarks] /\ wait \in [Sources -> Nat]
        /\ failures \in [Sources -> 0..4] /\ sinceStart \in [Sources -> 0..MaxAge]
    BY <2>1, <2>2
  <2>4. /\ pass \in [Sources -> Passes \cup {None}] /\ event \in [Sources -> BOOLEAN]
        /\ unread \in [Sources -> BOOLEAN] /\ lost \in [Sources -> BOOLEAN]
    OBVIOUS
  <2>5. /\ watched \in SUBSET Sources /\ due \in SUBSET Dues /\ scanned \in Scans \cup {None}
        /\ interval \in Intervals
    BY IntervalAssumption
  <2> QED BY <2>1, <2>3, <2>4, <2>5 DEF TypeOK
<1>3. HandleInv /\ RoundInv /\ MarkInv
  BY DEF HandleInv, RoundInv, MarkInv, Syncing, Running
<1>4. AgeInv
  <2> SUFFICES ASSUME NEW s \in Sources PROVE sinceStart[s] + wait[s] >= interval
    BY DEF AgeInv
  <2>1. sinceStart[s] = MaxAge /\ wait[s] = 0 /\ interval = MinInterval
    OBVIOUS
  <2> QED BY <1>1, <2>1
<1> QED BY <1>2, <1>3, <1>4 DEF IInv

\* What marking does to a source, and that it keeps what the invariant says of
\* marks: only a pass that is being synced tells generations apart.
LEMMA MarksKept ==
    ASSUME TypeOK, NEW S \in SUBSET Sources, MarkDirty(S)
    PROVE  /\ dirty' \in [Sources -> 0..MaxMarks] /\ lost' \in [Sources -> BOOLEAN]
           /\ \A s \in Sources : dirty[s] <= dirty'[s]
           /\ ~ shutdown => \A s \in S :
                /\ dirty'[s] > 0 /\ ~ lost'[s]
                /\ dirty[s] < MaxMarks => dirty'[s] = dirty[s] + 1
           /\ \A s \in Sources \ S : dirty'[s] = dirty[s] /\ lost'[s] = lost[s]
           /\ shutdown => dirty' = dirty /\ lost' = lost
           /\ UNCHANGED <<pass, wait, failures, interval, epoch, shutdown>>
BY BoundAssumption DEF MarkDirty, TypeOK, AtMost

LEMMA WriteStep ==
    ASSUME IInv, NEW s \in Sources, Write(s)
    PROVE  IInv'
<1> USE DEF Write, schedule, driverVars
<1>1. TypeOK'
  BY DEF IInv, TypeOK
<1>2. HandleInv'
  BY DEF IInv, TypeOK, HandleInv
<1>3. RoundInv'
  BY DEF IInv, RoundInv, Syncing
<1>4. MarkInv'
  <2>1. CASE event' = [event EXCEPT ![s] = TRUE] /\ s \in watched /\ UNCHANGED lost
    BY <2>1 DEF IInv, TypeOK, HandleInv, MarkInv, Marked, ScannedClean, Running
  <2>2. CASE lost' = [lost EXCEPT ![s] = TRUE] /\ UNCHANGED event
    BY <2>2 DEF IInv, TypeOK, MarkInv, Marked, ScannedClean, Running
  <2> QED BY <2>1, <2>2
<1>5. AgeInv'
  BY DEF IInv, AgeInv
<1> QED BY <1>1, <1>2, <1>3, <1>4, <1>5 DEF IInv

LEMMA EventArrivesStep ==
    ASSUME IInv, NEW s \in Sources, EventArrives(s)
    PROVE  IInv'
<1> USE DEF driverVars
<1>1. /\ handle /\ dirty[s] < MaxMarks /\ MarkDirty({s})
      /\ event' = [event EXCEPT ![s] = FALSE]
      /\ UNCHANGED <<handle, watched, driver, due, scanned, sinceFallback, exit, unread, sinceStart>>
      /\ ~ shutdown /\ TypeOK
  BY DEF EventArrives, IInv, HandleInv
<1>2. /\ dirty' \in [Sources -> 0..MaxMarks] /\ lost' \in [Sources -> BOOLEAN]
      /\ \A r \in Sources : dirty[r] <= dirty'[r]
      /\ dirty'[s] = dirty[s] + 1
      /\ \A r \in Sources \ {s} : dirty'[r] = dirty[r] /\ lost'[r] = lost[r]
      /\ UNCHANGED <<pass, wait, failures, interval, epoch, shutdown>>
  BY <1>1, MarksKept
<1>3. TypeOK'
  BY <1>1, <1>2 DEF TypeOK
<1>4. HandleInv'
  BY <1>1, <1>2 DEF IInv, TypeOK, HandleInv
<1>5. RoundInv'
  <2>1. \A d \in due : d.source \in Sources /\ d.generation \in Nat
    BY <1>1 DEF TypeOK, Dues
  <2>2. \A d \in due : d.generation <= dirty[d.source] => d.generation <= dirty'[d.source]
    BY <1>1, <1>2, <2>1 DEF TypeOK
  <2> QED BY <1>1, <1>2, <2>2 DEF IInv, RoundInv, Syncing
<1>6. MarkInv'
  <2> SUFFICES ASSUME Running, NEW r \in Sources, unread[r]
               PROVE  Marked(r)' \/ (handle /\ event'[r]) \/ lost'[r]
    BY <1>1, <1>2 DEF MarkInv, Running
  <2>1. CASE r = s
    <3>1. ScannedClean(s) => scanned.generation <= dirty[s]
      BY <1>1 DEF ScannedClean, IInv, RoundInv
    <3>2. dirty'[s] > 0 /\ (ScannedClean(s) => dirty'[s] > scanned.generation)
      BY <1>1, <1>2, <3>1 DEF TypeOK, Scans, ScannedClean
    <3> QED BY <1>1, <2>1, <3>2 DEF Marked, ScannedClean
  <2>2. CASE r # s
    BY <1>1, <1>2, <2>2 DEF IInv, TypeOK, MarkInv, Marked, ScannedClean
  <2> QED BY <2>1, <2>2
<1>7. AgeInv'
  BY <1>1, <1>2 DEF IInv, AgeInv
<1> QED BY <1>3, <1>4, <1>5, <1>6, <1>7 DEF IInv

LEMMA SetIntervalStep ==
    ASSUME IInv, NEW i \in Intervals, SetInterval(i)
    PROVE  IInv'
<1> USE DEF SetInterval, driverVars
<1>1. TypeOK'
  <2>1. epoch' \in 0..MaxEpoch
    BY BoundAssumption DEF IInv, TypeOK
  <2>2. wait' \in [Sources -> Nat] /\ interval' \in Intervals
    BY IntervalAssumption
  <2> QED BY <2>1, <2>2 DEF IInv, TypeOK
<1>2. HandleInv' /\ RoundInv' /\ MarkInv'
  BY DEF IInv, HandleInv, RoundInv, MarkInv, Marked, ScannedClean, Syncing, Running
<1>3. AgeInv'
  <2> SUFFICES ASSUME NEW s \in Sources PROVE sinceStart'[s] + wait'[s] >= interval'
    BY DEF AgeInv
  <2>1. wait'[s] = i /\ interval' = i /\ sinceStart'[s] = sinceStart[s]
    OBVIOUS
  <2>2. sinceStart[s] \in Nat /\ i \in Nat
    BY IntervalAssumption DEF IInv, TypeOK
  <2> QED BY <2>1, <2>2
<1> QED BY <1>1, <1>2, <1>3 DEF IInv

LEMMA TickStep == IInv /\ Tick => IInv'
<1> SUFFICES ASSUME IInv, Tick PROVE IInv'
  OBVIOUS
<1> USE DEF Tick
<1>1. TypeOK'
  BY IntervalAssumption, BoundAssumption DEF IInv, TypeOK, AtMost, Less1
<1>2. HandleInv' /\ RoundInv' /\ MarkInv'
  BY DEF IInv, HandleInv, RoundInv, MarkInv, Marked, ScannedClean, Syncing, Running
<1>3. AgeInv'
  <2> SUFFICES ASSUME ~ shutdown, NEW s \in Sources, pass[s] = None \/ pass[s].epoch # epoch
               PROVE  sinceStart'[s] + wait'[s] >= interval
    BY DEF AgeInv
  <2>1. /\ sinceStart[s] + wait[s] >= interval
        /\ sinceStart[s] \in 0..MaxAge /\ wait[s] \in Nat
        /\ interval \in Nat /\ interval <= MaxAge
    BY IntervalAssumption, BoundAssumption DEF IInv, AgeInv, TypeOK
  <2>2. sinceStart'[s] = AtMost(sinceStart[s] + 1, MaxAge) /\ wait'[s] = Less1(wait[s])
    OBVIOUS
  <2> QED BY <2>1, <2>2, BoundAssumption DEF AtMost, Less1
<1> QED BY <1>1, <1>2, <1>3 DEF IInv

LEMMA StartWatcherStep == IInv /\ StartWatcher => IInv'
<1> SUFFICES ASSUME IInv, StartWatcher PROVE IInv'
  OBVIOUS
<1> USE DEF StartWatcher, schedule
<1>1. TypeOK'
  BY DEF IInv, TypeOK
<1>2. HandleInv'
  BY DEF IInv, TypeOK, HandleInv
<1>3. RoundInv' /\ MarkInv'
  BY DEF IInv, RoundInv, MarkInv, Syncing, Running
<1>4. AgeInv'
  BY DEF IInv, AgeInv
<1> QED BY <1>1, <1>2, <1>3, <1>4 DEF IInv

LEMMA InitialSyncStep == IInv /\ InitialSync => IInv'
<1> SUFFICES ASSUME IInv, InitialSync PROVE IInv'
  OBVIOUS
<1> USE DEF InitialSync, schedule
<1>1. TypeOK'
  BY DEF IInv, TypeOK
<1>2. HandleInv' /\ RoundInv' /\ MarkInv'
  BY DEF IInv, HandleInv, RoundInv, MarkInv, Syncing, Running
<1>3. AgeInv'
  BY DEF IInv, AgeInv
<1> QED BY <1>1, <1>2, <1>3 DEF IInv

\* The first mark of all sources is what makes MarkInv true of a running driver.
LEMMA MarkAllAtStartStep == IInv /\ MarkAllAtStart => IInv'
<1> SUFFICES ASSUME IInv, MarkAllAtStart PROVE IInv'
  OBVIOUS
<1>1. /\ driver = "started" /\ driver' = "waiting" /\ MarkDirty(Sources) /\ sinceFallback' = 0
      /\ UNCHANGED <<handle, watched, event, due, scanned, exit, unread, sinceStart>>
      /\ TypeOK
  BY DEF MarkAllAtStart, IInv
<1>2. /\ dirty' \in [Sources -> 0..MaxMarks] /\ lost' \in [Sources -> BOOLEAN]
      /\ ~ shutdown => \A s \in Sources : dirty'[s] > 0
      /\ UNCHANGED <<pass, wait, failures, interval, epoch, shutdown>>
  BY <1>1, MarksKept
<1>3. TypeOK'
  BY <1>1, <1>2, IntervalAssumption DEF TypeOK
<1>4. due = {} /\ scanned = None
  BY <1>1 DEF IInv, RoundInv, Syncing
<1>5. HandleInv' /\ RoundInv'
  BY <1>1, <1>2, <1>4 DEF IInv, HandleInv, RoundInv, Syncing
<1>6. MarkInv'
  BY <1>1, <1>2, <1>4 DEF MarkInv, Marked, ScannedClean
<1>7. AgeInv'
  BY <1>1, <1>2 DEF IInv, AgeInv
<1> QED BY <1>3, <1>5, <1>6, <1>7 DEF IInv

LEMMA WakeUpStep == IInv /\ WakeUp => IInv'
<1> SUFFICES ASSUME IInv, WakeUp PROVE IInv'
  OBVIOUS
<1> USE DEF WakeUp, schedule
<1>1. TypeOK'
  BY DEF IInv, TypeOK
<1>2. HandleInv' /\ RoundInv'
  BY DEF IInv, HandleInv, RoundInv, Syncing, Aborted
<1>3. MarkInv' /\ AgeInv'
  BY DEF IInv, MarkInv, AgeInv, Marked, ScannedClean, Running
<1> QED BY <1>1, <1>2, <1>3 DEF IInv

LEMMA FallbackStep == IInv /\ Fallback => IInv'
<1> SUFFICES ASSUME IInv, Fallback PROVE IInv'
  OBVIOUS
<1>1. /\ driver = "woken" /\ driver' = "begin"
      /\ UNCHANGED <<handle, watched, event, due, scanned, exit, unread, sinceStart>>
      /\ due = {} /\ scanned = None /\ TypeOK
  BY DEF Fallback, IInv, RoundInv, Syncing
<1>2. CASE MarkDirty(Sources) /\ sinceFallback' = 0
  <2>1. /\ dirty' \in [Sources -> 0..MaxMarks] /\ lost' \in [Sources -> BOOLEAN]
        /\ ~ shutdown => \A s \in Sources : dirty'[s] > 0
        /\ UNCHANGED <<pass, wait, failures, interval, epoch, shutdown>>
    BY <1>1, <1>2, MarksKept
  <2>2. TypeOK'
    BY <1>1, <1>2, <2>1, IntervalAssumption DEF TypeOK
  <2>3. HandleInv' /\ RoundInv'
    BY <1>1, <2>1 DEF IInv, HandleInv, RoundInv, Syncing
  <2>4. MarkInv'
    BY <1>1, <2>1 DEF MarkInv, Marked, ScannedClean
  <2>5. AgeInv'
    BY <1>1, <2>1 DEF IInv, AgeInv
  <2> QED BY <2>2, <2>3, <2>4, <2>5 DEF IInv
<1>3. CASE UNCHANGED <<schedule, lost, sinceFallback>>
  <2> USE DEF schedule
  <2>1. TypeOK'
    BY <1>1, <1>3 DEF TypeOK
  <2>2. HandleInv' /\ RoundInv'
    BY <1>1, <1>3 DEF IInv, HandleInv, RoundInv, Syncing
  <2>3. MarkInv' /\ AgeInv'
    BY <1>1, <1>3 DEF IInv, MarkInv, AgeInv, Marked, ScannedClean, Running
  <2> QED BY <2>1, <2>2, <2>3 DEF IInv
<1> QED BY <1>2, <1>3 DEF Fallback, FallbackSources

\* A pass begins with what the source is marked with now, so what was unread and
\* marked before still is.
LEMMA BeginStep == IInv /\ Begin => IInv'
<1> SUFFICES ASSUME IInv, Begin PROVE IInv'
  OBVIOUS
<1> DEFINE starting == {s \in Sources : IsDue(s)}
<1>1. /\ driver = "begin" /\ driver' \in {"waiting", "syncing"}
      /\ driver' = "waiting" <=> due' = {}
      /\ UNCHANGED <<handle, watched, event, scanned, sinceFallback, exit, unread, lost>>
      /\ UNCHANGED <<dirty, wait, failures, interval, epoch, shutdown>>
      /\ due' = {[source |-> s, generation |-> dirty[s], epoch |-> epoch] : s \in starting}
      /\ pass' = [s \in Sources |->
           IF s \in starting THEN [generation |-> dirty[s], epoch |-> epoch] ELSE pass[s]]
      /\ sinceStart' = [s \in Sources |-> IF s \in starting THEN 0 ELSE sinceStart[s]]
      /\ due = {} /\ scanned = None /\ TypeOK
  BY DEF Begin, BeginDue, IInv, RoundInv, Syncing
<1>2. \A s \in starting : dirty[s] \in 1..MaxMarks /\ ~ shutdown /\ wait[s] = 0
  BY <1>1, BoundAssumption DEF TypeOK, IsDue
<1>3. \A d \in due' : /\ d \in Dues /\ d.source \in starting
                      /\ d.generation = dirty[d.source] /\ d.epoch = epoch
  BY <1>1, <1>2 DEF TypeOK, Dues
<1> HIDE DEF starting
<1>4. starting \subseteq Sources
  BY DEF starting
<1>5. TypeOK'
  <2>1. pass' \in [Sources -> Passes \cup {None}]
    BY <1>1, <1>2, <1>4 DEF TypeOK, Passes
  <2>2. sinceStart' \in [Sources -> 0..MaxAge]
    BY <1>1, BoundAssumption DEF TypeOK
  <2>3. due' \in SUBSET Dues
    BY <1>3
  <2> QED BY <1>1, <2>1, <2>2, <2>3 DEF TypeOK
<1>6. HandleInv'
  BY <1>1 DEF IInv, HandleInv
<1>7. RoundInv'
  <2>1. \A s \in Sources : pass[s] = None
    BY <1>1 DEF IInv, RoundInv
  <2>2. ASSUME NEW s \in Sources, pass'[s] # None
        PROVE  ~ shutdown' /\ \E d \in due' : d.source = s
    <3>1. s \in starting
      BY <1>1, <2>1, <2>2
    <3>2. [source |-> s, generation |-> dirty[s], epoch |-> epoch] \in due'
      BY <1>1, <3>1
    <3> QED BY <1>1, <1>2, <3>1, <3>2
  <2>3. \A d, e \in due' : d.source = e.source => d = e
    BY <1>1
  <2>4. \A d \in due' : /\ pass'[d.source] = [generation |-> d.generation, epoch |-> d.epoch]
                        /\ d.generation <= dirty'[d.source]
    <3> SUFFICES ASSUME NEW d \in due'
                 PROVE  /\ pass'[d.source] = [generation |-> d.generation, epoch |-> d.epoch]
                        /\ d.generation <= dirty[d.source]
      BY <1>1
    <3>1. d.source \in Sources /\ d.generation = dirty[d.source] /\ dirty[d.source] \in Nat
      BY <1>1, <1>2, <1>3, <1>4
    <3> QED BY <1>1, <1>3, <3>1
  <2> QED BY <1>1, <2>2, <2>3, <2>4 DEF RoundInv, Syncing
<1>8. MarkInv'
  BY <1>1 DEF IInv, MarkInv, Marked, ScannedClean, Running
<1>9. AgeInv'
  <2> SUFFICES ASSUME ~ shutdown, NEW s \in Sources, pass'[s] = None \/ pass'[s].epoch # epoch
               PROVE  sinceStart'[s] + wait[s] >= interval
    BY <1>1 DEF AgeInv
  <2>1. CASE s \in starting
    <3>1. pass'[s] = [generation |-> dirty[s], epoch |-> epoch]
      BY <1>1, <2>1
    <3>2. pass'[s] # None
      BY <1>1, <3>1, NoneAssumption DEF TypeOK
    <3> QED BY <3>1, <3>2
  <2>2. CASE s \notin starting
    BY <1>1, <2>2 DEF IInv, AgeInv
  <2> QED BY <2>1, <2>2
<1> QED BY <1>5, <1>6, <1>7, <1>8, <1>9 DEF IInv

LEMMA ScanStep ==
    ASSUME IInv, NEW d \in due, NEW clean \in BOOLEAN, Scan(d, clean)
    PROVE  IInv'
<1> USE DEF schedule
<1>1. /\ driver = "syncing" /\ scanned = None
      /\ scanned' = [source |-> d.source, generation |-> d.generation, epoch |-> d.epoch,
                     clean |-> clean]
      /\ UNCHANGED <<dirty, pass, wait, failures, interval, epoch, shutdown, handle, watched, event,
                     driver, due, sinceFallback, exit, lost, sinceStart>>
      /\ TypeOK /\ d \in Dues
  BY DEF Scan, IInv, TypeOK
<1>2. /\ unread' \in [Sources -> BOOLEAN]
      /\ \A s \in Sources : unread'[s] => unread[s]
      /\ clean => ~ unread'[d.source]
  BY <1>1 DEF Scan, TypeOK, Dues
<1>3. TypeOK'
  BY <1>1, <1>2 DEF TypeOK, Dues, Scans
<1>4. HandleInv'
  BY <1>1 DEF IInv, HandleInv
<1>5. RoundInv'
  <2>1. [source |-> scanned'.source, generation |-> scanned'.generation, epoch |-> scanned'.epoch] = d
    BY <1>1 DEF Dues
  <2> QED BY <1>1, <2>1 DEF IInv, RoundInv, Syncing
<1>6. MarkInv'
  BY <1>1, <1>2 DEF IInv, MarkInv, Marked, ScannedClean, Running
<1>7. AgeInv'
  BY <1>1 DEF IInv, AgeInv
<1> QED BY <1>3, <1>4, <1>5, <1>6, <1>7 DEF IInv

-----------------------------------------------------------------------------
(* The report of a pass.                                                   *)

\* The delay of a report is never below the interval in force.
LEMMA DelayBounds ==
    ASSUME NEW i \in Nat, NEW n \in 0..4
    PROVE  /\ AtMost(n + 1, 4) \in 1..4
           /\ i * BackoffMultipliers[AtMost(n + 1, 4)] \in Nat
           /\ i * BackoffMultipliers[AtMost(n + 1, 4)] >= i
<1>1. AtMost(n + 1, 4) \in {1, 2, 3, 4}
  BY DEF AtMost
<1>2. \A f \in {1, 2, 3, 4} : BackoffMultipliers[f] \in {1, 2, 4, 6}
  BY DEF BackoffMultipliers
<1>3. \A k \in {1, 2, 4, 6} : i * k \in Nat /\ i * k >= i
  OBVIOUS
<1> QED BY <1>1, <1>2, <1>3

\* What the report of d, if it is taken, does to the state of its source.
LEMMA FinishPassEffect ==
    ASSUME IInv, ~ shutdown, NEW d \in due, NEW clean \in BOOLEAN, FinishPass(d, clean)
    PROVE  /\ d.source \in Sources
           /\ dirty' \in [Sources -> 0..MaxMarks] /\ failures' \in [Sources -> 0..4]
           /\ pass' \in [Sources -> Passes \cup {None}] /\ wait' \in [Sources -> Nat]
           /\ pass'[d.source] = None
           /\ dirty'[d.source] = IF clean THEN dirty[d.source] - d.generation
                                          ELSE dirty[d.source]
           /\ d.epoch = epoch => wait'[d.source] >= interval
           /\ d.epoch # epoch => wait'[d.source] = wait[d.source]
           /\ \A s \in Sources \ {d.source} :
                dirty'[s] = dirty[s] /\ pass'[s] = pass[s] /\ wait'[s] = wait[s]
<1> DEFINE s == d.source
<1> DEFINE failed == AtMost(failures[s] + 1, 4)
<1> DEFINE delay == IF clean THEN interval ELSE interval * BackoffMultipliers[failed]
<1>1. /\ TypeOK /\ d \in Dues /\ s \in Sources /\ d.generation \in Nat
      /\ d.generation <= dirty[s] /\ dirty[s] \in 0..MaxMarks
      /\ interval \in Nat /\ failures[s] \in 0..4
  <2>1. TypeOK /\ d \in Dues
    BY DEF IInv, TypeOK
  <2>2. s \in Sources /\ d.generation \in Nat
    BY <2>1, BoundAssumption DEF Dues
  <2>3. d.generation <= dirty[s]
    BY DEF IInv, RoundInv
  <2> QED BY <2>1, <2>2, <2>3, IntervalAssumption DEF TypeOK
<1>2. failed \in 1..4 /\ delay \in Nat /\ delay >= interval
  BY <1>1, DelayBounds
<1>3. /\ dirty' = [dirty EXCEPT ![s] = IF clean THEN @ - d.generation ELSE @]
      /\ failures' = [failures EXCEPT ![s] = IF clean THEN 0 ELSE failed]
      /\ pass' = [pass EXCEPT ![s] = None]
      /\ wait' = [wait EXCEPT ![s] = IF d.epoch = epoch THEN delay ELSE @]
  BY DEF FinishPass
<1> HIDE DEF failed, delay
<1>4. dirty' \in [Sources -> 0..MaxMarks]
  <2>1. (IF clean THEN dirty[s] - d.generation ELSE dirty[s]) \in 0..MaxMarks
    BY <1>1, BoundAssumption
  <2> QED BY <1>1, <1>3, <2>1 DEF TypeOK
<1>5. failures' \in [Sources -> 0..4]
  BY <1>1, <1>2, <1>3 DEF TypeOK
<1>6. pass' \in [Sources -> Passes \cup {None}] /\ wait' \in [Sources -> Nat]
  BY <1>1, <1>2, <1>3 DEF TypeOK
<1>7. d.epoch = epoch => wait'[s] >= interval
  BY <1>1, <1>2, <1>3 DEF TypeOK
<1> QED BY <1>1, <1>3, <1>4, <1>5, <1>6, <1>7 DEF TypeOK

\* A report of the driver is of the round it holds.
LEMMA FinishStep == IInv /\ Finish => IInv'
<1> SUFFICES ASSUME IInv, Finish PROVE IInv'
  OBVIOUS
<1> DEFINE d == [source |-> scanned.source, generation |-> scanned.generation,
                 epoch |-> scanned.epoch]
<1>1. /\ scanned # None /\ scanned' = None /\ Report(d, scanned.clean) /\ due' = due \ {d}
      /\ driver' = IF due' = {} THEN "waiting" ELSE "syncing"
      /\ UNCHANGED <<handle, watched, event, sinceFallback, exit, unread, lost, sinceStart>>
      /\ UNCHANGED <<interval, epoch, shutdown>>
      /\ TypeOK
  BY DEF Finish, Report, IInv
<1>2. /\ driver = "syncing" /\ d \in due /\ scanned \in Scans
      /\ d.source = scanned.source /\ d.generation = scanned.generation /\ d.epoch = scanned.epoch
      /\ d.source \in Sources /\ scanned.clean \in BOOLEAN
  BY <1>1 DEF IInv, RoundInv, Syncing, TypeOK, Scans
<1>3. \A e \in due : e.source \in Sources
  BY <1>1 DEF TypeOK, Dues
<1>4. \A e, f \in due : e.source = f.source => e = f
  BY DEF IInv, RoundInv
<1>5. CASE shutdown
  <2>1. UNCHANGED <<dirty, failures, pass, wait>>
    BY <1>1, <1>5 DEF Report
  <2>2. TypeOK'
    BY <1>1, <1>2, <2>1 DEF TypeOK
  <2>3. HandleInv'
    BY <1>1, <1>2, <2>1 DEF IInv, HandleInv
  <2>4. RoundInv'
    BY <1>1, <1>4, <1>5, <2>1 DEF IInv, RoundInv, Syncing
  <2> QED BY <1>1, <1>5, <2>2, <2>3, <2>4 DEF IInv, MarkInv, AgeInv
<1>6. CASE ~ shutdown
  <2>1. pass[d.source] = [generation |-> d.generation, epoch |-> d.epoch]
    BY <1>2, <1>6 DEF IInv, RoundInv
  <2>2. FinishPass(d, scanned.clean)
    BY <1>1, <1>6, <2>1 DEF Report
  <2> HIDE DEF d
  <2>3. /\ dirty' \in [Sources -> 0..MaxMarks] /\ failures' \in [Sources -> 0..4]
        /\ pass' \in [Sources -> Passes \cup {None}] /\ wait' \in [Sources -> Nat]
        /\ pass'[d.source] = None
        /\ dirty'[d.source] = IF scanned.clean THEN dirty[d.source] - d.generation
                                              ELSE dirty[d.source]
        /\ d.epoch = epoch => wait'[d.source] >= interval
        /\ d.epoch # epoch => wait'[d.source] = wait[d.source]
        /\ \A s \in Sources \ {d.source} :
             dirty'[s] = dirty[s] /\ pass'[s] = pass[s] /\ wait'[s] = wait[s]
    BY <1>2, <1>6, <2>2, FinishPassEffect
  <2>4. TypeOK'
    BY <1>1, <1>2, <2>3 DEF TypeOK
  <2>5. HandleInv'
    BY <1>1, <1>2 DEF IInv, HandleInv
  <2>6. RoundInv'
    <3>1. \A e \in due' : e \in due /\ e.source \in Sources \ {d.source}
      BY <1>1, <1>2, <1>3, <1>4
    <3>2. \A e \in due' : /\ pass'[e.source] = [generation |-> e.generation, epoch |-> e.epoch]
                          /\ e.generation <= dirty'[e.source]
      BY <1>6, <2>3, <3>1 DEF IInv, RoundInv
    <3>3. ASSUME NEW s \in Sources, pass'[s] # None PROVE \E e \in due' : e.source = s
      <4>1. s # d.source /\ pass[s] # None
        BY <2>3, <3>3
      <4> QED BY <1>1, <4>1 DEF IInv, RoundInv
    <3> QED BY <1>1, <1>4, <1>6, <3>1, <3>2, <3>3 DEF RoundInv, Syncing
  <2>7. MarkInv'
    <3> SUFFICES ASSUME NEW s \in Sources, unread[s]
                 PROVE  dirty'[s] > 0 \/ (handle /\ event[s]) \/ lost[s]
      BY <1>1 DEF MarkInv, Marked, ScannedClean
    <3>1. Marked(s) \/ (handle /\ event[s]) \/ lost[s]
      BY <1>2, <1>6 DEF IInv, MarkInv, Running
    <3>2. CASE s = d.source /\ Marked(s)
      <4>1. /\ dirty[s] \in Nat /\ d.generation \in Nat /\ dirty[s] > 0
            /\ scanned.clean => dirty[s] > d.generation
        BY <1>1, <1>2, <3>2 DEF Marked, ScannedClean, TypeOK, Dues
      <4> QED BY <2>3, <3>2, <4>1
    <3>3. CASE s # d.source
      BY <2>3, <3>1, <3>3 DEF Marked
    <3> QED BY <3>1, <3>2, <3>3
  <2>8. AgeInv'
    <3> SUFFICES ASSUME NEW s \in Sources, pass'[s] = None \/ pass'[s].epoch # epoch
                 PROVE  sinceStart[s] + wait'[s] >= interval
      BY <1>1 DEF AgeInv
    <3>1. /\ sinceStart[s] \in Nat /\ wait[s] \in Nat /\ wait'[s] \in Nat /\ interval \in Nat
      BY <1>1, <2>3, IntervalAssumption DEF TypeOK
    <3>2. CASE s = d.source /\ d.epoch = epoch
      BY <2>3, <3>1, <3>2
    <3>3. CASE s = d.source /\ d.epoch # epoch
      <4>1. pass[s].epoch # epoch
        BY <2>1, <3>3
      <4> QED BY <1>6, <2>3, <3>3, <4>1 DEF IInv, AgeInv
    <3>4. CASE s # d.source
      BY <1>6, <2>3, <3>4 DEF IInv, AgeInv
    <3> QED BY <3>2, <3>3, <3>4
  <2> QED BY <2>4, <2>5, <2>6, <2>7, <2>8 DEF IInv
<1> QED BY <1>5, <1>6

LEMMA CancelledStep == IInv /\ Cancelled => IInv'
<1> SUFFICES ASSUME IInv, Cancelled PROVE IInv'
  OBVIOUS
<1> USE DEF Cancelled, Aborted, schedule
<1>1. TypeOK' /\ HandleInv'
  BY DEF IInv, TypeOK, HandleInv
<1>2. RoundInv' /\ MarkInv' /\ AgeInv'
  BY DEF IInv, RoundInv, MarkInv, AgeInv, Syncing, Running
<1> QED BY <1>1, <1>2 DEF IInv

-----------------------------------------------------------------------------
(* The shutdown.                                                           *)

\* Stopping the watcher touches neither the round nor the marks.
LEMMA StopStep ==
    ASSUME IInv, StopUsageWatcher, UNCHANGED <<event, driver, due, scanned, sinceFallback>>,
           UNCHANGED <<unread, lost, sinceStart>>,
           exit' \in {"stopping", "done"}, exit' = "done" => driver = "ended"
    PROVE  IInv'
<1>1. TypeOK'
  BY DEF IInv, TypeOK, StopUsageWatcher
<1>2. HandleInv'
  BY DEF IInv, TypeOK, HandleInv, StopUsageWatcher
<1>3. CASE handle
  <2>1. shutdown' /\ pass' = [s \in Sources |-> None] /\ dirty' = dirty
    BY <1>3 DEF StopUsageWatcher
  <2>2. RoundInv'
    BY <2>1 DEF IInv, RoundInv, Syncing
  <2> QED BY <1>1, <1>2, <2>1, <2>2 DEF IInv, MarkInv, AgeInv
<1>4. CASE ~ handle
  <2>1. /\ UNCHANGED <<shutdown, pass, dirty, wait, failures, interval, epoch>>
        /\ ~ handle'
    BY <1>4 DEF StopUsageWatcher, IInv, TypeOK
  <2>2. RoundInv'
    BY <2>1 DEF IInv, RoundInv, Syncing
  <2>3. MarkInv' /\ AgeInv'
    BY <1>4, <2>1 DEF IInv, MarkInv, AgeInv, Marked, ScannedClean, Running
  <2> QED BY <1>1, <1>2, <2>2, <2>3 DEF IInv
<1> QED BY <1>3, <1>4

LEMMA CloseTasksStep == IInv /\ CloseTasks => IInv'
<1> SUFFICES ASSUME IInv, CloseTasks PROVE IInv'
  OBVIOUS
<1> USE DEF CloseTasks, schedule, driverVars
<1>1. TypeOK' /\ HandleInv'
  BY DEF IInv, TypeOK, HandleInv
<1>2. RoundInv' /\ MarkInv' /\ AgeInv'
  BY DEF IInv, RoundInv, MarkInv, AgeInv, Marked, ScannedClean, Syncing, Running
<1> QED BY <1>1, <1>2 DEF IInv

-----------------------------------------------------------------------------

LEMMA DriverStepIInv == IInv /\ DriverStep => IInv'
BY StartWatcherStep, InitialSyncStep, MarkAllAtStartStep, WakeUpStep, FallbackStep, BeginStep,
   ScanStep, FinishStep, CancelledStep DEF DriverStep

LEMMA StepIInv == IInv /\ [Next]_vars => IInv'
<1> SUFFICES ASSUME IInv, [Next]_vars PROVE IInv'
  OBVIOUS
<1>1. ASSUME NEW s \in Sources, Write(s) \/ EventArrives(s) PROVE IInv'
  BY <1>1, WriteStep, EventArrivesStep
<1>2. ASSUME NEW i \in Intervals, SetInterval(i) PROVE IInv'
  BY <1>2, SetIntervalStep
<1>3. CASE Tick
  BY <1>3, TickStep
<1>4. CASE DriverStep
  BY <1>4, DriverStepIInv
<1>5. CASE RequestExit
  BY <1>5, StopStep DEF RequestExit, driverVars
<1>6. CASE CloseTasks
  BY <1>6, CloseTasksStep
<1>7. CASE TasksEnded
  BY <1>7, StopStep DEF TasksEnded, driverVars
<1>8. CASE UNCHANGED vars
  <2> USE <1>8 DEF vars
  <2>1. TypeOK' /\ HandleInv'
    BY DEF IInv, TypeOK, HandleInv
  <2>2. RoundInv' /\ MarkInv' /\ AgeInv'
    BY DEF IInv, RoundInv, MarkInv, AgeInv, Marked, ScannedClean, Syncing, Running
  <2> QED BY <2>1, <2>2 DEF IInv
<1> QED BY <1>1, <1>2, <1>3, <1>4, <1>5, <1>6, <1>7, <1>8 DEF Next

\* Whatever events are lost, whatever syncs fail and however the shutdown races
\* the startup, the watcher keeps its invariant.
THEOREM WatcherInvariance == Spec => []IInv
<1>1. Init => IInv
  BY InitIInv
<1>2. IInv /\ [Next]_vars => IInv'
  BY StepIInv
<1> QED BY <1>1, <1>2, PTL DEF Spec

\* Every variable has its type, for any sources, intervals and bounds.
THEOREM WatcherTyping == Spec => []TypeOK
<1>1. IInv => TypeOK
  BY DEF IInv
<1> QED BY <1>1, WatcherInvariance, PTL

\* No entry is forgotten: while the driver waits, an entry nobody has read is in a
\* dirty source, or its event is on its way, or it was lost and the fallback is
\* for it.  A mark that arrives during a pass is not completed by that pass.
THEOREM UnreadAnnounced == Spec => []UnreadIsAnnounced
<1>1. IInv => UnreadIsAnnounced
  BY DEF IInv, MarkInv, Marked, Running, UnreadIsAnnounced
<1> QED BY <1>1, WatcherInvariance, PTL

\* After a shutdown no driver runs and no watcher is left.
THEOREM ShutdownLeavesNothing == Spec => []NothingOutlivesShutdown
<1>1. IInv => NothingOutlivesShutdown
  BY DEF IInv, HandleInv, NothingOutlivesShutdown
<1> QED BY <1>1, WatcherInvariance, PTL

\* Two passes of a source begin at least the interval in force apart.
THEOREM PassesKeepApart == Spec => PassesApart
<1> DEFINE Apart == \A s \in Sources : pass[s] = None /\ pass'[s] # None => sinceStart[s] >= interval
<1>1. IInv /\ [Next]_vars => Apart \/ UNCHANGED vars
  <2> SUFFICES ASSUME IInv, Next, NEW s \in Sources, pass[s] = None, pass'[s] # None
               PROVE  sinceStart[s] >= interval
    OBVIOUS
  <2>1. CASE Begin
    <3>1. ~ shutdown /\ wait[s] = 0
      BY <2>1 DEF Begin, BeginDue, IsDue
    <3>2. sinceStart[s] + wait[s] >= interval /\ sinceStart[s] \in Nat
      BY <3>1, BoundAssumption DEF IInv, AgeInv, TypeOK
    <3> QED BY <3>1, <3>2
  <2>2. CASE UNCHANGED pass
    BY <2>2
  <2>3. CASE Finish
    BY <2>3 DEF Finish, Report, FinishPass, IInv, TypeOK
  <2>4. CASE RequestExit \/ TasksEnded
    BY <2>4 DEF RequestExit, TasksEnded, StopUsageWatcher
  <2>5. Begin \/ Finish \/ RequestExit \/ TasksEnded \/ UNCHANGED pass
    <3>1. (\E r \in Sources : Write(r) \/ EventArrives(r)) => UNCHANGED pass
      BY DEF Write, EventArrives, MarkDirty, schedule
    <3>2. (\E i \in Intervals : SetInterval(i)) \/ Tick \/ CloseTasks => UNCHANGED pass
      BY DEF SetInterval, Tick, CloseTasks, schedule
    <3>3. DriverStep => Begin \/ Finish \/ UNCHANGED pass
      BY DEF DriverStep, StartWatcher, InitialSync, MarkAllAtStart, WakeUp, Fallback, Scan, Cancelled,
             MarkDirty, schedule
    <3> QED BY <3>1, <3>2, <3>3 DEF Next
  <2> QED BY <2>1, <2>2, <2>3, <2>4, <2>5
<1>2. [][Apart]_vars <=> PassesApart
  BY DEF PassesApart
<1> QED BY <1>1, <1>2, WatcherInvariance, PTL DEF Spec
=============================================================================
