--------------------------- MODULE Daemons_proofs ---------------------------
(***************************************************************************)
(* What the router and the tray promise, for any requests, Providers,      *)
(* models, changes and days.                                               *)
(***************************************************************************)
EXTENDS MCDaemons, TLAPS

-----------------------------------------------------------------------------
(* The tray.                                                               *)

JobPlaces == {"idle", "wait", "take", "project", "commit", "fail", "finish", "observe", "start", "sources"}
Standings == [pc : JobPlaces, data : Nat \cup {None}, day : Nat \cup {None}]

TrayTypeOK ==
    /\ data \in Nat /\ day \in Nat /\ unsent \in Nat /\ active \in BOOLEAN
    /\ job \in [Tray!Jobs -> Standings]
    /\ shown \in [data : Nat \cup {None}, day : Nat \cup {None}, stale : BOOLEAN, progress : BOOLEAN]

\* Nobody is no job.
Somebody == None \notin Tray!Jobs

\* Who reads the database or writes the snapshot holds the lock.
OneWriter == \A j \in Tray!Jobs : job[j].pc \in {"project", "commit", "fail"} => lock = j

\* The gate tells where the debounced action stands.
GateTells ==
    /\ gate \in {"Idle", "Scheduled", "Running", "RunningDirty"}
    /\ gate = "Idle" <=> job["debounced"].pc = "idle"
    /\ gate = "Scheduled" <=> job["debounced"].pc = "wait"
    /\ job["debounced"].pc \in {"idle", "wait", "take", "project", "commit", "fail", "finish"}
    /\ \A j \in {"startup", "budget"} : job[j].pc \in {"idle", "take", "project", "commit", "fail"}

\* A job that is going to show what the database holds now, or that it failed to.
Promises(j) ==
    \/ job[j].pc \in {"wait", "take", "project", "fail"}
    \/ job[j].pc = "commit" /\ job[j].data = data

Owed == unsent > 0 \/ gate = "RunningDirty" \/ \E j \in {"debounced", "startup", "budget"} : Promises(j)

TrayInv ==
    /\ TrayTypeOK /\ OneWriter /\ GateTells
    /\ shown.data = data \/ shown.stale = TRUE \/ Owed
    /\ \A j \in Tray!Jobs : job[j].pc = "commit" => job[j].data = data \/ Owed
    /\ shown.progress = TRUE => active = TRUE

LEMMA TrayStarts == AllInit => TrayInv
<1> SUFFICES ASSUME AllInit PROVE TrayInv
  OBVIOUS
<1>1. Tray!Init
  BY DEF AllInit
<1>2. \A j \in Tray!Jobs : /\ job[j] \in Standings
                           /\ job[j].pc = CASE j = "startup" -> "take" [] j = "midnight" -> "observe" [] OTHER -> "idle"
  BY <1>1 DEF Tray!Init, Tray!Idle, Standings, JobPlaces
<1>3. job \in [Tray!Jobs -> Standings]
  BY <1>1, <1>2 DEF Tray!Init
<1>4. TrayTypeOK
  BY <1>1, <1>3 DEF Tray!Init, TrayTypeOK
<1>5. OneWriter /\ GateTells
  BY <1>1, <1>2 DEF Tray!Init, Tray!Jobs, OneWriter, GateTells
<1>6. Promises("startup") /\ Owed
  BY <1>2 DEF Promises, Owed, Tray!Jobs
<1> QED BY <1>1, <1>4, <1>5, <1>6 DEF Tray!Init, TrayInv

OnlyJob(j) == \A k \in Tray!Jobs \ {j} : job'[k] = job[k]

LEMMA JobMoves == ASSUME TrayTypeOK, NEW j \in Tray!Jobs, NEW q \in Standings, job' = [job EXCEPT ![j] = q]
                  PROVE job' \in [Tray!Jobs -> Standings] /\ OnlyJob(j) /\ job'[j] = q
  BY DEF TrayTypeOK, OnlyJob

LEMMA JobGoes == ASSUME TrayTypeOK, NEW j \in Tray!Jobs, NEW place \in JobPlaces, Tray!Goto(j, place)
                 PROVE /\ job' \in [Tray!Jobs -> Standings] /\ OnlyJob(j)
                       /\ job'[j].pc = place /\ job'[j].data = job[j].data
<1>1. job[j] \in Standings
  BY DEF TrayTypeOK
<1>2. [job[j] EXCEPT !.pc = place] \in Standings
  BY <1>1 DEF Standings
<1>3. job' = [job EXCEPT ![j] = [job[j] EXCEPT !.pc = place]]
  BY DEF Tray!Goto
<1>4. job' \in [Tray!Jobs -> Standings] /\ job'[j] = [job[j] EXCEPT !.pc = place]
  BY <1>2, <1>3 DEF TrayTypeOK
<1> QED BY <1>1, <1>3, <1>4 DEF Standings, TrayTypeOK, OnlyJob

\* A step that neither changes the database nor shows anything keeps the promises
\* when the job that moves keeps its own.
LEMMA OwedOn ==
  ASSUME NEW j \in Tray!Jobs, OnlyJob(j), UNCHANGED <<data, unsent>>,
         gate = "RunningDirty" => gate' = "RunningDirty", Promises(j) => Promises(j)'
  PROVE  Owed => Owed'
<1>1. ASSUME NEW k \in {"debounced", "startup", "budget"}, Promises(k) PROVE Promises(k)'
  BY <1>1 DEF OnlyJob, Promises, Tray!Jobs
<1> QED BY <1>1 DEF Owed

LEMMA TraySteps == ASSUME Somebody, TrayInv, [Tray!Next]_(Tray!vars) PROVE TrayInv'
<1> TrayTypeOK /\ OneWriter /\ GateTells
  BY DEF TrayInv
<1>1. ASSUME NEW j \in Tray!Jobs, Tray!Take(j) PROVE TrayInv'
  <2>1. /\ UNCHANGED <<data, day, unsent, gate, active, shown>> /\ lock = None /\ lock' = j
        /\ job[j].pc = "take"
    BY <1>1 DEF Tray!Take, Tray!At
  <2>2. job' \in [Tray!Jobs -> Standings] /\ OnlyJob(j) /\ job'[j].pc = "project"
    <3>1. job' = [job EXCEPT ![j] = [job[j] EXCEPT !.pc = "project", !.day = day]]
      BY <1>1 DEF Tray!Take
    <3>2. job[j] \in Standings /\ day \in Nat
      BY DEF TrayTypeOK
    <3> QED BY <3>1, <3>2, JobMoves DEF Standings, JobPlaces
  <2>3. \A k \in Tray!Jobs : job[k].pc \notin {"project", "commit", "fail"}
    BY <2>1 DEF OneWriter, Somebody
  <2>4. OneWriter'
    BY <2>1, <2>2, <2>3 DEF OneWriter, OnlyJob
  <2>5. GateTells'
    BY <2>1, <2>2 DEF GateTells, OnlyJob, Tray!Jobs
  <2>6. Promises(j)'
    BY <2>2 DEF Promises
  <2>7. Owed => Owed'
    BY <2>1, <2>2, <2>6, OwedOn
  <2> QED BY <2>1, <2>2, <2>4, <2>5, <2>7 DEF TrayInv, TrayTypeOK, OnlyJob
<1>2. ASSUME NEW j \in Tray!Jobs, Tray!Project(j) PROVE TrayInv'
  <2>1. UNCHANGED <<data, day, unsent, gate, lock, active, shown>> /\ job[j].pc = "project"
    BY <1>2 DEF Tray!Project, Tray!At
  <2>2. job' \in [Tray!Jobs -> Standings] /\ OnlyJob(j) /\ job'[j].pc = "commit" /\ job'[j].data = data
    <3>1. job' = [job EXCEPT ![j] = [job[j] EXCEPT !.pc = "commit", !.data = data]]
      BY <1>2 DEF Tray!Project
    <3>2. job[j] \in Standings /\ data \in Nat
      BY DEF TrayTypeOK
    <3> QED BY <3>1, <3>2, JobMoves DEF Standings, JobPlaces
  <2>3. OneWriter'
    BY <2>1, <2>2 DEF OneWriter, OnlyJob
  <2>4. GateTells'
    BY <2>1, <2>2 DEF GateTells, OnlyJob, Tray!Jobs
  <2>5. Promises(j)'
    BY <2>1, <2>2 DEF Promises
  <2>6. Owed => Owed'
    BY <2>1, <2>2, <2>5, OwedOn
  <2> QED BY <2>1, <2>2, <2>3, <2>4, <2>6 DEF TrayInv, TrayTypeOK, OnlyJob
<1>3. ASSUME NEW j \in Tray!Jobs, Tray!ProjectFails(j) PROVE TrayInv'
  <2>1. UNCHANGED <<data, day, unsent, gate, lock, active, shown>> /\ job[j].pc = "project"
    BY <1>3 DEF Tray!ProjectFails, Tray!At
  <2>2. job' \in [Tray!Jobs -> Standings] /\ OnlyJob(j) /\ job'[j].pc = "fail"
    BY <1>3, JobGoes DEF Tray!ProjectFails, JobPlaces
  <2>3. OneWriter'
    BY <2>1, <2>2 DEF OneWriter, OnlyJob
  <2>4. GateTells'
    BY <2>1, <2>2 DEF GateTells, OnlyJob, Tray!Jobs
  <2>5. Promises(j)'
    BY <2>1, <2>2 DEF Promises
  <2>6. Owed => Owed'
    BY <2>1, <2>2, <2>5, OwedOn
  <2> QED BY <2>1, <2>2, <2>3, <2>4, <2>6 DEF TrayInv, TrayTypeOK, OnlyJob
<1>4. ASSUME NEW j \in Tray!Jobs, Tray!Commit(j) PROVE TrayInv'
  <2>1. /\ UNCHANGED <<data, day, unsent, gate>> /\ lock' = None
        /\ job[j].pc \in {"commit", "fail"} /\ lock = j
    BY <1>4 DEF Tray!Commit, Tray!At, OneWriter
  <2>2. /\ job' \in [Tray!Jobs -> Standings] /\ OnlyJob(j)
        /\ job'[j].pc = Tray!After(j)
    <3>1. [Tray!Idle EXCEPT !.pc = Tray!After(j)] \in Standings /\ [Tray!Idle EXCEPT !.pc = Tray!After(j)].pc = Tray!After(j)
      BY DEF Tray!Idle, Tray!After, Standings, JobPlaces
    <3>2. job' = [job EXCEPT ![j] = [Tray!Idle EXCEPT !.pc = Tray!After(j)]]
      BY <1>4 DEF Tray!Commit
    <3> QED BY <3>1, <3>2 DEF TrayTypeOK, OnlyJob
  <2>3. \A k \in Tray!Jobs : job'[k].pc \notin {"project", "commit", "fail"}
    BY <2>1, <2>2 DEF OneWriter, OnlyJob, Tray!After
  <2>4. GateTells'
    BY <2>1, <2>2 DEF GateTells, OnlyJob, Tray!Jobs, Tray!After
  <2>5. active' \in BOOLEAN /\ (Tray!Progress(j) = TRUE => active' = TRUE) /\ Tray!Progress(j) \in BOOLEAN
    BY <1>4 DEF Tray!Commit, Tray!Progress, TrayTypeOK
  <2>6. CASE job[j].pc = "commit"
    <3>1. shown' = [data |-> job[j].data, day |-> job[j].day, stale |-> FALSE, progress |-> Tray!Progress(j)]
      BY <1>4, <2>6 DEF Tray!Commit, Tray!At
    <3>2. shown'.data = job[j].data /\ shown'.progress = Tray!Progress(j) /\ shown' \in [data : Nat \cup {None}, day : Nat \cup {None}, stale : BOOLEAN, progress : BOOLEAN]
      BY <2>5, <3>1 DEF TrayTypeOK, Standings
    <3>3. job[j].data = data \/ Owed'
      <4>1. ASSUME NEW k \in {"debounced", "startup", "budget"}, Promises(k), job[j].data # data PROVE Promises(k)'
        <5>1. k # j
          BY <2>6, <4>1 DEF Promises
        <5> QED BY <2>1, <4>1, <5>1, <2>2 DEF OnlyJob, Promises, Tray!Jobs
      <4>2. job[j].data # data => Owed
        BY <2>6 DEF TrayInv
      <4> QED BY <2>1, <4>1, <4>2 DEF Owed
    <3> QED BY <2>1, <2>2, <2>3, <2>4, <2>5, <3>2, <3>3 DEF TrayInv, TrayTypeOK, OneWriter
  <2>7. CASE job[j].pc = "fail"
    <3>1. shown' = [shown EXCEPT !.stale = TRUE, !.progress = Tray!Progress(j)]
      BY <1>4, <2>7 DEF Tray!Commit, Tray!At
    <3>2. shown'.stale = TRUE /\ shown'.progress = Tray!Progress(j) /\ shown' \in [data : Nat \cup {None}, day : Nat \cup {None}, stale : BOOLEAN, progress : BOOLEAN]
      BY <2>5, <3>1 DEF TrayTypeOK
    <3> QED BY <2>1, <2>2, <2>3, <2>4, <2>5, <3>2 DEF TrayInv, TrayTypeOK, OneWriter
  <2> QED BY <2>1, <2>6, <2>7
<1>5. CASE Tray!BeginRefresh \/ Tray!Started \/ Tray!SourcesEnd \/ Tray!QuotaCycle
  <2>1. UNCHANGED <<data, day, unsent, gate, lock>> /\ (active = TRUE => active' = TRUE) /\ active' \in BOOLEAN
    BY <1>5 DEF Tray!BeginRefresh, Tray!Started, Tray!SourcesEnd, Tray!QuotaCycle, TrayTypeOK
  <2>2. PICK j \in {"refresh", "quota"}, place \in {"start", "sources", "take"} : Tray!Goto(j, place)
    BY <1>5 DEF Tray!BeginRefresh, Tray!Started, Tray!SourcesEnd, Tray!QuotaCycle
  <2>3. job' \in [Tray!Jobs -> Standings] /\ OnlyJob(j) /\ job'[j].pc \in {"start", "sources", "take"}
    BY <2>2, JobGoes DEF JobPlaces, Tray!Jobs
  <2>4. shown' \in [data : Nat \cup {None}, day : Nat \cup {None}, stale : BOOLEAN, progress : BOOLEAN]
        /\ shown'.data = shown.data /\ shown'.stale = shown.stale /\ (shown'.progress = TRUE => active' = TRUE)
    BY <1>5, <2>1 DEF Tray!BeginRefresh, Tray!Started, Tray!SourcesEnd, Tray!QuotaCycle, TrayInv, TrayTypeOK
  <2>5. OneWriter'
    BY <2>1, <2>3 DEF OneWriter, OnlyJob
  <2>6. GateTells'
    BY <2>1, <2>3 DEF GateTells, OnlyJob, Tray!Jobs
  <2>7. Owed => Owed'
    <3>1. \A k \in {"debounced", "startup", "budget"} : Promises(k) => Promises(k)'
      BY <2>1, <2>3 DEF OnlyJob, Promises, Tray!Jobs
    <3> QED BY <2>1, <3>1 DEF Owed
  <2> QED BY <2>1, <2>3, <2>4, <2>5, <2>6, <2>7 DEF TrayInv, TrayTypeOK, OnlyJob
<1>6. CASE Tray!SetBudget
  <2>1. UNCHANGED <<day, unsent, gate, lock, active, shown>> /\ data' = data + 1
    BY <1>6 DEF Tray!SetBudget
  <2>2. job' \in [Tray!Jobs -> Standings] /\ OnlyJob("budget") /\ job'["budget"].pc = "take"
    BY <1>6, JobGoes DEF Tray!SetBudget, JobPlaces, Tray!Jobs
  <2>3. OneWriter'
    BY <2>1, <2>2 DEF OneWriter, OnlyJob
  <2>4. GateTells'
    BY <2>1, <2>2 DEF GateTells, OnlyJob, Tray!Jobs
  <2>5. Owed'
    BY <2>2 DEF Promises, Owed
  <2> QED BY <2>1, <2>2, <2>3, <2>4, <2>5 DEF TrayInv, TrayTypeOK
<1>7. CASE Tray!Change
  <2>1. /\ UNCHANGED <<day, gate, lock, job, active, shown>> /\ data' = data + 1
        /\ unsent' = unsent + 1
    BY <1>7 DEF Tray!Change
  <2>2. Owed'
    BY <2>1 DEF Owed, TrayTypeOK
  <2> QED BY <2>1, <2>2 DEF TrayInv, TrayTypeOK, OneWriter, GateTells
<1>8. CASE Tray!Notify
  <2>1. /\ UNCHANGED <<data, day, lock, active, shown>> /\ unsent > 0 /\ unsent' = unsent - 1
        /\ gate' = Tray!Admitted
    BY <1>8 DEF Tray!Notify
  <2>2. CASE gate = "Idle"
    <3>1. job' \in [Tray!Jobs -> Standings] /\ OnlyJob("debounced") /\ job'["debounced"].pc = "wait"
      BY <1>8, <2>2, JobGoes DEF Tray!Notify, JobPlaces, Tray!Jobs
    <3>2. gate' = "Scheduled"
      BY <2>1, <2>2 DEF Tray!Admitted
    <3>3. OneWriter'
      BY <2>1, <3>1 DEF OneWriter, OnlyJob
    <3>4. GateTells'
      BY <2>1, <3>1, <3>2 DEF GateTells, OnlyJob, Tray!Jobs
    <3>5. Owed'
      BY <3>1 DEF Promises, Owed
    <3> QED BY <2>1, <3>1, <3>3, <3>4, <3>5 DEF TrayInv, TrayTypeOK
  <2>3. CASE gate # "Idle"
    <3>1. UNCHANGED job
      BY <1>8, <2>3 DEF Tray!Notify
    <3>2. GateTells'
      BY <2>1, <2>3, <3>1 DEF GateTells, Tray!Admitted
    <3>3. Owed'
      BY <2>1, <2>3, <3>1 DEF GateTells, Tray!Admitted, Promises, Owed
    <3> QED BY <2>1, <3>1, <3>2, <3>3 DEF TrayInv, TrayTypeOK, OneWriter
  <2> QED BY <2>2, <2>3
<1>9. CASE Tray!BeginAction
  <2>1. /\ UNCHANGED <<data, day, unsent, lock, active, shown>> /\ gate' = "Running"
        /\ job["debounced"].pc = "wait"
    BY <1>9 DEF Tray!BeginAction, Tray!At
  <2>2. job' \in [Tray!Jobs -> Standings] /\ OnlyJob("debounced") /\ job'["debounced"].pc = "take"
    BY <1>9, JobGoes DEF Tray!BeginAction, JobPlaces, Tray!Jobs
  <2>3. OneWriter'
    BY <2>1, <2>2 DEF OneWriter, OnlyJob
  <2>4. GateTells'
    BY <2>1, <2>2 DEF GateTells, OnlyJob, Tray!Jobs
  <2>5. Owed'
    BY <2>2 DEF Promises, Owed
  <2> QED BY <2>1, <2>2, <2>3, <2>4, <2>5 DEF TrayInv, TrayTypeOK
<1>10. CASE Tray!FinishAction
  <2>1. UNCHANGED <<data, day, unsent, lock, active, shown>> /\ job["debounced"].pc = "finish"
    BY <1>10 DEF Tray!FinishAction, Tray!At
  <2>2. CASE gate = "RunningDirty"
    <3>1. gate' = "Scheduled" /\ job' \in [Tray!Jobs -> Standings] /\ OnlyJob("debounced") /\ job'["debounced"].pc = "wait"
      BY <1>10, <2>2, JobGoes DEF Tray!FinishAction, JobPlaces, Tray!Jobs
    <3>2. OneWriter'
      BY <2>1, <3>1 DEF OneWriter, OnlyJob
    <3>3. GateTells'
      BY <2>1, <3>1 DEF GateTells, OnlyJob, Tray!Jobs
    <3>4. Owed'
      BY <3>1 DEF Promises, Owed
    <3> QED BY <2>1, <3>1, <3>2, <3>3, <3>4 DEF TrayInv, TrayTypeOK
  <2>3. CASE gate # "RunningDirty"
    <3>1. gate' = "Idle" /\ job' \in [Tray!Jobs -> Standings] /\ OnlyJob("debounced") /\ job'["debounced"].pc = "idle"
      BY <1>10, <2>3, JobGoes DEF Tray!FinishAction, JobPlaces, Tray!Jobs
    <3>2. OneWriter'
      BY <2>1, <3>1 DEF OneWriter, OnlyJob
    <3>3. GateTells'
      BY <2>1, <3>1 DEF GateTells, OnlyJob, Tray!Jobs
    <3>4. ~ Promises("debounced")
      BY <2>1 DEF Promises
    <3>5. "debounced" \in Tray!Jobs
      BY DEF Tray!Jobs
    <3>6. Owed => Owed'
      BY <2>1, <2>3, <3>1, <3>4, <3>5, OwedOn
    <3> QED BY <2>1, <3>1, <3>2, <3>3, <3>6 DEF TrayInv, TrayTypeOK, OnlyJob
  <2> QED BY <2>2, <2>3
<1>11. CASE Tray!Observe \/ Tray!NoCalendar \/ Tray!Wake
  <2>1. UNCHANGED <<data, day, unsent, gate, lock, active, shown>>
    BY <1>11 DEF Tray!Observe, Tray!NoCalendar, Tray!Wake
  <2>2. PICK place \in {"take", "wait", "observe"} : Tray!Goto("midnight", place)
    BY <1>11 DEF Tray!Observe, Tray!NoCalendar, Tray!Wake
  <2>3. job' \in [Tray!Jobs -> Standings] /\ OnlyJob("midnight") /\ job'["midnight"].pc \in {"take", "wait", "observe"}
    BY <2>2, JobGoes DEF JobPlaces, Tray!Jobs
  <2>4. OneWriter'
    BY <2>1, <2>3 DEF OneWriter, OnlyJob
  <2>5. GateTells'
    BY <2>1, <2>3 DEF GateTells, OnlyJob, Tray!Jobs
  <2>6. Owed => Owed'
    <3>1. \A k \in {"debounced", "startup", "budget"} : Promises(k) => Promises(k)'
      BY <2>1, <2>3 DEF OnlyJob, Promises, Tray!Jobs
    <3> QED BY <2>1, <3>1 DEF Owed
  <2> QED BY <2>1, <2>3, <2>4, <2>5, <2>6 DEF TrayInv, TrayTypeOK, OnlyJob
<1>12. CASE Tray!NewDay
  BY <1>12 DEF Tray!NewDay, TrayInv, TrayTypeOK, OneWriter, GateTells, Owed, Promises
<1>13. CASE UNCHANGED Tray!vars
  BY <1>13 DEF Tray!vars, TrayInv, TrayTypeOK, OneWriter, GateTells, Owed, Promises
<1> QED BY <1>1, <1>2, <1>3, <1>4, <1>5, <1>6, <1>7, <1>8, <1>9, <1>10, <1>11, <1>12, <1>13
        DEF Tray!Next, Tray!Service

LEMMA TrayInvariance == ASSUME Somebody PROVE AllSpec => []TrayInv
<1>1. [AllNext]_<<service, vars, routerVars, trayVars>> => [Tray!Next]_(Tray!vars)
  BY DEF AllNext, trayVars, Tray!vars
<1>2. TrayInv /\ [Tray!Next]_(Tray!vars) => TrayInv'
  BY TraySteps
<1> QED BY <1>1, <1>2, TrayStarts, PTL DEF AllSpec

\* Whoever makes a snapshot beside whom, and however notifications are merged, the
\* tray shows the database as it is when nothing is owed to it any more.
THEOREM ChangesAreShown == ASSUME Somebody PROVE AllSpec => []ChangeIsShown
<1>1. TrayInv => ChangeIsShown
  BY DEF TrayInv, TrayTypeOK, GateTells, Owed, Promises, ChangeIsShown, Tray!ChangeIsShown, Tray!At, Tray!Jobs
<1> QED BY <1>1, TrayInvariance, PTL

\* Nor does it say that a refresh is going on when none is.
THEOREM ProgressEnds == ASSUME Somebody PROVE AllSpec => []NoStuckProgress
<1>1. TrayInv => NoStuckProgress
  BY DEF TrayInv, TrayTypeOK, NoStuckProgress, Tray!NoStuckProgress
<1> QED BY <1>1, TrayInvariance, PTL

-----------------------------------------------------------------------------
(* The router.                                                             *)

Reasons == {"blocked", "guard_deny", "guard_hold", "client_gone", "broken", "completed"}

\* No row, and no hold, is none of these.
Nothing == None \notin Reasons \cup {"lost", "waiting", "shutdown"}

Fields ==
    {"pc", "model", "auto", "left", "unfit", "oversize", "tail", "admitted", "admission", "switch",
     "last", "answer", "granted", "sent"}
Shaped(q) == DOMAIN q = Fields /\ q = [f \in Fields |-> q[f]]

Shapes ==
    /\ req = [r \in Requests |-> req[r]] /\ \A r \in Requests : Shaped(req[r])
    /\ row = [r \in Requests |-> row[r]] /\ waiting = [r \in Requests |-> waiting[r]]
    /\ doomed \subseteq Requests

\* What is about to be sent to a Provider has been let go to it.
Granted(q) ==
    /\ q.admitted \subseteq q.granted /\ q.sent \subseteq q.granted
    /\ q.pc = "send" => Handlers!First(q.model, q.left) \in q.granted

Answers ==
    {<<"blocked", "blocked">>, <<"guard_deny", "denied">>, <<"guard_hold", "held">>,
     <<"client_gone", "gone">>, <<"broken", "cut">>, <<"completed", "complete">>}

\* There is no row before the end, and then it tells what the client is told.
Told(q, reason) ==
    /\ q.pc \notin {"leaving", "dropping", "done"} => reason = None
    /\ q.pc = "leaving" => reason \in {"guard_hold", "lost"}
    /\ q.pc = "dropping" => reason \in {"client_gone", "lost"}
    /\ q.pc = "done" => reason \in {None, "lost"} \/ <<reason, q.answer>> \in Answers

\* Who is in the queue is held, or leaves it.
Queued(q, outcome) == outcome # None => q.pc \in {"held", "leaving", "dropping"}

\* Who was turned away by the drain has not left before there is a row.
Audited(r) == r \in doomed => waiting[r] = "shutdown" \/ row[r] # None

RouterInv ==
    /\ Shapes
    /\ \A r \in Requests : /\ Granted(req[r]) /\ Told(req[r], row[r])
                           /\ Queued(req[r], waiting[r]) /\ Audited(r)
    /\ closing \in {"running", "draining", "drained", "exited"}
    /\ closing = "drained" => \A r \in doomed : waiting[r] = None

\* What a handler begins with.
Begun(m, place) == [Handlers!Fresh(m) EXCEPT !.pc = place]

LEMMA BegunIsGranted == ASSUME NEW m, NEW place
                        PROVE /\ Shaped(Begun(m, place)) /\ Begun(m, place).pc = place
                              /\ Begun(m, place).admitted = {} /\ Begun(m, place).sent = {}
<1>1. Handlers!Fresh(m) = [f \in Fields |-> Handlers!Fresh(m)[f]] /\ DOMAIN Handlers!Fresh(m) = Fields
  BY DEF Handlers!Fresh, Fields
<1>2. Handlers!Fresh(m).admitted = {} /\ Handlers!Fresh(m).sent = {}
  BY DEF Handlers!Fresh
<1>3. Shaped(Begun(m, place))
  BY <1>1 DEF Shaped, Begun
<1> QED BY <1>1, <1>2, <1>3 DEF Fields, Begun

LEMMA RouterStarts == AllInit => RouterInv
<1> SUFFICES ASSUME AllInit PROVE RouterInv
  OBVIOUS
<1>1. PICK s \in Handlers!Situations :
         req = [r \in Requests |-> [Handlers!Fresh(s.model[r]) EXCEPT !.pc = IF r \in s.live THEN "idle" ELSE "done"]]
  BY DEF AllInit, Handlers!MCInit
<1>2. row = [r \in Requests |-> None] /\ waiting = [r \in Requests |-> None] /\ closing = "running" /\ doomed = {}
  BY DEF AllInit, Handlers!MCInit
<1>3. ASSUME NEW r \in Requests
      PROVE /\ Shaped(req[r]) /\ req[r].pc \in {"idle", "done"} /\ req[r].admitted = {} /\ req[r].sent = {}
  <2>1. PICK place \in {"idle", "done"} : req[r] = Begun(s.model[r], place)
    BY <1>1 DEF Begun
  <2> QED BY <2>1, BegunIsGranted
<1>4. Shapes
  BY <1>1, <1>2, <1>3 DEF Shapes
<1> QED BY <1>2, <1>3, <1>4 DEF RouterInv, Granted, Told, Queued, Audited

OnlyRequest(r) == \A s \in Requests \ {r} : req'[s] = req[s]

LEMMA Replaced == ASSUME Shapes, NEW r \in Requests, NEW q, Shaped(q), req' = [req EXCEPT ![r] = q]
                  PROVE req' = [s \in Requests |-> req'[s]] /\ (\A s \in Requests : Shaped(req'[s]))
                        /\ req'[r] = q /\ OnlyRequest(r)
  BY DEF Shapes, OnlyRequest

\* A handler goes on before anything is said in its row.
LEMMA GoesOn ==
  ASSUME RouterInv, NEW r \in Requests, NEW q, Shaped(q), req' = [req EXCEPT ![r] = q],
         UNCHANGED <<row, waiting, closing, doomed>>,
         req[r].pc \notin {"held", "leaving", "dropping", "done"},
         Granted(q), q.pc \notin {"leaving", "dropping"}
  PROVE  RouterInv'
<1>1. /\ req' = [s \in Requests |-> req'[s]] /\ (\A s \in Requests : Shaped(req'[s]))
      /\ req'[r] = q /\ OnlyRequest(r)
  BY Replaced DEF RouterInv
<1>2. Shapes'
  BY <1>1 DEF RouterInv, Shapes
<1>3. Granted(q) /\ Told(q, row'[r]) /\ Queued(q, waiting'[r])
  BY DEF RouterInv, Told, Queued
<1> QED BY <1>1, <1>2, <1>3 DEF RouterInv, OnlyRequest, Audited

\* A handler is over, or about to be, and may have said so in its row.
LEMMA IsOver ==
  ASSUME Nothing, RouterInv, NEW r \in Requests, NEW q, Shaped(q), req' = [req EXCEPT ![r] = q],
         NEW reason, Granted(q), Told(q, reason), row' = [row EXCEPT ![r] = reason],
         row[r] # None => reason # None,
         \/ waiting' = waiting /\ Queued(q, waiting[r])
         \/ row[r] # None /\ waiting' = [waiting EXCEPT ![r] = None],
         UNCHANGED <<closing, doomed>>
  PROVE  RouterInv'
<1>1. /\ req' = [s \in Requests |-> req'[s]] /\ (\A s \in Requests : Shaped(req'[s]))
      /\ req'[r] = q /\ OnlyRequest(r)
  BY Replaced DEF RouterInv
<1>2. /\ row' = [s \in Requests |-> row'[s]] /\ waiting' = [s \in Requests |-> waiting'[s]]
      /\ row'[r] = reason /\ \A s \in Requests \ {r} : row'[s] = row[s] /\ waiting'[s] = waiting[s]
  BY DEF RouterInv, Shapes
<1>3. Shapes'
  BY <1>1, <1>2 DEF RouterInv, Shapes
<1>4. waiting'[r] = waiting[r] \/ (waiting'[r] = None /\ row'[r] # None)
  BY <1>2 DEF RouterInv, Shapes
<1>5. Audited(r)'
  BY <1>2, <1>4 DEF RouterInv, Audited
<1>6. Queued(q, waiting'[r])
  BY DEF RouterInv, Shapes, Queued
<1>7. \A s \in Requests : Granted(req'[s]) /\ Told(req'[s], row'[s]) /\ Queued(req'[s], waiting'[s]) /\ Audited(s)'
  BY <1>1, <1>2, <1>5, <1>6 DEF RouterInv, OnlyRequest, Audited
<1>8. closing' = "drained" => \A s \in doomed' : waiting'[s] = None
  BY <1>2, <1>4 DEF RouterInv, Shapes
<1> QED BY <1>3, <1>7, <1>8 DEF RouterInv

\* What a handler that ends leaves.
Ended(r, how) ==
    [Handlers!Fresh(req[r].model) EXCEPT !.pc = "done", !.answer = how,
                                         !.granted = req[r].granted, !.sent = req[r].sent]

LEMMA EndedIsGranted == ASSUME RouterInv, NEW r \in Requests, NEW how
                        PROVE /\ Shaped(Ended(r, how)) /\ Granted(Ended(r, how))
                              /\ Ended(r, how).pc = "done" /\ Ended(r, how).answer = how
<1>1. Handlers!Fresh(req[r].model) = [f \in Fields |-> Handlers!Fresh(req[r].model)[f]]
      /\ DOMAIN Handlers!Fresh(req[r].model) = Fields /\ Handlers!Fresh(req[r].model).admitted = {}
  BY DEF Handlers!Fresh, Fields
<1>2. Shaped(Ended(r, how))
  BY <1>1 DEF Ended, Shaped
<1>3. /\ Ended(r, how).pc = "done" /\ Ended(r, how).answer = how
      /\ Ended(r, how).granted = req[r].granted /\ Ended(r, how).sent = req[r].sent /\ Ended(r, how).admitted = {}
  BY <1>1 DEF Ended, Fields
<1> QED BY <1>2, <1>3 DEF RouterInv, Granted

LEMMA Ends == ASSUME RouterInv, NEW r \in Requests, NEW how, Handlers!Done(r, how)
              PROVE req' = [req EXCEPT ![r] = Ended(r, how)]
  BY DEF Handlers!Done, Ended

\* A handler ends without a row.
LEMMA EndsSilently ==
  ASSUME RouterInv, NEW r \in Requests, NEW how, Handlers!Done(r, how),
         UNCHANGED <<row, waiting, closing, doomed>>, req[r].pc \notin {"held", "leaving", "dropping", "done"}
  PROVE  RouterInv'
  BY Ends, EndedIsGranted, GoesOn

\* A handler ends, and says so in its row when it can.
LEMMA EndsWithRow ==
  ASSUME Nothing, RouterInv, NEW r \in Requests, NEW how, NEW reason, <<reason, how>> \in Answers,
         Handlers!Done(r, how), Handlers!MaySettle(r, reason),
         UNCHANGED <<waiting, closing, doomed>>, req[r].pc \notin {"held", "leaving", "dropping", "done"}
  PROVE  RouterInv'
<1>1. row[r] = None /\ Queued(Ended(r, how), waiting[r])
  BY DEF RouterInv, Told, Queued
<1>2. PICK said \in {reason, "lost"} : row' = [row EXCEPT ![r] = said]
  BY <1>1 DEF Handlers!MaySettle, Handlers!Settle
<1>3. Told(Ended(r, how), said)
  BY EndedIsGranted DEF Told
<1>4. req' = [req EXCEPT ![r] = Ended(r, how)] /\ Shaped(Ended(r, how)) /\ Granted(Ended(r, how))
  BY Ends, EndedIsGranted
<1> QED BY <1>1, <1>2, <1>3, <1>4, IsOver

LEMMA RouterSteps == ASSUME Nothing, RouterInv, [Handlers!Next]_(Handlers!vars) PROVE RouterInv'
<1> Shapes /\ \A r \in Requests : Shaped(req[r]) /\ Granted(req[r])
  BY DEF RouterInv, Shapes
<1> USE DEF Handlers!At, Handlers!listVars, Handlers!exitVars
<1>1. ASSUME NEW r \in Requests, Handlers!Connect(r) PROVE RouterInv'
  <2>1. PICK big \in BOOLEAN : req' = [req EXCEPT ![r].pc = "reading", ![r].oversize = big, ![r].tail = big]
    BY <1>1 DEF Handlers!Connect
  <2> DEFINE q == [req[r] EXCEPT !.pc = "reading", !.oversize = big, !.tail = big]
  <2>2. /\ Shaped(q) /\ q.pc = "reading" /\ q.admitted = req[r].admitted
        /\ q.granted = req[r].granted /\ q.sent = req[r].sent
    BY DEF Shaped, Fields
  <2>3. req' = [req EXCEPT ![r] = q]
    BY <2>1
  <2>4. UNCHANGED <<row, waiting, closing, doomed>> /\ req[r].pc = "idle"
    BY <1>1 DEF Handlers!Connect
  <2> HIDE DEF q
  <2>5. Granted(q)
    BY <2>2 DEF Granted
  <2> QED BY <2>2, <2>3, <2>4, <2>5, GoesOn
<1>2. ASSUME NEW r \in Requests, Handlers!Reject(r) PROVE RouterInv'
  <2>1. PICK how \in {"error", "unavailable", "upstream_error"} : Handlers!Done(r, how)
    BY <1>2 DEF Handlers!Reject
  <2>2. UNCHANGED <<row, waiting, closing, doomed>> /\ req[r].pc = "reading"
    BY <1>2 DEF Handlers!Reject
  <2> QED BY <2>1, <2>2, EndsSilently
<1>3. ASSUME NEW r \in Requests, Handlers!Block(r) PROVE RouterInv'
  <2>1. UNCHANGED <<waiting, closing, doomed>> /\ req[r].pc = "reading"
    BY <1>3 DEF Handlers!Block
  <2>2. CASE Handlers!Settle(r, "blocked") /\ Handlers!Done(r, "blocked")
    <3>1. Handlers!MaySettle(r, "blocked") /\ <<"blocked", "blocked">> \in Answers
      BY <2>2 DEF Handlers!MaySettle, Answers
    <3> QED BY <2>1, <2>2, <3>1, EndsWithRow
  <2>3. CASE UNCHANGED row /\ Handlers!Done(r, "error")
    BY <2>1, <2>3, EndsSilently
  <2> QED BY <1>3, <2>2, <2>3 DEF Handlers!Block
<1>4. ASSUME NEW r \in Requests, Handlers!ForwardSubscription(r) PROVE RouterInv'
  <2> DEFINE q == [req[r] EXCEPT !.pc = "admit", !.left = {Subscription}]
  <2>1. req' = [req EXCEPT ![r] = q]
    BY <1>4 DEF Handlers!ForwardSubscription
  <2>2. /\ Shaped(q) /\ q.admitted = req[r].admitted /\ q.granted = req[r].granted
        /\ q.sent = req[r].sent /\ q.pc = "admit"
    BY DEF Shaped, Fields
  <2>3. UNCHANGED <<row, waiting, closing, doomed>> /\ req[r].pc = "reading"
    BY <1>4 DEF Handlers!ForwardSubscription
  <2> HIDE DEF q
  <2>4. Granted(q)
    BY <2>2, <2>3 DEF Granted
  <2> QED BY <2>1, <2>2, <2>3, <2>4, GoesOn
<1>5. ASSUME NEW r \in Requests, NEW automatic \in BOOLEAN, NEW manual \in Providers,
              NEW unfit \in SUBSET Handlers!OfModel(req[r].model),
              Handlers!SelectCandidates(r, automatic, manual, unfit)
       PROVE RouterInv'
  <2> DEFINE left == IF automatic THEN Handlers!AutoCandidates(req[r].model) ELSE Handlers!ManualCandidates(req[r].model, manual)
             q == [req[r] EXCEPT !.pc = "next", !.auto = automatic, !.left = left, !.unfit = unfit]
  <2>1. UNCHANGED <<row, waiting, closing, doomed>> /\ req[r].pc = "reading"
    BY <1>5 DEF Handlers!SelectCandidates
  <2>2. CASE Handlers!Done(r, "unavailable")
    BY <2>1, <2>2, EndsSilently
  <2>3. CASE req' = [req EXCEPT ![r].pc = "next", ![r].auto = automatic, ![r].left = left, ![r].unfit = unfit]
    <3>1. req' = [req EXCEPT ![r] = q]
      BY <2>3
    <3> HIDE DEF left
    <3>2. /\ Shaped(q) /\ q.pc = "next" /\ q.admitted = req[r].admitted
          /\ q.granted = req[r].granted /\ q.sent = req[r].sent
      BY DEF Shaped, Fields
    <3> HIDE DEF q
    <3>3. Granted(q)
      BY <3>2 DEF Granted
    <3> QED BY <2>1, <3>1, <3>2, <3>3, GoesOn
  <2> QED BY <1>5, <2>2, <2>3 DEF Handlers!SelectCandidates
<1>6. ASSUME NEW r \in Requests, Handlers!SkipUnfit(r) PROVE RouterInv'
  <2> DEFINE q == [req[r] EXCEPT !.left = Handlers!Rest(r)]
  <2>1. req' = [req EXCEPT ![r] = q]
    BY <1>6 DEF Handlers!SkipUnfit
  <2>2. /\ Shaped(q) /\ q.admitted = req[r].admitted /\ q.granted = req[r].granted
        /\ q.sent = req[r].sent /\ q.pc = req[r].pc
    BY DEF Shaped, Fields
  <2>3. UNCHANGED <<row, waiting, closing, doomed>> /\ req[r].pc = "next"
    BY <1>6 DEF Handlers!SkipUnfit
  <2> HIDE DEF q
  <2>4. Granted(q)
    BY <2>2, <2>3 DEF Granted
  <2> QED BY <2>1, <2>2, <2>3, <2>4, GoesOn
<1>7. ASSUME NEW r \in Requests, Handlers!ResolveAuth(r) PROVE RouterInv'
  <2> DEFINE q == [req[r] EXCEPT !.pc = "auth"]
  <2>1. req' = [req EXCEPT ![r] = q]
    BY <1>7 DEF Handlers!ResolveAuth, Handlers!Goto
  <2>2. /\ Shaped(q) /\ q.admitted = req[r].admitted /\ q.granted = req[r].granted
        /\ q.sent = req[r].sent /\ q.left = req[r].left /\ q.model = req[r].model /\ q.pc = "auth"
    BY DEF Shaped, Fields
  <2>3. UNCHANGED <<row, waiting, closing, doomed>> /\ req[r].pc = "next"
    BY <1>7 DEF Handlers!ResolveAuth, Handlers!Goto
  <2> HIDE DEF q
  <2>4. Granted(q)
    BY <2>2, <2>3 DEF Granted
  <2> QED BY <2>1, <2>2, <2>3, <2>4, GoesOn
<1>8. ASSUME NEW r \in Requests, Handlers!NoCandidateLeft(r) PROVE RouterInv'
  <2>1. PICK how \in {"error", "unavailable", "upstream_error"} : Handlers!Done(r, how)
    BY <1>8 DEF Handlers!NoCandidateLeft
  <2>2. UNCHANGED <<row, waiting, closing, doomed>> /\ req[r].pc = "next"
    BY <1>8 DEF Handlers!NoCandidateLeft
  <2> QED BY <2>1, <2>2, EndsSilently
<1>9. ASSUME NEW r \in Requests, Handlers!AuthUnavailable(r) PROVE RouterInv'
  <2> DEFINE q == [req[r] EXCEPT !.pc = "next", !.left = Handlers!Rest(r)]
  <2>1. req' = [req EXCEPT ![r] = q]
    BY <1>9 DEF Handlers!AuthUnavailable
  <2>2. /\ Shaped(q) /\ q.admitted = req[r].admitted /\ q.granted = req[r].granted
        /\ q.sent = req[r].sent /\ q.pc = "next"
    BY DEF Shaped, Fields
  <2>3. UNCHANGED <<row, waiting, closing, doomed>> /\ req[r].pc = "auth"
    BY <1>9 DEF Handlers!AuthUnavailable
  <2> HIDE DEF q
  <2>4. Granted(q)
    BY <2>2, <2>3 DEF Granted
  <2> QED BY <2>1, <2>2, <2>3, <2>4, GoesOn
<1>10. ASSUME NEW r \in Requests, Handlers!AuthResolved(r) PROVE RouterInv'
  <2> DEFINE q == [req[r] EXCEPT !.pc = IF Handlers!NeedsAdmission(r) THEN "admit" ELSE "send", !.admission = 0]
  <2>1. req' = [req EXCEPT ![r] = q]
    BY <1>10 DEF Handlers!AuthResolved
  <2>2. /\ Shaped(q) /\ q.admitted = req[r].admitted /\ q.granted = req[r].granted
        /\ q.sent = req[r].sent /\ q.left = req[r].left /\ q.model = req[r].model
        /\ q.pc = IF Handlers!NeedsAdmission(r) THEN "admit" ELSE "send"
    BY DEF Shaped, Fields
  <2>3. UNCHANGED <<row, waiting, closing, doomed>> /\ req[r].pc = "auth"
    BY <1>10 DEF Handlers!AuthResolved
  <2> HIDE DEF q
  <2>4. Granted(q)
    BY <2>2, <2>3 DEF Granted, Handlers!NeedsAdmission, Handlers!Current
  <2> QED BY <2>1, <2>2, <2>3, <2>4, GoesOn
<1>11. ASSUME NEW r \in Requests, Handlers!Allow(r) PROVE RouterInv'
  <2> DEFINE q == [req[r] EXCEPT !.pc = "send", !.admitted = {Handlers!Current(r)}, !.granted = @ \cup {Handlers!Current(r)}]
  <2>1. req' = [req EXCEPT ![r] = q]
    BY <1>11 DEF Handlers!Allow, Handlers!Admitted
  <2>2. /\ Shaped(q) /\ q.sent = req[r].sent /\ q.left = req[r].left /\ q.model = req[r].model /\ q.pc = "send"
        /\ q.admitted = {Handlers!Current(r)}
        /\ q.granted = req[r].granted \cup {Handlers!Current(r)}
    BY DEF Shaped, Fields
  <2>3. UNCHANGED <<row, waiting, closing, doomed>> /\ req[r].pc = "admit"
    BY <1>11 DEF Handlers!Allow, Handlers!Admitted
  <2> HIDE DEF q
  <2>4. Granted(q)
    BY <2>2, <2>3 DEF Granted, Handlers!Current
  <2> QED BY <2>1, <2>2, <2>3, <2>4, GoesOn
<1>12. ASSUME NEW r \in Requests, Handlers!Deny(r) PROVE RouterInv'
  <2>1. UNCHANGED <<waiting, closing, doomed>> /\ req[r].pc = "admit"
    BY <1>12 DEF Handlers!Deny
  <2>2. Handlers!MaySettle(r, "guard_deny") /\ Handlers!Done(r, "denied") /\ <<"guard_deny", "denied">> \in Answers
    BY <1>12 DEF Handlers!Deny, Answers
  <2> QED BY <2>1, <2>2, EndsWithRow
<1>13. ASSUME NEW r \in Requests, Handlers!RefuseAtOnce(r) PROVE RouterInv'
  <2>1. UNCHANGED <<waiting, closing, doomed>> /\ req[r].pc = "admit"
    BY <1>13 DEF Handlers!RefuseAtOnce
  <2>2. Handlers!MaySettle(r, "guard_hold") /\ Handlers!Done(r, "held") /\ <<"guard_hold", "held">> \in Answers
    BY <1>13 DEF Handlers!RefuseAtOnce, Answers
  <2> QED BY <2>1, <2>2, EndsWithRow
<1>14. ASSUME NEW r \in Requests, NEW switch \in BOOLEAN, Handlers!Hold(r, switch) PROVE RouterInv'
  <2> DEFINE q == [req[r] EXCEPT !.pc = "held", !.switch = switch]
  <2>1. req' = [req EXCEPT ![r] = q]
    BY <1>14 DEF Handlers!Hold
  <2>2. /\ Shaped(q) /\ q.pc = "held" /\ q.admitted = req[r].admitted
        /\ q.granted = req[r].granted /\ q.sent = req[r].sent
    BY DEF Shaped, Fields
  <2> HIDE DEF q
  <2>3. /\ req' = [s \in Requests |-> req'[s]] /\ (\A s \in Requests : Shaped(req'[s]))
        /\ req'[r] = q /\ OnlyRequest(r)
    BY <2>1, <2>2, Replaced
  <2>4. /\ waiting' = [s \in Requests |-> waiting'[s]] /\ waiting'[r] = "waiting"
        /\ \A s \in Requests \ {r} : waiting'[s] = waiting[s]
        /\ UNCHANGED <<row, closing, doomed>> /\ req[r].pc = "admit"
    BY <1>14 DEF Handlers!Hold, Shapes
  <2>5. row[r] = None /\ r \notin doomed
    BY <2>4 DEF RouterInv, Told, Queued, Audited, Nothing
  <2>6. Granted(q) /\ Told(q, row[r]) /\ Queued(q, "waiting")
    BY <2>2, <2>5 DEF Granted, Told, Queued
  <2>7. Shapes'
    BY <2>3, <2>4 DEF Shapes
  <2>8. \A s \in Requests : Granted(req'[s]) /\ Told(req'[s], row'[s]) /\ Queued(req'[s], waiting'[s]) /\ Audited(s)'
    BY <2>3, <2>4, <2>5, <2>6 DEF RouterInv, OnlyRequest, Audited
  <2>9. closing' = "drained" => \A s \in doomed' : waiting'[s] = None
    BY <2>4, <2>5 DEF RouterInv, Shapes
  <2> QED BY <2>4, <2>7, <2>8, <2>9 DEF RouterInv
<1>15. ASSUME NEW r \in Requests, Handlers!Released(r) PROVE RouterInv'
  <2>1. /\ waiting' = [s \in Requests |-> waiting'[s]] /\ waiting'[r] = None
        /\ \A s \in Requests \ {r} : waiting'[s] = waiting[s]
        /\ UNCHANGED <<row, closing, doomed>> /\ req[r].pc = "held" /\ waiting[r] = "released"
    BY <1>15 DEF Handlers!Released, Handlers!Dequeue, Shapes
  <2>2. row[r] = None /\ r \notin doomed
    BY <2>1 DEF RouterInv, Told, Audited
  <2>3. PICK q : /\ req' = [req EXCEPT ![r] = q] /\ Shaped(q) /\ Granted(q) /\ q.pc \in {"admit", "send"}
    <3>1. CASE req' = [req EXCEPT ![r].pc = "admit", ![r].admission = 1]
      <4> DEFINE q == [req[r] EXCEPT !.pc = "admit", !.admission = 1]
      <4>1. req' = [req EXCEPT ![r] = q]
        BY <3>1
      <4>2. /\ Shaped(q) /\ q.pc = "admit" /\ q.admitted = req[r].admitted
            /\ q.granted = req[r].granted /\ q.sent = req[r].sent
        BY DEF Shaped, Fields
      <4> HIDE DEF q
      <4>3. Granted(q)
        BY <4>2 DEF Granted
      <4> QED BY <4>1, <4>2, <4>3
    <3>2. CASE Handlers!Admitted(r)
      <4> DEFINE q == [req[r] EXCEPT !.pc = "send", !.admitted = {Handlers!Current(r)}, !.granted = @ \cup {Handlers!Current(r)}]
      <4>1. req' = [req EXCEPT ![r] = q]
        BY <3>2 DEF Handlers!Admitted
      <4>2. /\ Shaped(q) /\ q.pc = "send" /\ q.admitted = {Handlers!Current(r)} /\ q.sent = req[r].sent
            /\ q.granted = req[r].granted \cup {Handlers!Current(r)} /\ q.left = req[r].left /\ q.model = req[r].model
        BY DEF Shaped, Fields
      <4> HIDE DEF q
      <4>3. Granted(q)
        BY <4>2 DEF Granted, Handlers!Current
      <4> QED BY <4>1, <4>2, <4>3
    <3> QED BY <1>15, <3>1, <3>2 DEF Handlers!Released
  <2>4. /\ req' = [s \in Requests |-> req'[s]] /\ (\A s \in Requests : Shaped(req'[s]))
        /\ req'[r] = q /\ OnlyRequest(r)
    BY <2>3, Replaced
  <2>5. Told(q, row[r]) /\ Queued(q, None)
    BY <2>2, <2>3 DEF Told, Queued
  <2>6. Shapes'
    BY <2>1, <2>4 DEF Shapes
  <2>7. \A s \in Requests : Granted(req'[s]) /\ Told(req'[s], row'[s]) /\ Queued(req'[s], waiting'[s]) /\ Audited(s)'
    BY <2>1, <2>2, <2>3, <2>4, <2>5 DEF RouterInv, OnlyRequest, Audited
  <2>8. closing' = "drained" => \A s \in doomed' : waiting'[s] = None
    BY <2>1, <2>2 DEF RouterInv, Shapes
  <2> QED BY <2>1, <2>6, <2>7, <2>8 DEF RouterInv
<1>16. ASSUME NEW r \in Requests, Handlers!NotReleased(r) PROVE RouterInv'
  <2> DEFINE q == [req[r] EXCEPT !.pc = "leaving"]
  <2>1. /\ req' = [req EXCEPT ![r] = q] /\ UNCHANGED <<waiting, closing, doomed>>
        /\ req[r].pc = "held" /\ Handlers!MaySettle(r, "guard_hold")
    BY <1>16 DEF Handlers!NotReleased, Handlers!Goto
  <2>2. /\ Shaped(q) /\ q.pc = "leaving" /\ q.admitted = req[r].admitted
        /\ q.granted = req[r].granted /\ q.sent = req[r].sent
    BY DEF Shaped, Fields
  <2> HIDE DEF q
  <2>3. row[r] = None
    BY <2>1 DEF RouterInv, Told
  <2>4. PICK said \in {"guard_hold", "lost"} : row' = [row EXCEPT ![r] = said]
    BY <2>1, <2>3 DEF Handlers!MaySettle, Handlers!Settle
  <2>5. Granted(q) /\ Told(q, said) /\ Queued(q, waiting[r])
    BY <2>2 DEF Granted, Told, Queued
  <2> QED BY <2>1, <2>2, <2>3, <2>4, <2>5, IsOver
<1>17. ASSUME NEW r \in Requests, Handlers!Leave(r) PROVE RouterInv'
  <2>1. /\ waiting' = [waiting EXCEPT ![r] = None] /\ UNCHANGED <<row, closing, doomed>>
        /\ req[r].pc = "leaving" /\ req' = [req EXCEPT ![r] = Ended(r, "held")]
    BY <1>17, Ends DEF Handlers!Leave, Handlers!Dequeue
  <2>2. PICK said \in {"guard_hold", "lost"} : row[r] = said /\ row' = [row EXCEPT ![r] = said]
    BY <2>1 DEF RouterInv, Told, Shapes
  <2>3. said # None
    BY DEF Nothing, Reasons
  <2>4. Told(Ended(r, "held"), said) /\ Shaped(Ended(r, "held")) /\ Granted(Ended(r, "held"))
    BY EndedIsGranted DEF Told, Answers
  <2>5. row[r] # None /\ UNCHANGED <<closing, doomed>>
    BY <2>1, <2>2, <2>3
  <2> QED BY <2>1, <2>2, <2>3, <2>4, <2>5, IsOver
<1>18. ASSUME NEW r \in Requests, Handlers!Dropped(r) PROVE RouterInv'
  <2>1. /\ waiting' = [waiting EXCEPT ![r] = None] /\ UNCHANGED <<row, closing, doomed>>
        /\ req[r].pc = "dropping" /\ req' = [req EXCEPT ![r] = Ended(r, "gone")]
    BY <1>18, Ends DEF Handlers!Dropped, Handlers!Dequeue
  <2>2. PICK said \in {"client_gone", "lost"} : row[r] = said /\ row' = [row EXCEPT ![r] = said]
    BY <2>1 DEF RouterInv, Told, Shapes
  <2>3. said # None
    BY DEF Nothing, Reasons
  <2>4. Told(Ended(r, "gone"), said) /\ Shaped(Ended(r, "gone")) /\ Granted(Ended(r, "gone"))
    BY EndedIsGranted DEF Told, Answers
  <2>5. row[r] # None /\ UNCHANGED <<closing, doomed>>
    BY <2>1, <2>2, <2>3
  <2> QED BY <2>1, <2>2, <2>3, <2>4, <2>5, IsOver
<1>19. ASSUME NEW r \in Requests, Handlers!Send(r) PROVE RouterInv'
  <2> DEFINE q == [req[r] EXCEPT !.pc = "sending", !.tail = FALSE, !.sent = @ \cup {Handlers!Current(r)}]
  <2>1. UNCHANGED <<row, waiting, closing, doomed>> /\ req[r].pc = "send"
    BY <1>19 DEF Handlers!Send
  <2>2. CASE Handlers!Done(r, "error")
    BY <2>1, <2>2, EndsSilently
  <2>3. CASE req' = [req EXCEPT ![r].pc = "sending", ![r].tail = FALSE, ![r].sent = @ \cup {Handlers!Current(r)}]
    <3>1. req' = [req EXCEPT ![r] = q]
      BY <2>3
    <3>2. /\ Shaped(q) /\ q.pc = "sending" /\ q.admitted = req[r].admitted /\ q.granted = req[r].granted
          /\ q.sent = req[r].sent \cup {Handlers!Current(r)}
      BY DEF Shaped, Fields
    <3> HIDE DEF q
    <3>3. Granted(q)
      BY <2>1, <3>2 DEF Granted, Handlers!Current
    <3> QED BY <2>1, <3>1, <3>2, <3>3, GoesOn
  <2> QED BY <1>19, <2>2, <2>3 DEF Handlers!Send
<1>20. ASSUME NEW r \in Requests, NEW failure \in Handlers!Failures, Handlers!Fails(r, failure) PROVE RouterInv'
  <2> DEFINE q == [req[r] EXCEPT !.pc = "draining", !.last = TRUE]
  <2>1. UNCHANGED <<row, waiting, closing, doomed>> /\ req[r].pc = "sending"
    BY <1>20 DEF Handlers!Fails
  <2>2. CASE Handlers!Done(r, "upstream_error")
    BY <2>1, <2>2, EndsSilently
  <2>3. CASE req' = [req EXCEPT ![r].pc = "draining", ![r].last = TRUE]
    <3>1. req' = [req EXCEPT ![r] = q]
      BY <2>3
    <3>2. /\ Shaped(q) /\ q.pc = "draining" /\ q.admitted = req[r].admitted
          /\ q.granted = req[r].granted /\ q.sent = req[r].sent
      BY DEF Shaped, Fields
    <3> HIDE DEF q
    <3>3. Granted(q)
      BY <3>2 DEF Granted
    <3> QED BY <2>1, <3>1, <3>2, <3>3, GoesOn
  <2> QED BY <1>20, <2>2, <2>3 DEF Handlers!Fails
<1>21. ASSUME NEW r \in Requests, Handlers!Drained(r) PROVE RouterInv'
  <2> DEFINE q == [req[r] EXCEPT !.pc = "next", !.left = Handlers!Rest(r)]
  <2>1. req' = [req EXCEPT ![r] = q]
    BY <1>21 DEF Handlers!Drained
  <2>2. /\ Shaped(q) /\ q.admitted = req[r].admitted /\ q.granted = req[r].granted
        /\ q.sent = req[r].sent /\ q.pc = "next"
    BY DEF Shaped, Fields
  <2>3. UNCHANGED <<row, waiting, closing, doomed>> /\ req[r].pc = "draining"
    BY <1>21 DEF Handlers!Drained
  <2> HIDE DEF q
  <2>4. Granted(q)
    BY <2>2, <2>3 DEF Granted
  <2> QED BY <2>1, <2>2, <2>3, <2>4, GoesOn
<1>22. ASSUME NEW r \in Requests, Handlers!SubscriptionFails(r) PROVE RouterInv'
  <2>1. PICK how \in {"error", "unavailable", "upstream_error"} : Handlers!Done(r, how)
    BY <1>22 DEF Handlers!SubscriptionFails
  <2>2. UNCHANGED <<row, waiting, closing, doomed>> /\ req[r].pc = "sending"
    BY <1>22 DEF Handlers!SubscriptionFails
  <2> QED BY <2>1, <2>2, EndsSilently
<1>23. ASSUME NEW r \in Requests, Handlers!Stream(r) PROVE RouterInv'
  <2> DEFINE q == [req[r] EXCEPT !.pc = "streaming"]
  <2>1. req' = [req EXCEPT ![r] = q]
    BY <1>23 DEF Handlers!Stream, Handlers!Goto
  <2>2. /\ Shaped(q) /\ q.admitted = req[r].admitted /\ q.granted = req[r].granted
        /\ q.sent = req[r].sent /\ q.left = req[r].left /\ q.model = req[r].model /\ q.pc = "streaming"
    BY DEF Shaped, Fields
  <2>3. UNCHANGED <<row, waiting, closing, doomed>> /\ req[r].pc = "sending"
    BY <1>23 DEF Handlers!Stream, Handlers!Goto
  <2> HIDE DEF q
  <2>4. Granted(q)
    BY <2>2, <2>3 DEF Granted
  <2> QED BY <2>1, <2>2, <2>3, <2>4, GoesOn
<1>24. ASSUME NEW r \in Requests, NEW broken \in BOOLEAN, Handlers!StreamEnds(r, broken) PROVE RouterInv'
  <2>1. UNCHANGED <<waiting, closing, doomed>> /\ req[r].pc = "streaming"
    BY <1>24 DEF Handlers!StreamEnds
  <2>2. PICK end \in {<<"broken", "cut">>, <<"completed", "complete">>} :
            Handlers!MaySettle(r, end[1]) /\ Handlers!Done(r, end[2])
    BY <1>24 DEF Handlers!StreamEnds
  <2>3. <<end[1], end[2]>> \in Answers
    BY DEF Answers
  <2> QED BY <2>1, <2>2, <2>3, EndsWithRow
<1>25. ASSUME NEW r \in Requests, Handlers!ClientGone(r) PROVE RouterInv'
  <2>1. CASE req[r].pc = "held"
    <3> DEFINE q == [req[r] EXCEPT !.pc = "dropping"]
    <3>1. /\ req' = [req EXCEPT ![r] = q] /\ UNCHANGED <<waiting, closing, doomed>>
          /\ req[r].pc = "held" /\ Handlers!MaySettle(r, "client_gone")
      BY <1>25, <2>1 DEF Handlers!ClientGone, Handlers!Goto
    <3>2. /\ Shaped(q) /\ q.pc = "dropping" /\ q.admitted = req[r].admitted
          /\ q.granted = req[r].granted /\ q.sent = req[r].sent
      BY DEF Shaped, Fields
    <3> HIDE DEF q
    <3>3. row[r] = None
      BY <3>1 DEF RouterInv, Told
    <3>4. PICK said \in {"client_gone", "lost"} : row' = [row EXCEPT ![r] = said]
      BY <3>1, <3>3 DEF Handlers!MaySettle, Handlers!Settle
    <3>5. Granted(q) /\ Told(q, said) /\ Queued(q, waiting[r])
      BY <3>2 DEF Granted, Told, Queued
    <3> QED BY <3>1, <3>2, <3>3, <3>4, <3>5, IsOver
  <2>2. CASE req[r].pc # "held"
    <3>1. /\ UNCHANGED <<row, waiting, closing, doomed>> /\ Handlers!Done(r, "gone")
          /\ req[r].pc \in Handlers!Awaiting
      BY <1>25, <2>2 DEF Handlers!ClientGone
    <3> QED BY <2>2, <3>1, EndsSilently DEF Handlers!Awaiting
  <2> QED BY <2>1, <2>2
<1>26. ASSUME NEW r \in Requests, NEW outcome \in Handlers!Outcomes, Handlers!Resolve(r, outcome) PROVE RouterInv'
  <2>1. /\ waiting' = [s \in Requests |-> waiting'[s]] /\ waiting[r] = "waiting"
        /\ \A s \in Requests \ {r} : waiting'[s] = waiting[s]
        /\ UNCHANGED <<req, row, closing, doomed>>
    BY <1>26 DEF Handlers!Resolve, Shapes
  <2>2. r \in doomed => row[r] # None
    BY <2>1 DEF RouterInv, Audited
  <2>3. closing = "drained" => r \notin doomed
    BY <2>1 DEF RouterInv, Nothing
  <2>4. Queued(req[r], waiting'[r])
    BY <2>1 DEF RouterInv, Queued, Nothing
  <2>5. Shapes'
    BY <2>1 DEF Shapes
  <2>6. \A s \in Requests : Granted(req'[s]) /\ Told(req'[s], row'[s]) /\ Queued(req'[s], waiting'[s]) /\ Audited(s)'
    BY <2>1, <2>2, <2>4 DEF RouterInv, Audited
  <2>7. closing' = "drained" => \A s \in doomed' : waiting'[s] = None
    BY <2>1, <2>3 DEF RouterInv, Shapes
  <2> QED BY <2>1, <2>5, <2>6, <2>7 DEF RouterInv
<1>27. CASE Handlers!BeginDrain
  <2>1. /\ closing' = "draining" /\ UNCHANGED <<req, row>>
        /\ doomed' = {r \in Requests : waiting[r] = "waiting"}
        /\ waiting' = [r \in Requests |-> IF waiting[r] = "waiting" THEN "shutdown" ELSE waiting[r]]
    BY <1>27 DEF Handlers!BeginDrain
  <2>2. \A r \in Requests : Queued(req[r], waiting'[r]) /\ Audited(r)'
    BY <2>1 DEF RouterInv, Queued, Audited, Nothing
  <2> QED BY <2>1, <2>2 DEF RouterInv, Shapes
<1>28. CASE Handlers!DrainEnds
  <2>1. /\ UNCHANGED <<req, row, waiting, doomed>> /\ closing' = "drained"
        /\ doomed \cap Handlers!Enqueued = {}
    BY <1>28 DEF Handlers!DrainEnds
  <2>2. \A r \in doomed : waiting[r] = None
    BY <2>1 DEF Handlers!Enqueued, Shapes
  <2> QED BY <2>1, <2>2 DEF RouterInv, Shapes, Audited
<1>29. CASE Handlers!Tick \/ Handlers!DrainTimesOut \/ Handlers!Exit \/ UNCHANGED Handlers!vars
  <2>1. UNCHANGED <<req, row, waiting, doomed>> /\ closing' \in {closing, "exited"}
    BY <1>29 DEF Handlers!Tick, Handlers!DrainTimesOut, Handlers!Exit, Handlers!vars
  <2> QED BY <2>1 DEF RouterInv, Shapes, Audited
<1> QED BY <1>1, <1>2, <1>3, <1>4, <1>5, <1>6, <1>7, <1>8, <1>9, <1>10, <1>11, <1>12,
           <1>13, <1>14, <1>15, <1>16, <1>17, <1>18, <1>19, <1>20, <1>21, <1>22, <1>23,
           <1>24, <1>25, <1>26, <1>27, <1>28, <1>29
        DEF Handlers!Next, Handlers!Handler

LEMMA RouterInvariance == ASSUME Nothing PROVE AllSpec => []RouterInv
<1>1. [AllNext]_<<service, vars, routerVars, trayVars>> => [Handlers!Next]_(Handlers!vars)
  BY DEF AllNext, routerVars, Handlers!vars
<1>2. RouterInv /\ [Handlers!Next]_(Handlers!vars) => RouterInv'
  BY RouterSteps
<1> QED BY <1>1, <1>2, RouterStarts, PTL DEF AllSpec

\* Whatever a request has been through, it was sent to a Provider only when the gate
\* had let it go to that Provider.
THEOREM OnlyAdmittedAreSent == ASSUME Nothing PROVE AllSpec => []SentWhereAdmitted
<1>1. RouterInv => SentWhereAdmitted
  BY DEF RouterInv, Granted, SentWhereAdmitted, Handlers!SentWhereAdmitted
<1> QED BY <1>1, RouterInvariance, PTL

\* The row of a request that is over tells what its client was told.
THEOREM RowsTellOutcomes == ASSUME Nothing PROVE AllSpec => []RowTellsOutcome
<1>1. RouterInv => RowTellsOutcome
  BY DEF RouterInv, Told, Answers, RowTellsOutcome, Handlers!RowTellsOutcome
<1> QED BY <1>1, RouterInvariance, PTL

\* When the drain is through, every request it turned away has had its row.
THEOREM DrainsAreAudited == ASSUME Nothing PROVE AllSpec => []DrainedIsAudited
<1>1. RouterInv => DrainedIsAudited
  BY DEF RouterInv, Shapes, Audited, Nothing, DrainedIsAudited, Handlers!DrainedIsAudited
<1> QED BY <1>1, RouterInvariance, PTL

-----------------------------------------------------------------------------
(* The rest after a failure.                                               *)

\* No cooldown is no number.
NoNumber == None \notin Nat

\* Before its candidates are chosen a request is not in automatic mode, and no step
\* but that choice changes this.
Early == {"idle", "reading"}
Stays(q, n) ==
    /\ n.model = q.model
    /\ n.pc \in Early => q.pc \in Early /\ n.auto = q.auto
    /\ q.pc = "reading" => n.auto \in {q.auto, FALSE}
Chooses(r) ==
    \E automatic \in BOOLEAN, manual \in Providers, unfit \in SUBSET Handlers!OfModel(req[r].model) :
        Handlers!SelectCandidates(r, automatic, manual, unfit)

LEMMA OneStays ==
  ASSUME Shapes, NEW r \in Requests, NEW q, req' = [req EXCEPT ![r] = q], Stays(req[r], q)
  PROVE  \A s \in Requests : Stays(req[s], req'[s])
<1>1. \A s \in Requests \ {r} : req'[s] = req[s]
  BY DEF Shapes
<1>2. req'[r] = q
  BY DEF Shapes
<1> QED BY <1>1, <1>2 DEF Stays

LEMMA DoneStays == ASSUME Shapes, NEW r \in Requests, NEW how, Handlers!Done(r, how)
                   PROVE  \A s \in Requests : Stays(req[s], req'[s])
<1> DEFINE q == Ended(r, how)
<1>1. req' = [req EXCEPT ![r] = q]
  BY DEF Handlers!Done, Ended
<1>2. q.pc = "done" /\ q.model = req[r].model /\ q.auto = FALSE
  BY DEF Ended, Handlers!Fresh
<1> HIDE DEF q
<1> QED BY <1>1, <1>2, OneStays DEF Stays, Early

LEMMA GoneStays == ASSUME Shapes, NEW r \in Requests, NEW place, place \notin Early, Handlers!Goto(r, place)
                   PROVE  \A s \in Requests : Stays(req[s], req'[s])
<1> DEFINE q == [req[r] EXCEPT !.pc = place]
<1>1. req' = [req EXCEPT ![r] = q]
  BY DEF Handlers!Goto
<1>2. q.pc = place /\ q.model = req[r].model /\ q.auto = req[r].auto
  BY DEF Shapes, Shaped, Fields
<1> HIDE DEF q
<1> QED BY <1>1, <1>2, OneStays DEF Stays

LEMMA LetInStays == ASSUME Shapes, NEW r \in Requests, Handlers!Admitted(r)
                    PROVE  \A s \in Requests : Stays(req[s], req'[s])
<1> DEFINE q == [req[r] EXCEPT !.pc = "send", !.admitted = {Handlers!Current(r)}, !.granted = @ \cup {Handlers!Current(r)}]
<1>1. req' = [req EXCEPT ![r] = q]
  BY DEF Handlers!Admitted
<1>2. q.pc = "send" /\ q.model = req[r].model /\ q.auto = req[r].auto
  BY DEF Shapes, Shaped, Fields
<1> HIDE DEF q
<1> QED BY <1>1, <1>2, OneStays DEF Stays, Early

LEMMA RequestsStay ==
  ASSUME Shapes, [Handlers!Next]_(Handlers!vars)
  PROVE  \A s \in Requests : Stays(req[s], req'[s]) \/ (Chooses(s) /\ req'[s].model = req[s].model /\ req'[s].pc \notin Early)
<1> USE DEF Handlers!At
<1> \A r \in Requests : Shaped(req[r])
  BY DEF Shapes
<1>1. ASSUME NEW r \in Requests, NEW q, req' = [req EXCEPT ![r] = q], q.model = req[r].model, q.auto = req[r].auto,
             q.pc \in Early => req[r].pc \in Early
      PROVE  \A s \in Requests : Stays(req[s], req'[s])
  BY <1>1, OneStays DEF Stays
<1>2. ASSUME NEW r \in Requests, Handlers!Connect(r) PROVE \A s \in Requests : Stays(req[s], req'[s])
  <2>1. PICK big \in BOOLEAN : req' = [req EXCEPT ![r].pc = "reading", ![r].oversize = big, ![r].tail = big]
    BY <1>2 DEF Handlers!Connect
  <2> DEFINE q == [req[r] EXCEPT !.pc = "reading", !.oversize = big, !.tail = big]
  <2>2. req' = [req EXCEPT ![r] = q] /\ req[r].pc = "idle"
    BY <1>2, <2>1 DEF Handlers!Connect
  <2>3. q.model = req[r].model /\ q.auto = req[r].auto
    BY DEF Shaped, Fields
  <2> HIDE DEF q
  <2> QED BY <1>1, <2>2, <2>3 DEF Early
<1>3. ASSUME NEW r \in Requests,
             \/ Handlers!Reject(r) \/ Handlers!Block(r) \/ Handlers!NoCandidateLeft(r) \/ Handlers!Deny(r)
             \/ Handlers!RefuseAtOnce(r) \/ Handlers!Leave(r) \/ Handlers!Dropped(r) \/ Handlers!SubscriptionFails(r)
             \/ \E broken \in BOOLEAN : Handlers!StreamEnds(r, broken)
      PROVE  \A s \in Requests : Stays(req[s], req'[s])
  <2>1. \E how : Handlers!Done(r, how)
    BY <1>3 DEF Handlers!Reject, Handlers!Block, Handlers!NoCandidateLeft, Handlers!Deny, Handlers!RefuseAtOnce,
                Handlers!Leave, Handlers!Dropped, Handlers!SubscriptionFails, Handlers!StreamEnds
  <2> QED BY <2>1, DoneStays
<1>4. ASSUME NEW r \in Requests,
             Handlers!ResolveAuth(r) \/ Handlers!NotReleased(r) \/ Handlers!Stream(r)
      PROVE  \A s \in Requests : Stays(req[s], req'[s])
  <2>1. \E place \in {"auth", "leaving", "streaming"} : Handlers!Goto(r, place)
    BY <1>4 DEF Handlers!ResolveAuth, Handlers!NotReleased, Handlers!Stream
  <2> QED BY <2>1, GoneStays DEF Early
<1>5. ASSUME NEW r \in Requests, Handlers!ForwardSubscription(r) PROVE \A s \in Requests : Stays(req[s], req'[s])
  <2> DEFINE q == [req[r] EXCEPT !.pc = "admit", !.left = {Subscription}]
  <2>1. req' = [req EXCEPT ![r] = q]
    BY <1>5 DEF Handlers!ForwardSubscription
  <2>2. q.model = req[r].model /\ q.auto = req[r].auto /\ q.pc = "admit"
    BY DEF Shaped, Fields
  <2> HIDE DEF q
  <2> QED BY <1>1, <2>1, <2>2 DEF Early
<1>6. ASSUME NEW r \in Requests,
             Handlers!SkipUnfit(r) \/ Handlers!AuthUnavailable(r) \/ Handlers!Drained(r)
      PROVE  \A s \in Requests : Stays(req[s], req'[s])
  <2> DEFINE q == [req[r] EXCEPT !.pc = "next", !.left = Handlers!Rest(r)]
  <2>1. req' = [req EXCEPT ![r] = q]
    <3>1. req' = [req EXCEPT ![r].pc = "next", ![r].left = Handlers!Rest(r)]
          \/ (req[r].pc = "next" /\ req' = [req EXCEPT ![r].left = Handlers!Rest(r)])
      BY <1>6 DEF Handlers!SkipUnfit, Handlers!AuthUnavailable, Handlers!Drained
    <3>2. req[r].pc = "next" => [req[r] EXCEPT !.left = Handlers!Rest(r)] = q
      BY DEF Shaped, Fields
    <3> QED BY <3>1, <3>2
  <2>2. q.model = req[r].model /\ q.auto = req[r].auto /\ q.pc = "next"
    BY DEF Shaped, Fields
  <2> HIDE DEF q
  <2> QED BY <1>1, <2>1, <2>2 DEF Early
<1>7. ASSUME NEW r \in Requests, Handlers!AuthResolved(r) PROVE \A s \in Requests : Stays(req[s], req'[s])
  <2> DEFINE place == IF Handlers!NeedsAdmission(r) THEN "admit" ELSE "send"
             q == [req[r] EXCEPT !.pc = place, !.admission = 0]
  <2>1. req' = [req EXCEPT ![r] = q]
    BY <1>7 DEF Handlers!AuthResolved
  <2>2. q.model = req[r].model /\ q.auto = req[r].auto /\ q.pc = place
    BY DEF Shaped, Fields
  <2>3. place \notin Early
    BY DEF Early
  <2> HIDE DEF q, place
  <2> QED BY <1>1, <2>1, <2>2, <2>3
<1>8. ASSUME NEW r \in Requests, NEW switch \in BOOLEAN, Handlers!Hold(r, switch)
      PROVE  \A s \in Requests : Stays(req[s], req'[s])
  <2> DEFINE q == [req[r] EXCEPT !.pc = "held", !.switch = switch]
  <2>1. req' = [req EXCEPT ![r] = q]
    BY <1>8 DEF Handlers!Hold
  <2>2. q.model = req[r].model /\ q.auto = req[r].auto /\ q.pc = "held"
    BY DEF Shaped, Fields
  <2> HIDE DEF q
  <2> QED BY <1>1, <2>1, <2>2 DEF Early
<1>9. ASSUME NEW r \in Requests, Handlers!Allow(r) \/ Handlers!Released(r)
      PROVE  \A s \in Requests : Stays(req[s], req'[s])
  <2> DEFINE q == [req[r] EXCEPT !.pc = "admit", !.admission = 1]
  <2>1. Handlers!Admitted(r) \/ req' = [req EXCEPT ![r] = q]
    BY <1>9 DEF Handlers!Allow, Handlers!Released
  <2>2. q.model = req[r].model /\ q.auto = req[r].auto /\ q.pc = "admit"
    BY DEF Shaped, Fields
  <2> HIDE DEF q
  <2> QED BY <1>1, <2>1, <2>2, LetInStays DEF Early
<1>10. ASSUME NEW r \in Requests, Handlers!Send(r) PROVE \A s \in Requests : Stays(req[s], req'[s])
  <2> DEFINE q == [req[r] EXCEPT !.pc = "sending", !.tail = FALSE, !.sent = @ \cup {Handlers!Current(r)}]
  <2>1. Handlers!Done(r, "error") \/ req' = [req EXCEPT ![r] = q]
    BY <1>10 DEF Handlers!Send
  <2>2. q.model = req[r].model /\ q.auto = req[r].auto /\ q.pc = "sending"
    BY DEF Shaped, Fields
  <2> HIDE DEF q
  <2> QED BY <1>1, <2>1, <2>2, DoneStays DEF Early
<1>11. ASSUME NEW r \in Requests, NEW failure \in Handlers!Failures, Handlers!Fails(r, failure)
       PROVE  \A s \in Requests : Stays(req[s], req'[s])
  <2> DEFINE q == [req[r] EXCEPT !.pc = "draining", !.last = TRUE]
  <2>1. Handlers!Done(r, "upstream_error") \/ req' = [req EXCEPT ![r] = q]
    BY <1>11 DEF Handlers!Fails
  <2>2. q.model = req[r].model /\ q.auto = req[r].auto /\ q.pc = "draining"
    BY DEF Shaped, Fields
  <2> HIDE DEF q
  <2> QED BY <1>1, <2>1, <2>2, DoneStays DEF Early
<1>12. ASSUME NEW r \in Requests, Handlers!ClientGone(r) PROVE \A s \in Requests : Stays(req[s], req'[s])
  <2>1. Handlers!Goto(r, "dropping") \/ Handlers!Done(r, "gone")
    BY <1>12 DEF Handlers!ClientGone
  <2> QED BY <2>1, DoneStays, GoneStays DEF Early
<1>13. ASSUME NEW r \in Requests, NEW automatic \in BOOLEAN, NEW manual \in Providers,
              NEW unfit \in SUBSET Handlers!OfModel(req[r].model),
              Handlers!SelectCandidates(r, automatic, manual, unfit)
       PROVE  \A s \in Requests : Stays(req[s], req'[s]) \/ (Chooses(s) /\ req'[s].model = req[s].model /\ req'[s].pc \notin Early)
  <2> DEFINE left == IF automatic THEN Handlers!AutoCandidates(req[r].model) ELSE Handlers!ManualCandidates(req[r].model, manual)
             q == [req[r] EXCEPT !.pc = "next", !.auto = automatic, !.left = left, !.unfit = unfit]
  <2>1. Handlers!Done(r, "unavailable") \/ req' = [req EXCEPT ![r] = q]
    BY <1>13 DEF Handlers!SelectCandidates
  <2> HIDE DEF left
  <2>2. q.model = req[r].model /\ q.pc = "next"
    BY DEF Shaped, Fields
  <2> HIDE DEF q
  <2>3. Chooses(r)
    BY <1>13 DEF Chooses
  <2>4. CASE req' = [req EXCEPT ![r] = q]
    <3>1. req'[r] = q /\ \A s \in Requests \ {r} : req'[s] = req[s]
      BY <2>4 DEF Shapes
    <3>2. ASSUME NEW s \in Requests \ {r} PROVE Stays(req[s], req'[s])
      BY <3>1 DEF Stays
    <3> QED BY <2>2, <2>3, <3>1, <3>2 DEF Early
  <2> QED BY <2>1, <2>4, DoneStays
<1>14. CASE UNCHANGED req
  BY <1>14 DEF Stays
<1>15. (\E r \in Requests, outcome \in Handlers!Outcomes : Handlers!Resolve(r, outcome)) \/ Handlers!Tick
       \/ Handlers!BeginDrain \/ Handlers!DrainEnds \/ Handlers!DrainTimesOut \/ Handlers!Exit
       \/ UNCHANGED Handlers!vars => UNCHANGED req
  BY DEF Handlers!Resolve, Handlers!Tick, Handlers!BeginDrain, Handlers!DrainEnds, Handlers!DrainTimesOut, Handlers!Exit,
         Handlers!vars
<1> QED BY <1>2, <1>3, <1>4, <1>5, <1>6, <1>7, <1>8, <1>9, <1>10, <1>11, <1>12, <1>13, <1>14, <1>15
        DEF Handlers!Next, Handlers!Handler

\* As long as a Provider rests, an entry of the blacklist covers it.
Lists ==
    /\ blacklist \in [Providers \X Handlers!Scopes -> Nat \cup {None}]
    /\ resting \in [Providers \X Models -> Nat]
Listed(p, m) ==
    resting[<<p, m>>] # 0 =>
        \E s \in {m, Whole} : blacklist[<<p, s>>] \in Nat /\ resting[<<p, m>>] <= blacklist[<<p, s>>]

RestInv ==
    /\ Shapes /\ Lists
    /\ \A r \in Requests : req[r].model \in Models /\ (req[r].pc \in Early => req[r].auto = FALSE)
    /\ \A p \in Providers, m \in Models : Listed(p, m)

LEMMA Cooldowns == Whole \notin Models /\ ShortCooldown \in Nat /\ LongCooldown \in Nat /\ ShortCooldown <= LongCooldown
  BY RouterAssumption DEF Handlers!RouterConstants

LEMMA FailureListed ==
  ASSUME NoNumber, Lists, NEW p, NEW m \in Models, NEW failure \in Handlers!Failures,
         Handlers!PushBlacklist(p, m, Handlers!Verdict(failure)), Handlers!Rests(p, m, Handlers!Verdict(failure)),
         \A q \in Providers, n \in Models : Listed(q, n)
  PROVE  Lists' /\ \A q \in Providers, n \in Models : Listed(q, n)'
<1> DEFINE verdict == Handlers!Verdict(failure)
           hit == {<<p, n>> : n \in CASE verdict.scope = "provider" -> Models
                                      [] verdict.scope = "route" -> {m}
                                      [] OTHER -> {}}
<1>1. /\ verdict.scope = IF failure \in {"connect", "timeout"} THEN "provider" ELSE IF failure = "rejected" THEN "none" ELSE "route"
      /\ verdict.cooldown \in {ShortCooldown, LongCooldown}
      /\ verdict.scope = "provider" => verdict.cooldown = ShortCooldown
  BY DEF Handlers!Verdict, Handlers!Failures
<1>2. verdict.scope \in {"provider", "none", "route"} /\ verdict.cooldown \in Nat /\ ShortCooldown <= verdict.cooldown
  BY <1>1, Cooldowns
<1>3. resting' = [e \in Providers \X Models |-> IF e \in hit THEN ShortCooldown ELSE resting[e]]
  BY DEF Handlers!Rests
<1>4. blacklist' = IF verdict.scope = "none" THEN blacklist
                   ELSE [blacklist EXCEPT ![<<p, IF verdict.scope = "provider" THEN Whole ELSE m>>] = verdict.cooldown]
  BY DEF Handlers!PushBlacklist, Handlers!EntryOf
<1> HIDE DEF verdict
<1>5. Lists'
  <2>1. resting' \in [Providers \X Models -> Nat]
    BY <1>3, Cooldowns DEF Lists
  <2>2. blacklist' \in [Providers \X Handlers!Scopes -> Nat \cup {None}]
    BY <1>2, <1>4 DEF Lists
  <2> QED BY <2>1, <2>2 DEF Lists
<1>6. ASSUME NEW q \in Providers, NEW n \in Models PROVE Listed(q, n)'
  <2>1. <<q, n>> \in Providers \X Models /\ <<q, n>> \in Providers \X Handlers!Scopes /\ <<q, Whole>> \in Providers \X Handlers!Scopes
    BY DEF Handlers!Scopes
  <2>2. resting'[<<q, n>>] = IF <<q, n>> \in hit THEN ShortCooldown ELSE resting[<<q, n>>]
    BY <1>3, <2>1
  <2>3. <<q, n>> \in hit <=> q = p /\ (verdict.scope = "provider" \/ (verdict.scope = "route" /\ n = m))
    BY <1>2
  <2> HIDE DEF hit
  <2>4. CASE verdict.scope = "none"
    BY <1>4, <2>2, <2>3, <2>4 DEF Listed
  <2>5. CASE verdict.scope = "provider"
    <3>1. blacklist' = [blacklist EXCEPT ![<<p, Whole>>] = verdict.cooldown]
      BY <1>4, <2>5
    <3>2. CASE q = p
      <4>1. blacklist'[<<q, Whole>>] = verdict.cooldown
        BY <2>1, <3>1, <3>2 DEF Lists
      <4>2. resting'[<<q, n>>] = ShortCooldown
        BY <2>2, <2>3, <2>5, <3>2
      <4> QED BY <1>2, <4>1, <4>2 DEF Listed
    <3>3. CASE q # p
      <4>1. \A s \in {n, Whole} : blacklist'[<<q, s>>] = blacklist[<<q, s>>]
        BY <2>1, <3>1, <3>3 DEF Lists
      <4> QED BY <2>2, <2>3, <3>3, <4>1 DEF Listed
    <3> QED BY <3>2, <3>3
  <2>6. CASE verdict.scope = "route"
    <3>1. blacklist' = [blacklist EXCEPT ![<<p, m>>] = verdict.cooldown]
      BY <1>4, <2>6
    <3>2. CASE q = p /\ n = m
      <4>1. blacklist'[<<q, n>>] = verdict.cooldown
        BY <2>1, <3>1, <3>2 DEF Lists
      <4>2. resting'[<<q, n>>] = ShortCooldown
        BY <2>2, <2>3, <2>6, <3>2
      <4> QED BY <1>2, <4>1, <4>2 DEF Listed
    <3>3. CASE ~ (q = p /\ n = m)
      <4>1. \A s \in {n, Whole} : blacklist'[<<q, s>>] = blacklist[<<q, s>>]
        BY <2>1, <3>1, <3>3, Cooldowns DEF Lists
      <4> QED BY <2>2, <2>3, <2>6, <3>3, <4>1 DEF Listed
    <3> QED BY <3>2, <3>3
  <2> QED BY <1>2, <2>4, <2>5, <2>6
<1> QED BY <1>5, <1>6

LEMMA TickListed ==
  ASSUME NoNumber, Lists, Handlers!Tick, \A q \in Providers, n \in Models : Listed(q, n)
  PROVE  Lists' /\ \A q \in Providers, n \in Models : Listed(q, n)'
<1>1. /\ blacklist' = [e \in Providers \X Handlers!Scopes |-> Handlers!Less1(blacklist[e])]
      /\ resting' = [e \in Providers \X Models |-> Handlers!Less1(resting[e])]
  BY DEF Handlers!Tick
<1>2. /\ \A n \in Nat : Handlers!Less1(n) = IF n = 0 THEN 0 ELSE n - 1
      /\ \A n \in Nat : Handlers!Less1(n) \in Nat /\ Handlers!Less1(None) = None
  BY DEF Handlers!Less1, NoNumber
<1>3. Lists'
  BY <1>1, <1>2 DEF Lists
<1>4. ASSUME NEW q \in Providers, NEW n \in Models PROVE Listed(q, n)'
  <2>1. <<q, n>> \in Providers \X Models /\ <<q, n>> \in Providers \X Handlers!Scopes /\ <<q, Whole>> \in Providers \X Handlers!Scopes
    BY DEF Handlers!Scopes
  <2>2. /\ resting'[<<q, n>>] = Handlers!Less1(resting[<<q, n>>]) /\ resting[<<q, n>>] \in Nat
        /\ \A s \in {n, Whole} : blacklist'[<<q, s>>] = Handlers!Less1(blacklist[<<q, s>>])
    BY <1>1, <2>1 DEF Lists
  <2>3. ASSUME resting'[<<q, n>>] # 0 PROVE resting[<<q, n>>] # 0 /\ resting'[<<q, n>>] = resting[<<q, n>>] - 1
    BY <1>2, <2>2, <2>3
  <2>4. ASSUME resting'[<<q, n>>] # 0
        PROVE  \E s \in {n, Whole} : blacklist'[<<q, s>>] \in Nat /\ resting'[<<q, n>>] <= blacklist'[<<q, s>>]
    <3>1. PICK s \in {n, Whole} : blacklist[<<q, s>>] \in Nat /\ resting[<<q, n>>] <= blacklist[<<q, s>>]
      BY <2>3, <2>4 DEF Listed
    <3>2. blacklist'[<<q, s>>] = blacklist[<<q, s>>] - 1 /\ blacklist'[<<q, s>>] \in Nat
      BY <1>2, <2>2, <2>3, <2>4, <3>1
    <3>3. resting'[<<q, n>>] <= blacklist'[<<q, s>>]
      BY <2>2, <2>3, <2>4, <3>1, <3>2
    <3> QED BY <3>2, <3>3
  <2> QED BY <2>4 DEF Listed
<1> QED BY <1>3, <1>4

LEMMA RequestsStart == Handlers!Init => RouterInv /\ RestInv
<1> SUFFICES ASSUME Handlers!Init PROVE RouterInv /\ RestInv
  OBVIOUS
<1>1. PICK m \in [Requests -> Models] : req = [r \in Requests |-> Handlers!Fresh(m[r])]
  BY DEF Handlers!Init
<1>2. /\ row = [r \in Requests |-> None] /\ waiting = [r \in Requests |-> None]
      /\ closing = "running" /\ doomed = {}
      /\ blacklist = [e \in Providers \X Handlers!Scopes |-> None] /\ resting = [e \in Providers \X Models |-> 0]
  BY DEF Handlers!Init
<1>3. ASSUME NEW r \in Requests
      PROVE /\ Shaped(req[r]) /\ req[r].pc = "idle" /\ req[r].admitted = {} /\ req[r].sent = {}
            /\ req[r].model \in Models /\ req[r].auto = FALSE
  <2>1. req[r] = Handlers!Fresh(m[r]) /\ m[r] \in Models
    BY <1>1
  <2>2. Handlers!Fresh(m[r]) = [f \in Fields |-> Handlers!Fresh(m[r])[f]] /\ DOMAIN Handlers!Fresh(m[r]) = Fields
    BY DEF Handlers!Fresh, Fields
  <2>3. /\ Handlers!Fresh(m[r]).pc = "idle" /\ Handlers!Fresh(m[r]).admitted = {} /\ Handlers!Fresh(m[r]).sent = {}
        /\ Handlers!Fresh(m[r]).model = m[r] /\ Handlers!Fresh(m[r]).auto = FALSE
    BY DEF Handlers!Fresh
  <2> QED BY <2>1, <2>2, <2>3 DEF Shaped
<1>4. Shapes
  BY <1>1, <1>2, <1>3 DEF Shapes
<1>5. RouterInv
  BY <1>2, <1>3, <1>4 DEF RouterInv, Granted, Told, Queued, Audited
<1>6. Lists /\ \A p \in Providers, n \in Models : Listed(p, n)
  BY <1>2 DEF Lists, Listed
<1> QED BY <1>3, <1>4, <1>5, <1>6 DEF RestInv, Early

LEMMA RestSteps ==
  ASSUME Nothing, NoNumber, RouterInv, RestInv, [Handlers!Next]_(Handlers!vars)
  PROVE  RouterInv' /\ RestInv'
<1>1. RouterInv' /\ Shapes'
  BY RouterSteps DEF RouterInv
<1>2. ASSUME NEW r \in Requests
      PROVE  req'[r].model \in Models /\ (req'[r].pc \in Early => req'[r].auto = FALSE)
  <2>1. Stays(req[r], req'[r]) \/ (req'[r].model = req[r].model /\ req'[r].pc \notin Early)
    BY RequestsStay DEF RestInv
  <2> QED BY <2>1 DEF RestInv, Stays
<1>3. CASE \E r \in Requests, failure \in Handlers!Failures : Handlers!Fails(r, failure)
  <2>1. PICK r \in Requests, failure \in Handlers!Failures : Handlers!Fails(r, failure)
    BY <1>3
  <2>2. /\ Handlers!PushBlacklist(Handlers!Current(r), req[r].model, Handlers!Verdict(failure))
        /\ Handlers!Rests(Handlers!Current(r), req[r].model, Handlers!Verdict(failure))
    BY <2>1 DEF Handlers!Fails
  <2>3. req[r].model \in Models /\ Lists /\ \A p \in Providers, m \in Models : Listed(p, m)
    BY DEF RestInv
  <2>4. Lists' /\ \A p \in Providers, m \in Models : Listed(p, m)'
    BY <2>2, <2>3, FailureListed
  <2> QED BY <1>1, <1>2, <2>4 DEF RestInv
<1>4. CASE Handlers!Tick
  <2>1. Lists' /\ \A p \in Providers, m \in Models : Listed(p, m)'
    BY <1>4, TickListed DEF RestInv
  <2> QED BY <1>1, <1>2, <2>1 DEF RestInv
<1>5. CASE UNCHANGED <<blacklist, resting>>
  BY <1>1, <1>2, <1>5 DEF RestInv, Lists, Listed
<1>6. ASSUME NEW r \in Requests, Handlers!Handler(r)
      PROVE  UNCHANGED <<blacklist, resting>> \/ \E failure \in Handlers!Failures : Handlers!Fails(r, failure)
  BY <1>6 DEF Handlers!Handler, Handlers!listVars, Handlers!Reject, Handlers!Block, Handlers!ForwardSubscription,
       Handlers!SelectCandidates, Handlers!SkipUnfit, Handlers!ResolveAuth, Handlers!NoCandidateLeft,
       Handlers!AuthUnavailable, Handlers!AuthResolved, Handlers!Allow, Handlers!Deny, Handlers!RefuseAtOnce,
       Handlers!Hold, Handlers!Released, Handlers!NotReleased, Handlers!Leave, Handlers!Dropped, Handlers!Send,
       Handlers!Drained, Handlers!SubscriptionFails, Handlers!Stream, Handlers!StreamEnds
<1>7. UNCHANGED <<blacklist, resting>> \/ Handlers!Tick
      \/ \E r \in Requests, failure \in Handlers!Failures : Handlers!Fails(r, failure)
  BY <1>6 DEF Handlers!Next, Handlers!vars, Handlers!listVars, Handlers!Connect, Handlers!ClientGone, Handlers!Resolve,
       Handlers!BeginDrain, Handlers!DrainEnds, Handlers!DrainTimesOut, Handlers!Exit
<1> QED BY <1>3, <1>4, <1>5, <1>7

\* A request that gets its candidates in automatic mode has no Provider among them
\* that rests.
LEMMA NoneRests ==
  ASSUME NoNumber, RestInv, NEW r \in Requests, Chooses(r), req'[r].auto, NEW p \in req'[r].left
  PROVE  resting[<<p, req[r].model>>] = 0
<1>1. PICK automatic \in BOOLEAN, manual \in Providers, unfit \in SUBSET Handlers!OfModel(req[r].model) :
         Handlers!SelectCandidates(r, automatic, manual, unfit)
  BY DEF Chooses
<1> DEFINE left == IF automatic THEN Handlers!AutoCandidates(req[r].model)
                                ELSE Handlers!ManualCandidates(req[r].model, manual)
           q == [req[r] EXCEPT !.pc = "next", !.auto = automatic, !.left = left, !.unfit = unfit]
<1>2. req' = [req EXCEPT ![r] = q] \/ Handlers!Done(r, "unavailable")
  BY <1>1 DEF Handlers!SelectCandidates
<1>3. ~ Handlers!Done(r, "unavailable")
  <2>1. Ended(r, "unavailable").auto = FALSE
    BY DEF Ended, Handlers!Fresh
  <2>2. Handlers!Done(r, "unavailable") => req'[r] = Ended(r, "unavailable")
    BY DEF Handlers!Done, Ended, RestInv, Shapes
  <2> QED BY <2>1, <2>2
<1>4. req'[r] = q
  BY <1>2, <1>3 DEF RestInv, Shapes
<1> HIDE DEF left
<1>5. q.auto = automatic /\ q.left = left
  BY DEF RestInv, Shapes, Shaped, Fields
<1> HIDE DEF q
<1>6. p \in Handlers!AutoCandidates(req[r].model)
  BY <1>4, <1>5 DEF left
<1>7. p \in Handlers!OfModel(req[r].model) /\ ~ Handlers!Blacklisted(p, req[r].model)
  BY <1>6 DEF Handlers!AutoCandidates
<1>8. req[r].model \in Models /\ p \in Providers
  <2>1. req[r].model \in Models
    BY DEF RestInv
  <2>2. Routes[req[r].model] \in Seq(Providers)
    BY <2>1, RouterAssumption DEF Handlers!RouterConstants
  <2> QED BY <1>7, <2>1, <2>2 DEF Handlers!OfModel
<1>9. Listed(p, req[r].model) /\ resting[<<p, req[r].model>>] \in Nat
  BY <1>8 DEF RestInv, Lists
<1> QED BY <1>7, <1>9 DEF Listed, Handlers!Blacklisted, NoNumber

\* A Provider that has just failed rests: a request that gets its candidates in
\* automatic mode within the short cooldown does not have it among them.
THEOREM FailedProvidersRest == ASSUME Nothing, NoNumber PROVE Handlers!Spec => FailedProviderRests
<1> DEFINE Rested == \A r \in Requests :
                        req[r].pc = "reading" /\ req'[r].auto =>
                           \A p \in req'[r].left : resting[<<p, req[r].model>>] = 0
<1>1. RouterInv /\ RestInv /\ [Handlers!Next]_(Handlers!vars) => RouterInv' /\ RestInv'
  BY RestSteps
<1>2. RestInv /\ [Handlers!Next]_(Handlers!vars) => Rested
  <2> SUFFICES ASSUME RestInv, [Handlers!Next]_(Handlers!vars), NEW r \in Requests, req[r].pc = "reading", req'[r].auto
               PROVE  \A p \in req'[r].left : resting[<<p, req[r].model>>] = 0
    OBVIOUS
  <2>1. Chooses(r)
    BY RequestsStay DEF RestInv, Stays, Early
  <2> QED BY <2>1, NoneRests
<1>3. RestInv /\ [Handlers!Next]_(Handlers!vars) => [Rested]_(Handlers!vars)
  BY <1>2
<1>4. Handlers!Spec => [][Rested]_(Handlers!vars)
  <2> HIDE DEF Rested
  <2> QED BY <1>1, <1>3, RequestsStart, PTL DEF Handlers!Spec
<1> QED BY <1>4 DEF FailedProviderRests, Handlers!FailedProviderRests
=============================================================================
