--------------------------- MODULE Services_proofs ---------------------------
(***************************************************************************)
(* What is proved of a service alone holds of the instances that TLC       *)
(* checks: a step of one service leaves the variables of the others as     *)
(* they are, so every behaviour of the instances is one of each service.   *)
(***************************************************************************)
EXTENDS MCServices, WellFoundedInduction, TLAPS

-----------------------------------------------------------------------------
(* The takeover of Claude Code.                                            *)

\* No URL of the user's is the router's.
OwnUrls == Takeover!Router \notin Urls

\* What is written has been saved, nothing is saved of a file that points at the
\* router, and what was saved is given up when the file has been restored.
TakeoverInv ==
    /\ TakeoverSaved
    /\ step = "write" => Takeover!Saved
    /\ step = "forget" => settings.url # Takeover!Router
    /\ backup.url # Takeover!Router

\* As long as the settings point at the router, there is a copy or the marker to
\* restore them from, whatever failed or was interrupted before.
THEOREM RedirectedIsSaved == ASSUME OwnUrls PROVE Spec => []TakeoverSaved
<1> USE DEF Takeover!File, Takeover!Missing, Takeover!Router, Takeover!Saved, Takeover!Goto, Takeover!Fails
<1>1. Init => TakeoverInv
  BY DEF OwnUrls, Init, Takeover!Init, TakeoverInv, TakeoverSaved, Takeover!TakeoverSaved
<1>2. TakeoverInv /\ [Takeover!Next]_(Takeover!vars) => TakeoverInv'
  <2> SUFFICES ASSUME TakeoverInv, [Takeover!Next]_(Takeover!vars) PROVE TakeoverInv'
    OBVIOUS
  <2> USE DEF TakeoverInv, TakeoverSaved, Takeover!TakeoverSaved
  <2>1. CASE Takeover!Enable
    BY <2>1 DEF Takeover!Enable
  <2>2. CASE Takeover!EnsureBackup
    BY <2>2 DEF Takeover!EnsureBackup
  <2>3. CASE Takeover!WriteUrl
    BY <2>3 DEF Takeover!WriteUrl
  <2>4. CASE Takeover!Disable
    BY <2>4 DEF Takeover!Disable
  <2>5. CASE Takeover!Restore
    BY <2>5 DEF Takeover!Restore, Takeover!Original
  <2>6. CASE Takeover!Forget
    BY <2>6 DEF Takeover!Forget
  <2>7. CASE Takeover!Edit
    BY <2>7 DEF OwnUrls, Takeover!Edit
  <2>8. CASE Takeover!Crash
    BY <2>8 DEF Takeover!Crash
  <2>9. CASE UNCHANGED Takeover!vars
    BY <2>9 DEF Takeover!vars
  <2> QED BY <2>1, <2>2, <2>3, <2>4, <2>5, <2>6, <2>7, <2>8, <2>9 DEF Takeover!Next
<1>3. [Next]_vars => [Takeover!Next]_(Takeover!vars)
  BY DEF Next, vars, takeoverVars, Takeover!vars
<1>4. TakeoverInv => TakeoverSaved
  BY DEF TakeoverInv
<1> QED BY <1>1, <1>2, <1>3, <1>4, PTL DEF Spec

-----------------------------------------------------------------------------
(* The pointer of Codex.                                                   *)

LEMMA PointerRuns == Spec => Pointer!Spec
<1>1. Init => Pointer!Init
  BY DEF Init
<1>2. [Next]_vars => [Pointer!Next]_(Pointer!vars)
  BY DEF Next, vars, pointerVars, Pointer!vars
<1> QED BY <1>1, <1>2, PTL DEF Spec, Pointer!Spec

\* Whatever is done to the configuration of Codex, and wherever it is interrupted, all
\* that the user had in it is in one file.
THEOREM SettingsAreKept == Spec => []UserSettingsKept
<1>1. Pointer!Spec => []Pointer!UserSettingsKept
  BY Pointer!SettingsAreKept
<1> QED BY <1>1, PointerRuns, PTL DEF UserSettingsKept

\* Whom Codex was pointed away from is selected again.
THEOREM SelectionComesBack == Spec => SelectionRestored
<1>1. Pointer!Spec => Pointer!SelectionRestored
  BY Pointer!SelectionComesBack
<1> QED BY <1>1, PointerRuns, PTL DEF SelectionRestored

-----------------------------------------------------------------------------
(* The license.                                                            *)

LEMMA LicenseRuns == Spec => License!Spec
<1>1. Init => License!Init
  BY DEF Init
<1>2. [Next]_vars => [License!Next]_(License!vars)
  BY DEF Next, vars, licenseVars, License!vars
<1> QED BY <1>1, <1>2, PTL DEF Spec, License!Spec

\* No change of the license is lost between the one who asks for a publication and
\* leaves and the one who is emitting and stops.
THEOREM ChangesAreSettled == ASSUME License!Distinct PROVE Spec => []Settled
<1>1. License!Spec => []License!Settled
  BY License!ChangesAreSettled
<1> QED BY <1>1, LicenseRuns, PTL DEF Settled

\* A license that was never delivered is never acknowledged.
THEOREM AcksAreDelivered == ASSUME License!Distinct PROVE Spec => []AckIsDelivered
<1>1. License!Spec => []License!AckIsDelivered
  BY License!AcksAreDelivered
<1> QED BY <1>1, LicenseRuns, PTL DEF AckIsDelivered

-----------------------------------------------------------------------------
(* The automatic upload.                                                   *)

\* A change of the database that nobody has dealt with has a signal or a snapshot
\* yet to be built ahead of it, whatever signals are dropped.
THEOREM ChangesAreAnnounced == Spec => []ChangeIsAnnounced
<1>1. Init => Sync!ChangeIsAnnounced
  BY DEF Init, Sync!Init, Sync!ChangeIsAnnounced
<1>2. Sync!ChangeIsAnnounced /\ [Sync!Next]_(Sync!vars) => Sync!ChangeIsAnnounced'
  <2> SUFFICES ASSUME Sync!ChangeIsAnnounced, [Sync!Next]_(Sync!vars) PROVE Sync!ChangeIsAnnounced'
    OBVIOUS
  <2>1. CASE Sync!Change
    BY <2>1 DEF Sync!Change, Sync!ChangeIsAnnounced
  <2>2. CASE Sync!Worker
    <3>1. CASE Sync!Receive
      <4>1. worker' \notin {"waiting", "sending"}
        BY <3>1 DEF Sync!Receive
      <4> QED BY <4>1 DEF Sync!ChangeIsAnnounced
    <3>2. CASE Sync!Merge \/ Sync!TimeIsUp
      BY <3>2 DEF Sync!Merge, Sync!TimeIsUp, Sync!ChangeIsAnnounced
    <3>3. CASE Sync!Start \/ Sync!Build \/ Sync!PrepareFails
      BY <3>3 DEF Sync!Start, Sync!Build, Sync!PrepareFails, Sync!ChangeIsAnnounced
    <3>4. CASE Sync!Sent
      BY <3>4 DEF Sync!Sent, Sync!ChangeIsAnnounced
    <3> QED BY <2>2, <3>1, <3>2, <3>3, <3>4 DEF Sync!Worker
  <2>3. CASE Sync!Lock \/ Sync!Toggle \/ Sync!Tick
    BY <2>3 DEF Sync!Lock, Sync!Toggle, Sync!Tick, Sync!ChangeIsAnnounced
  <2>4. CASE \E c \in Sync!Manual : Sync!Call(c) \/ Sync!CommandLocks(c) \/ Sync!CommandEnds(c)
    <3>1. UNCHANGED <<signal, worker, owed>>
      BY <2>4 DEF Sync!Call, Sync!CommandLocks, Sync!CommandEnds, Sync!CommandUnlocks,
                  Sync!CommandReturns
    <3> QED BY <3>1 DEF Sync!ChangeIsAnnounced
  <2>5. CASE UNCHANGED Sync!vars
    BY <2>5 DEF Sync!vars, Sync!ChangeIsAnnounced
  <2> QED BY <2>1, <2>2, <2>3, <2>4, <2>5 DEF Sync!Next
<1>3. [Next]_vars => [Sync!Next]_(Sync!vars)
  BY DEF Next, vars, syncVars, Sync!vars
<1> QED BY <1>1, <1>2, <1>3, PTL DEF Spec, ChangeIsAnnounced

-----------------------------------------------------------------------------
(* The shared remote directory.                                            *)

Pairs == {"db", "skills"}
\* None is no snapshot.
Snapshot(x, y) == [db |-> x, skills |-> y]
NoPair == \A x, y : None # Snapshot(x, y)
IsPair(p) == DOMAIN p = Pairs /\ p = [x \in Pairs |-> p[x]]

\* The files of the remote directory.
AreFiles(r) == DOMAIN r = {"db", "skills", "manifest"} /\ r = [x \in DOMAIN r |-> r[x]]
OpFields == {"pc", "db", "skills", "manifest", "backup"}
IsOp(q) == DOMAIN q = OpFields /\ q = [x \in OpFields |-> q[x]]
Downloading == {"getDb", "getSkills", "apply", "import", "undo"}

CloudShapes ==
    /\ local = [d \in Devices |-> local[d]] /\ \A d \in Devices : IsPair(local[d])
    /\ op = [d \in Devices |-> op[d]]
    /\ \A d \in Devices : IsOp(op[d])
    /\ made = [d \in Devices |-> made[d]] /\ applied = [d \in Devices |-> applied[d]]
    /\ AreFiles(remote)
    /\ \A p \in built : p = Snapshot(p.db, p.skills)

\* A manifest is of one snapshot, and what has been fetched is what it names.
OneSnapshot(d) ==
    /\ op[d].pc \in Downloading => op[d].manifest \in built
    /\ op[d].pc \in {"getSkills", "apply", "import"} => op[d].db = op[d].manifest.db
    /\ op[d].pc \in {"apply", "import"} => op[d].skills = op[d].manifest.skills
    /\ op[d].pc \in {"putDb", "putSkills", "putManifest"} =>
          Snapshot(op[d].db, op[d].skills) \in built
    /\ applied[d] \in built \cup {None}

\* What a device may have, made there or downloaded as a whole.
Own(d, part) == made[d] \cup {p[part] : p \in {applied[d]} \ {None}}

\* The skills that are replaced before the import are put back if it fails.
Undone(d) == d \notin torn =>
    /\ local[d].db \in Own(d, "db")
    /\ op[d].pc \notin {"import", "undo"} => local[d].skills \in Own(d, "skills")
    /\ op[d].pc = "import" => local[d].skills \in made[d] \cup {op[d].skills}
    /\ op[d].pc \in {"import", "undo"} => op[d].backup \in Own(d, "skills")

CloudInv ==
    /\ CloudShapes /\ remote.manifest \in built \cup {None}
    /\ \A d \in Devices : OneSnapshot(d) /\ Undone(d)

LEMMA SnapshotParts == \A x, y : Snapshot(x, y).db = x /\ Snapshot(x, y).skills = y
  BY DEF Snapshot

LEMMA CloudStarts == Init => CloudInv
<1> SUFFICES ASSUME Init PROVE CloudInv
  OBVIOUS
<1>1. Cloud!Init
  BY DEF Init
<1>2. /\ remote.manifest = None /\ built = {}
      /\ \A d \in Devices : /\ op[d].pc = "idle" /\ applied[d] = None /\ made[d] = {0}
                            /\ local[d].db = 0 /\ local[d].skills = 0
  BY <1>1 DEF Cloud!Init, Cloud!Idle
<1>3. \A d \in Devices : IsPair(local[d]) /\ IsOp(op[d])
  BY <1>1 DEF Cloud!Init, Cloud!Idle, IsPair, Pairs, IsOp, OpFields
<1>4. CloudShapes
  BY <1>1, <1>2, <1>3 DEF Cloud!Init, CloudShapes, AreFiles
<1>5. ASSUME NEW d \in Devices PROVE OneSnapshot(d)
  BY <1>2 DEF OneSnapshot, Downloading
<1>6. ASSUME NEW d \in Devices PROVE Undone(d)
  BY <1>2 DEF Undone, Own
<1> QED BY <1>2, <1>4, <1>5, <1>6 DEF CloudInv

OnlyDevice(d) == \A e \in Devices \ {d} :
    op'[e] = op[e] /\ local'[e] = local[e] /\ made'[e] = made[e] /\ applied'[e] = applied[e]

\* What a step of one device has to keep.
LEMMA OneDevice ==
  ASSUME CloudInv, NEW d \in Devices, OnlyDevice(d), CloudShapes', built \subseteq built',
         torn' \in {torn, torn \cup {d}}, remote'.manifest \in built' \cup {None},
         OneSnapshot(d)', Undone(d)'
  PROVE  CloudInv'
<1>1. ASSUME NEW e \in Devices, e # d PROVE OneSnapshot(e)' /\ Undone(e)'
  <2>1. op'[e] = op[e] /\ local'[e] = local[e] /\ made'[e] = made[e] /\ applied'[e] = applied[e]
    BY <1>1 DEF OnlyDevice
  <2>2. OneSnapshot(e)'
    BY <2>1 DEF CloudInv, OneSnapshot
  <2>3. Undone(e)'
    BY <1>1, <2>1 DEF CloudInv, Undone, Own
  <2> QED BY <2>2, <2>3
<1>2. \A e \in Devices : OneSnapshot(e)' /\ Undone(e)'
  BY <1>1
<1> QED BY <1>2 DEF CloudInv

\* What a device is about to do changes, and perhaps what it has.
LEMMA DeviceGoes ==
  ASSUME CloudShapes, NEW d \in Devices, NEW q, IsOp(q), op' = [op EXCEPT ![d] = q],
         NEW has, IsPair(has), local' = [local EXCEPT ![d] = has],
         UNCHANGED made, NEW p, applied' = [applied EXCEPT ![d] = p], AreFiles(remote'),
         \A x \in built' \ built : x = Snapshot(x.db, x.skills)
  PROVE  /\ CloudShapes' /\ OnlyDevice(d)
         /\ op'[d] = q /\ local'[d] = has /\ applied'[d] = p /\ made'[d] = made[d]
<1>1. op' = [e \in Devices |-> op'[e]] /\ op'[d] = q /\ \A e \in Devices \ {d} : op'[e] = op[e]
  BY DEF CloudShapes
<1>2. local' = [e \in Devices |-> local'[e]] /\ local'[d] = has /\ \A e \in Devices \ {d} : local'[e] = local[e]
  BY DEF CloudShapes
<1>3. applied' = [e \in Devices |-> applied'[e]] /\ applied'[d] = p /\ \A e \in Devices \ {d} : applied'[e] = applied[e]
  BY DEF CloudShapes
<1>4. \A e \in Devices : IsOp(op'[e]) /\ IsPair(local'[e])
  BY <1>1, <1>2 DEF CloudShapes
<1>5. \A x \in built' : x = Snapshot(x.db, x.skills)
  BY DEF CloudShapes
<1>6. made' = [e \in Devices |-> made'[e]]
  BY DEF CloudShapes
<1>7. CloudShapes'
  BY <1>1, <1>2, <1>3, <1>4, <1>5, <1>6 DEF CloudShapes
<1> QED BY <1>1, <1>2, <1>3, <1>7 DEF OnlyDevice

\* The same of a step that downloads nothing.
LEMMA DeviceHas ==
  ASSUME CloudShapes, NEW d \in Devices, NEW q, IsOp(q), op' = [op EXCEPT ![d] = q],
         NEW has, IsPair(has), local' = [local EXCEPT ![d] = has],
         UNCHANGED <<made, applied, remote, built>>
  PROVE  CloudShapes' /\ OnlyDevice(d) /\ op'[d] = q /\ local'[d] = has
<1>1. applied' = [applied EXCEPT ![d] = applied[d]]
  BY DEF CloudShapes
<1>2. AreFiles(remote') /\ made' = made /\ built' \ built = {}
  BY DEF CloudShapes
<1> QED BY <1>1, <1>2, DeviceGoes

\* The same of a step that leaves what the device has alone.
LEMMA DeviceSteps ==
  ASSUME CloudShapes, NEW d \in Devices, NEW q, IsOp(q), op' = [op EXCEPT ![d] = q],
         UNCHANGED <<local, made, applied>>, AreFiles(remote'),
         \A x \in built' \ built : x = Snapshot(x.db, x.skills)
  PROVE  CloudShapes' /\ OnlyDevice(d) /\ op'[d] = q
<1>1. local' = [local EXCEPT ![d] = local[d]] /\ IsPair(local[d])
  BY DEF CloudShapes
<1>2. applied' = [applied EXCEPT ![d] = applied[d]]
  BY DEF CloudShapes
<1> QED BY <1>1, <1>2, DeviceGoes

LEMMA Going == ASSUME CloudShapes, NEW d \in Devices, NEW place
               PROVE LET q == [op[d] EXCEPT !.pc = place]
                     IN  /\ IsOp(q) /\ q.pc = place /\ q.db = op[d].db /\ q.skills = op[d].skills
                         /\ q.manifest = op[d].manifest /\ q.backup = op[d].backup
<1> DEFINE q == [op[d] EXCEPT !.pc = place]
<1>1. IsOp(q)
  BY DEF CloudShapes, IsOp
<1>2. q.pc = place /\ q.db = op[d].db /\ q.skills = op[d].skills /\ q.manifest = op[d].manifest /\ q.backup = op[d].backup
  BY DEF CloudShapes, OpFields
<1> QED BY <1>1, <1>2

LEMMA CloudIdle == IsOp(Cloud!Idle) /\ Cloud!Idle.pc = "idle"
  BY DEF Cloud!Idle, IsOp, OpFields

LEMMA CloudSteps == ASSUME NoPair, CloudInv, [Cloud!Next]_(Cloud!vars) PROVE CloudInv'
<1> CloudShapes
  BY DEF CloudInv
<1> AreFiles(remote)
  BY DEF CloudShapes
<1> USE DEF Cloud!At, Cloud!remembered
<1>1. ASSUME NEW d \in Devices, NEW place \in {"export", "getManifest"}, Cloud!Begin(d, place)
      PROVE CloudInv'
  <2> OneSnapshot(d) /\ Undone(d)
    BY DEF CloudInv
  <2> DEFINE q == [op[d] EXCEPT !.pc = place]
  <2>1. UNCHANGED <<local, remote, made, built, applied, torn>> /\ op[d].pc = "idle" /\ op' = [op EXCEPT ![d] = q]
    BY <1>1 DEF Cloud!Begin, Cloud!Goto
  <2>2. IsOp(q) /\ q.pc = place
    BY Going
  <2> HIDE DEF q
  <2>3. CloudShapes' /\ OnlyDevice(d) /\ op'[d] = q
    BY <2>1, <2>2, DeviceSteps
  <2>4. OneSnapshot(d)'
    BY <2>1, <2>2, <2>3 DEF OneSnapshot, Downloading
  <2>5. Undone(d)'
    BY <2>1, <2>2, <2>3 DEF Undone, Own
  <2> QED BY <2>1, <2>3, <2>4, <2>5, OneDevice DEF CloudInv
<1>2. ASSUME NEW d \in Devices, Cloud!Fails(d) PROVE CloudInv'
  <2> OneSnapshot(d) /\ Undone(d)
    BY DEF CloudInv
  <2>1. /\ UNCHANGED <<local, remote, made, built, applied, torn>> /\ op[d].pc \notin {"idle", "import", "undo"}
        /\ op' = [op EXCEPT ![d] = Cloud!Idle]
    BY <1>2 DEF Cloud!Fails, Cloud!Return
  <2>2. CloudShapes' /\ OnlyDevice(d) /\ op'[d] = Cloud!Idle
    BY <2>1, CloudIdle, DeviceSteps
  <2>3. OneSnapshot(d)'
    BY <2>1, <2>2, CloudIdle DEF OneSnapshot, Downloading
  <2>4. Undone(d)'
    BY <2>1, <2>2, CloudIdle DEF Undone, Own
  <2> QED BY <2>1, <2>2, <2>3, <2>4, OneDevice DEF CloudInv
<1>3. ASSUME NEW d \in Devices, NEW part \in Cloud!Part, Cloud!Edit(d, part) PROVE CloudInv'
  <2> OneSnapshot(d) /\ Undone(d)
    BY DEF CloudInv
  <2>1. /\ UNCHANGED <<remote, op, built, applied, torn>>
        /\ local' = [local EXCEPT ![d] = [local[d] EXCEPT ![part] = edits']]
        /\ made' = [made EXCEPT ![d] = made[d] \cup {edits'}]
    BY <1>3 DEF Cloud!Edit
  <2>2. /\ IsPair([local[d] EXCEPT ![part] = edits'])
        /\ [local[d] EXCEPT ![part] = edits'].db \in {local[d].db, edits'}
        /\ [local[d] EXCEPT ![part] = edits'].skills \in {local[d].skills, edits'}
    BY DEF CloudShapes, IsPair, Cloud!Part, Pairs
  <2>3. /\ CloudShapes' /\ OnlyDevice(d) /\ made'[d] = made[d] \cup {edits'}
        /\ local'[d] = [local[d] EXCEPT ![part] = edits'] /\ op'[d] = op[d] /\ applied'[d] = applied[d]
    BY <2>1, <2>2 DEF CloudShapes, OnlyDevice
  <2>4. OneSnapshot(d)'
    <3>1. OneSnapshot(d)
      OBVIOUS
    <3> QED BY <2>1, <2>3, <3>1 DEF OneSnapshot
  <2>5. Undone(d)'
    <3>1. Undone(d) /\ Own(d, "db") \subseteq Own(d, "db")' /\ Own(d, "skills") \subseteq Own(d, "skills")'
      BY <2>3 DEF Own
    <3>2. edits' \in made'[d] /\ edits' \in Own(d, "db")' /\ edits' \in Own(d, "skills")'
      BY <2>3 DEF Own
    <3> QED BY <2>1, <2>2, <2>3, <3>1, <3>2 DEF Undone
  <2> QED BY <2>1, <2>3, <2>4, <2>5, OneDevice DEF CloudInv
<1>4. ASSUME NEW d \in Devices, Cloud!Export(d) PROVE CloudInv'
  <2> OneSnapshot(d) /\ Undone(d)
    BY DEF CloudInv
  <2> DEFINE q == [op[d] EXCEPT !.pc = "pack", !.db = local[d].db]
  <2>1. UNCHANGED <<local, remote, made, built, applied, torn>> /\ op[d].pc = "export" /\ op' = [op EXCEPT ![d] = q]
    BY <1>4 DEF Cloud!Export
  <2>2. IsOp(q) /\ q.pc = "pack"
    BY DEF CloudShapes, IsOp, OpFields
  <2> HIDE DEF q
  <2>3. CloudShapes' /\ OnlyDevice(d) /\ op'[d] = q
    BY <2>1, <2>2, DeviceSteps
  <2>4. OneSnapshot(d)'
    BY <2>1, <2>2, <2>3 DEF OneSnapshot, Downloading
  <2>5. Undone(d)'
    BY <2>1, <2>2, <2>3 DEF Undone, Own
  <2> QED BY <2>1, <2>3, <2>4, <2>5, OneDevice DEF CloudInv
<1>5. ASSUME NEW d \in Devices, Cloud!Pack(d) PROVE CloudInv'
  <2> OneSnapshot(d) /\ Undone(d)
    BY DEF CloudInv
  <2> DEFINE q == [op[d] EXCEPT !.pc = "putDb", !.skills = local[d].skills]
  <2>1. /\ UNCHANGED <<local, remote, made, applied, torn>> /\ op[d].pc = "pack" /\ op' = [op EXCEPT ![d] = q]
        /\ built' = built \cup {Snapshot(op[d].db, local[d].skills)}
    BY <1>5 DEF Cloud!Pack, Snapshot
  <2>2. IsOp(q) /\ q.pc = "putDb" /\ q.db = op[d].db /\ q.skills = local[d].skills
    BY DEF CloudShapes, IsOp, OpFields
  <2> HIDE DEF q
  <2>3. CloudShapes' /\ OnlyDevice(d) /\ op'[d] = q
    <3>1. \A x \in built' \ built : x = Snapshot(x.db, x.skills)
      BY <2>1, SnapshotParts
    <3> QED BY <2>1, <2>2, <3>1, DeviceSteps
  <2>4. OneSnapshot(d)'
    BY <2>1, <2>2, <2>3 DEF OneSnapshot, Downloading
  <2>5. Undone(d)'
    BY <2>1, <2>2, <2>3 DEF Undone, Own
  <2> QED BY <2>1, <2>3, <2>4, <2>5, OneDevice DEF CloudInv
<1>6. ASSUME NEW d \in Devices, NEW name \in Cloud!Part, NEW content, NEW next \in {"putSkills", "putManifest"},
             op[d].pc \in {"putDb", "putSkills"}, Cloud!Put(d, name, content, next)
      PROVE CloudInv'
  <2> OneSnapshot(d) /\ Undone(d)
    BY DEF CloudInv
  <2>1. UNCHANGED <<local, made, built, applied, torn>> /\ remote' = [remote EXCEPT ![name] = content]
    BY <1>6 DEF Cloud!Put
  <2>2. /\ AreFiles(remote')
        /\ remote'.manifest = remote.manifest
    BY <2>1 DEF CloudShapes, AreFiles, Cloud!Part
  <2>3. PICK q : /\ IsOp(q) /\ op' = [op EXCEPT ![d] = q]
                 /\ \/ q.pc = "idle"
                    \/ q.pc = next /\ q.db = op[d].db /\ q.skills = op[d].skills
    <3>1. CASE op' = [op EXCEPT ![d] = [op[d] EXCEPT !.pc = next]]
      <4> DEFINE q == [op[d] EXCEPT !.pc = next]
      <4>1. IsOp(q) /\ q.pc = next /\ q.db = op[d].db /\ q.skills = op[d].skills
        BY Going
      <4>2. op' = [op EXCEPT ![d] = q]
        BY <3>1
      <4> HIDE DEF q
      <4> QED BY <4>1, <4>2
    <3>2. CASE op' = [op EXCEPT ![d] = Cloud!Idle]
      BY <3>2, CloudIdle
    <3> QED BY <1>6, <3>1, <3>2 DEF Cloud!Put, Cloud!Goto, Cloud!Return
  <2>4. CloudShapes' /\ OnlyDevice(d) /\ op'[d] = q
    BY <2>1, <2>2, <2>3, DeviceSteps
  <2>5. OneSnapshot(d)'
    BY <1>6, <2>1, <2>3, <2>4 DEF OneSnapshot, Downloading
  <2>6. Undone(d)'
    BY <1>6, <2>1, <2>3, <2>4 DEF Undone, Own
  <2> QED BY <2>1, <2>2, <2>4, <2>5, <2>6, OneDevice DEF CloudInv
<1>7. ASSUME NEW d \in Devices, Cloud!PutManifest(d) PROVE CloudInv'
  <2> OneSnapshot(d) /\ Undone(d)
    BY DEF CloudInv
  <2>1. /\ UNCHANGED <<local, made, built, applied, torn>> /\ op[d].pc = "putManifest"
        /\ op' = [op EXCEPT ![d] = Cloud!Idle]
        /\ remote' = [remote EXCEPT !.manifest = Snapshot(op[d].db, op[d].skills)]
    BY <1>7 DEF Cloud!PutManifest, Cloud!Return, Cloud!Pair, Snapshot
  <2>2. /\ AreFiles(remote')
        /\ remote'.manifest \in built
    BY <2>1 DEF CloudShapes, AreFiles, OneSnapshot
  <2>3. CloudShapes' /\ OnlyDevice(d) /\ op'[d] = Cloud!Idle
    BY <2>1, <2>2, CloudIdle, DeviceSteps
  <2>4. OneSnapshot(d)'
    BY <2>1, <2>3, CloudIdle DEF OneSnapshot, Downloading
  <2>5. Undone(d)'
    BY <2>1, <2>3, CloudIdle DEF Undone, Own
  <2> QED BY <2>1, <2>2, <2>3, <2>4, <2>5, OneDevice
<1>8. ASSUME NEW d \in Devices, Cloud!GetManifest(d) PROVE CloudInv'
  <2> OneSnapshot(d) /\ Undone(d)
    BY DEF CloudInv
  <2> DEFINE q == [op[d] EXCEPT !.pc = "getDb", !.manifest = remote.manifest]
  <2>1. /\ UNCHANGED <<local, remote, made, built, applied, torn>> /\ op[d].pc = "getManifest"
        /\ remote.manifest # None /\ op' = [op EXCEPT ![d] = q]
    BY <1>8 DEF Cloud!GetManifest
  <2>2. IsOp(q) /\ q.pc = "getDb" /\ q.manifest = remote.manifest
    BY DEF CloudShapes, IsOp, OpFields
  <2> HIDE DEF q
  <2>3. CloudShapes' /\ OnlyDevice(d) /\ op'[d] = q
    BY <2>1, <2>2, DeviceSteps
  <2>4. OneSnapshot(d)'
    BY <2>1, <2>2, <2>3 DEF OneSnapshot, Downloading, CloudInv
  <2>5. Undone(d)'
    BY <2>1, <2>2, <2>3 DEF Undone, Own
  <2> QED BY <2>1, <2>3, <2>4, <2>5, OneDevice DEF CloudInv
<1>9. ASSUME NEW d \in Devices, Cloud!GetDb(d) PROVE CloudInv'
  <2> OneSnapshot(d) /\ Undone(d)
    BY DEF CloudInv
  <2> DEFINE q == [op[d] EXCEPT !.pc = "getSkills", !.db = remote.db]
  <2>1. /\ UNCHANGED <<local, remote, made, built, applied, torn>> /\ op[d].pc = "getDb"
        /\ remote.db = op[d].manifest.db /\ op' = [op EXCEPT ![d] = q]
    BY <1>9 DEF Cloud!GetDb, Cloud!Get, Cloud!Verified
  <2>2. IsOp(q) /\ q.pc = "getSkills" /\ q.manifest = op[d].manifest /\ q.db = remote.db
    BY DEF CloudShapes, IsOp, OpFields
  <2> HIDE DEF q
  <2>3. CloudShapes' /\ OnlyDevice(d) /\ op'[d] = q
    BY <2>1, <2>2, DeviceSteps
  <2>4. OneSnapshot(d)'
    <3>1. /\ op'[d].pc = "getSkills" /\ op'[d].manifest = op[d].manifest
          /\ op'[d].db = op[d].manifest.db /\ built' = built /\ applied'[d] = applied[d]
      BY <2>1, <2>2, <2>3
    <3>2. op[d].manifest \in built /\ applied[d] \in built \cup {None}
      BY <2>1 DEF OneSnapshot, Downloading
    <3> QED BY <3>1, <3>2 DEF OneSnapshot, Downloading
  <2>5. Undone(d)'
    BY <2>1, <2>2, <2>3 DEF Undone, Own
  <2> QED BY <2>1, <2>3, <2>4, <2>5, OneDevice DEF CloudInv
<1>10. ASSUME NEW d \in Devices, Cloud!GetSkills(d) PROVE CloudInv'
  <2> OneSnapshot(d) /\ Undone(d)
    BY DEF CloudInv
  <2> DEFINE q == [op[d] EXCEPT !.pc = "apply", !.skills = remote.skills]
  <2>1. /\ UNCHANGED <<local, remote, made, built, applied, torn>> /\ op[d].pc = "getSkills"
        /\ remote.skills = op[d].manifest.skills /\ op' = [op EXCEPT ![d] = q]
    BY <1>10 DEF Cloud!GetSkills, Cloud!Get, Cloud!Verified
  <2>2. IsOp(q) /\ q.pc = "apply" /\ q.manifest = op[d].manifest /\ q.db = op[d].db /\ q.skills = remote.skills
    BY DEF CloudShapes, IsOp, OpFields
  <2> HIDE DEF q
  <2>3. CloudShapes' /\ OnlyDevice(d) /\ op'[d] = q
    BY <2>1, <2>2, DeviceSteps
  <2>4. OneSnapshot(d)'
    BY <2>1, <2>2, <2>3 DEF OneSnapshot, Downloading
  <2>5. Undone(d)'
    BY <2>1, <2>2, <2>3 DEF Undone, Own
  <2> QED BY <2>1, <2>3, <2>4, <2>5, OneDevice DEF CloudInv
<1>11. ASSUME NEW d \in Devices, Cloud!ReplaceSkills(d) PROVE CloudInv'
  <2> OneSnapshot(d) /\ Undone(d)
    BY DEF CloudInv
  <2> DEFINE q == [op[d] EXCEPT !.pc = "import", !.backup = local[d].skills]
             has == [local[d] EXCEPT !.skills = op[d].skills]
  <2>1. /\ UNCHANGED <<remote, made, built, applied, torn>> /\ op[d].pc = "apply"
        /\ op' = [op EXCEPT ![d] = q] /\ local' = [local EXCEPT ![d] = has]
    BY <1>11 DEF Cloud!ReplaceSkills
  <2>2. /\ IsOp(q) /\ q.pc = "import" /\ q.manifest = op[d].manifest /\ q.db = op[d].db
        /\ q.skills = op[d].skills /\ q.backup = local[d].skills
    BY DEF CloudShapes, IsOp, OpFields
  <2>3. IsPair(has) /\ has.db = local[d].db /\ has.skills = op[d].skills
    BY DEF CloudShapes, IsPair, Pairs
  <2> HIDE DEF q, has
  <2>4. CloudShapes' /\ OnlyDevice(d) /\ op'[d] = q /\ local'[d] = has
    BY <2>1, <2>2, <2>3, DeviceHas
  <2>5. OneSnapshot(d)'
    BY <2>1, <2>2, <2>4 DEF OneSnapshot, Downloading
  <2>6. Undone(d)'
    BY <2>1, <2>2, <2>3, <2>4 DEF Undone, Own
  <2> QED BY <2>1, <2>4, <2>5, <2>6, OneDevice DEF CloudInv
<1>12. ASSUME NEW d \in Devices, Cloud!Import(d) PROVE CloudInv'
  <2> OneSnapshot(d) /\ Undone(d)
    BY DEF CloudInv
  <2> DEFINE p == Snapshot(op[d].db, op[d].skills)
             has == [local[d] EXCEPT !.db = op[d].db]
  <2>1. /\ UNCHANGED <<remote, made, built, torn>> /\ op[d].pc = "import"
        /\ op' = [op EXCEPT ![d] = Cloud!Idle] /\ local' = [local EXCEPT ![d] = has]
        /\ applied' = [applied EXCEPT ![d] = p]
    BY <1>12 DEF Cloud!Import, Cloud!Return, Cloud!Pair, Snapshot
  <2>2. p \in built
    <3>1. op[d].manifest \in built /\ op[d].db = op[d].manifest.db /\ op[d].skills = op[d].manifest.skills
      BY <2>1 DEF OneSnapshot, Downloading
    <3> QED BY <3>1 DEF CloudShapes
  <2>3. p # None /\ p.db = op[d].db /\ p.skills = op[d].skills
    BY SnapshotParts DEF NoPair
  <2>4. IsPair(has) /\ has.db = op[d].db /\ has.skills = local[d].skills
    BY DEF CloudShapes, IsPair, Pairs
  <2>5. d \notin torn => local[d].skills \in made[d] \cup {op[d].skills}
    BY <2>1 DEF Undone
  <2> HIDE DEF p, has
  <2>6. CloudShapes' /\ OnlyDevice(d) /\ op'[d] = Cloud!Idle /\ local'[d] = has /\ applied'[d] = p
    BY <2>1, <2>4, CloudIdle, DeviceGoes
  <2>7. OneSnapshot(d)'
    BY <2>1, <2>2, <2>6, CloudIdle DEF OneSnapshot, Downloading
  <2>8. p.db \in Own(d, "db")' /\ p.skills \in Own(d, "skills")' /\ made[d] \subseteq Own(d, "skills")'
    BY <2>1, <2>3, <2>6 DEF Own
  <2>9. Undone(d)'
    BY <2>1, <2>3, <2>4, <2>5, <2>6, <2>8, CloudIdle DEF Undone
  <2> QED BY <2>1, <2>6, <2>7, <2>9, OneDevice DEF CloudInv
<1>13. ASSUME NEW d \in Devices, Cloud!ImportFails(d) PROVE CloudInv'
  <2> OneSnapshot(d) /\ Undone(d)
    BY DEF CloudInv
  <2> DEFINE q == [op[d] EXCEPT !.pc = "undo"]
  <2>1. UNCHANGED <<local, remote, made, built, applied, torn>> /\ op[d].pc = "import" /\ op' = [op EXCEPT ![d] = q]
    BY <1>13 DEF Cloud!ImportFails, Cloud!Goto
  <2>2. IsOp(q) /\ q.pc = "undo" /\ q.manifest = op[d].manifest /\ q.backup = op[d].backup
    BY Going
  <2> HIDE DEF q
  <2>3. CloudShapes' /\ OnlyDevice(d) /\ op'[d] = q
    BY <2>1, <2>2, DeviceSteps
  <2>4. OneSnapshot(d)'
    BY <2>1, <2>2, <2>3 DEF OneSnapshot, Downloading
  <2>5. Undone(d)'
    BY <2>1, <2>2, <2>3 DEF Undone, Own
  <2> QED BY <2>1, <2>3, <2>4, <2>5, OneDevice DEF CloudInv
<1>14. ASSUME NEW d \in Devices, Cloud!Undo(d) PROVE CloudInv'
  <2> OneSnapshot(d) /\ Undone(d)
    BY DEF CloudInv
  <2> DEFINE has == [local[d] EXCEPT !.skills = op[d].backup]
  <2>1. /\ UNCHANGED <<remote, made, built, applied, torn>> /\ op[d].pc = "undo"
        /\ op' = [op EXCEPT ![d] = Cloud!Idle] /\ local' = [local EXCEPT ![d] = has]
    BY <1>14 DEF Cloud!Undo, Cloud!Return
  <2>2. IsPair(has) /\ has.db = local[d].db /\ has.skills = op[d].backup
    BY DEF CloudShapes, IsPair, Pairs
  <2> HIDE DEF has
  <2>3. CloudShapes' /\ OnlyDevice(d) /\ op'[d] = Cloud!Idle /\ local'[d] = has
    BY <2>1, <2>2, CloudIdle, DeviceHas
  <2>4. OneSnapshot(d)'
    BY <2>1, <2>3, CloudIdle DEF OneSnapshot, Downloading
  <2>5. Undone(d)'
    BY <2>1, <2>2, <2>3, CloudIdle DEF Undone, Own
  <2> QED BY <2>1, <2>3, <2>4, <2>5, OneDevice DEF CloudInv
<1>15. ASSUME NEW d \in Devices, Cloud!Tears(d) PROVE CloudInv'
  <2> OneSnapshot(d) /\ Undone(d)
    BY DEF CloudInv
  <2>1. /\ UNCHANGED <<local, remote, made, built, applied>> /\ torn' = torn \cup {d}
        /\ op' = [op EXCEPT ![d] = Cloud!Idle]
    BY <1>15 DEF Cloud!Tears, Cloud!Return
  <2>2. CloudShapes' /\ OnlyDevice(d) /\ op'[d] = Cloud!Idle
    BY <2>1, CloudIdle, DeviceSteps
  <2>3. OneSnapshot(d)'
    BY <2>1, <2>2, CloudIdle DEF OneSnapshot, Downloading
  <2>4. Undone(d)'
    BY <2>1 DEF Undone
  <2> QED BY <2>1, <2>2, <2>3, <2>4, OneDevice DEF CloudInv
<1>16. CASE UNCHANGED Cloud!vars
  <2>1. UNCHANGED <<local, remote, op, made, built, applied, torn>>
    BY <1>16 DEF Cloud!vars
  <2> QED BY <2>1 DEF CloudInv, CloudShapes, OneSnapshot, Undone, Own
<1>17. ASSUME NEW d \in Devices, Cloud!Upload(d) PROVE CloudInv'
  <2>1. CASE Cloud!PutDb(d)
    <3>1. op[d].pc = "putDb" /\ Cloud!Put(d, "db", op[d].db, "putSkills")
      BY <2>1 DEF Cloud!PutDb
    <3> QED BY <1>6, <3>1 DEF Cloud!Part
  <2>2. CASE Cloud!PutSkills(d)
    <3>1. op[d].pc = "putSkills" /\ Cloud!Put(d, "skills", op[d].skills, "putManifest")
      BY <2>2 DEF Cloud!PutSkills
    <3> QED BY <1>6, <3>1 DEF Cloud!Part
  <2> QED BY <1>4, <1>5, <1>7, <1>17, <2>1, <2>2 DEF Cloud!Upload
<1>18. ASSUME NEW d \in Devices, Cloud!Download(d) PROVE CloudInv'
  BY <1>8, <1>9, <1>10, <1>11, <1>12, <1>13, <1>14, <1>15, <1>18 DEF Cloud!Download
<1> QED BY <1>1, <1>2, <1>3, <1>16, <1>17, <1>18 DEF Cloud!Next

LEMMA CloudRuns == ASSUME NoPair PROVE Spec => []CloudInv
<1>1. [Next]_vars => [Cloud!Next]_(Cloud!vars)
  BY DEF Next, vars, cloudVars, Cloud!vars
<1>2. CloudInv /\ [Next]_vars => CloudInv'
  BY <1>1, CloudSteps
<1> QED BY <1>2, CloudStarts, PTL DEF Spec

\* Whatever two devices put over each other, a download applies a database and
\* skills that were one snapshot of one device.
THEOREM DownloadsAreWhole == ASSUME NoPair PROVE Spec => []AppliedIsWhole
<1>1. CloudInv => AppliedIsWhole
  BY DEF CloudInv, OneSnapshot, AppliedIsWhole, Cloud!AppliedIsWhole
<1> QED BY <1>1, CloudRuns, PTL

\* A download that fails leaves the device what it had.
THEOREM FailedDownloadsAreUndone == ASSUME NoPair PROVE Spec => []NothingHalfApplied
<1>1. CloudInv => NothingHalfApplied
  BY DEF CloudInv, Undone, Own, NothingHalfApplied, Cloud!NothingHalfApplied, Cloud!At, Cloud!Part
<1> QED BY <1>1, CloudRuns, PTL

-----------------------------------------------------------------------------
(* The ChatGPT accounts.                                                   *)

\* The holder of the persistence lock is told from nobody.
Somebody == OAuth!Nobody \notin Procs

TokenFields == {"login", "turn"}
IsToken(t) == DOMAIN t = TokenFields /\ t = [x \in TokenFields |-> t[x]] /\ t.login \in Nat
CallFields == {"pc", "account", "token", "lock", "ends"}
IsCall(c) == DOMAIN c = CallFields /\ c = [x \in CallFields |-> c[x]]
Writing == {"addToken", "persist", "persistToken"}
Ending == {"addToken", "persist"}
OfAccount == {"lock", "locked", "sent", "answered", "persistToken", "addToken"}

\* Each login is of one account, and no login is of the future.
Known(table) ==
    /\ table = [a \in Accounts |-> table[a]]
    /\ \A a \in Accounts :
        /\ IsToken(table[a]) /\ table[a].login <= logins
        /\ table[a].login = 0 => table[a] = OAuth!NoToken
    /\ \A a, b \in Accounts : a # b /\ table[a].login # 0 => table[a].login # table[b].login

\* Only the holder of the persistence lock is between a change and its write, and
\* what it ends is no longer there, but for the access token it has yet to replace.
CallInv(p) ==
    /\ IsCall(proc[p])
    /\ proc[p].pc \in OfAccount => proc[p].account \in Accounts
    /\ proc[p].pc \in {"sent", "answered"} => proc[p].token # OAuth!NoToken
    /\ proc[p].pc \in Writing => persisting = p
    /\ proc[p].pc \notin Ending => proc[p].ends = {}
    /\ proc[p].ends \subseteq 1..logins
    /\ \A b \in Accounts :
        /\ accounts[b].login \notin proc[p].ends
        /\ cached[b] \in proc[p].ends => proc[p].pc = "addToken" /\ proc[p].account = b

CacheInv(b) ==
    \/ cached[b] \in {0, accounts[b].login}
    \/ \E p \in Procs : proc[p].pc = "addToken" /\ proc[p].account = b

OAuthInv ==
    /\ logins \in Nat /\ gone \subseteq 1..logins
    /\ Known(accounts) /\ Known(disk)
    /\ cached = [a \in Accounts |-> cached[a]] /\ \A b \in Accounts : CacheInv(b)
    /\ proc = [p \in Procs |-> proc[p]] /\ \A p \in Procs : CallInv(p)
    /\ OAuth!RemovedStaysAway /\ OAuth!FileKeepsUp

LEMMA NoTokenIsToken == IsToken(OAuth!NoToken) /\ OAuth!NoToken.login = 0
  BY DEF OAuth!NoToken, IsToken, TokenFields

LEMMA CallIsCall ==
  ASSUME NEW place, NEW a
  PROVE  IsCall(OAuth!Call(place, a)) /\ OAuth!Call(place, a).pc = place /\ OAuth!Call(place, a).ends = {}
  BY DEF OAuth!Call, IsCall, CallFields

LEMMA OAuthIdle == IsCall(OAuth!Idle) /\ OAuth!Idle.pc = "idle" /\ OAuth!Idle.ends = {}
<1> DEFINE some == CHOOSE a \in Accounts : TRUE
<1>1. OAuth!Idle = OAuth!Call("idle", some)
  BY DEF OAuth!Idle
<1> HIDE DEF some
<1> QED BY <1>1, CallIsCall

LEMMA OAuthStarts == Init => OAuthInv
<1> SUFFICES ASSUME Init PROVE OAuthInv
  OBVIOUS
<1>1. OAuth!Init
  BY DEF Init
<1>2. /\ accounts = [a \in Accounts |-> OAuth!NoToken] /\ disk = accounts /\ gone = {} /\ logins = 0
      /\ cached = [a \in Accounts |-> 0] /\ proc = [p \in Procs |-> OAuth!Idle]
  BY <1>1 DEF OAuth!Init, OAuth!NoAccounts
<1>3. Known(accounts) /\ Known(disk)
  BY <1>2, NoTokenIsToken DEF Known
<1>4. \A b \in Accounts : CacheInv(b)
  BY <1>2 DEF CacheInv
<1>5. \A p \in Procs : CallInv(p)
  BY <1>2, OAuthIdle DEF CallInv, OfAccount, Writing
<1>6. OAuth!RemovedStaysAway /\ OAuth!FileKeepsUp
  BY <1>2 DEF OAuth!RemovedStaysAway, OAuth!FileKeepsUp
<1> QED BY <1>2, <1>3, <1>4, <1>5, <1>6 DEF OAuthInv

\* A call that goes on without the persistence lock.
LEMMA OAuthGoes ==
  ASSUME OAuthInv, NEW p \in Procs, NEW q, IsCall(q), q.pc \notin Writing, q.ends = {},
         q.pc \in OfAccount => q.account \in Accounts,
         q.pc \in {"sent", "answered"} => q.token # OAuth!NoToken, proc[p].pc \notin Writing,
         proc' = [proc EXCEPT ![p] = q],
         UNCHANGED <<accounts, cached, disk, persisting, logins, gone>>, behind => behind'
  PROVE  OAuthInv'
<1>1. UNCHANGED <<accounts, cached, disk, persisting, logins, gone>> /\ (behind => behind')
  OBVIOUS
<1>2. /\ proc' = [r \in Procs |-> proc'[r]] /\ proc'[p] = q
      /\ \A r \in Procs \ {p} : proc'[r] = proc[r]
  BY DEF OAuthInv
<1>3. CallInv(p)'
  BY <1>1, <1>2 DEF CallInv, Writing, Ending
<1>4. \A r \in Procs \ {p} : CallInv(r)'
  BY <1>1, <1>2 DEF CallInv, OAuthInv
<1>5. ASSUME NEW b \in Accounts PROVE CacheInv(b)'
  <2>1. CASE cached[b] \in {0, accounts[b].login}
    BY <2>1, <1>1 DEF CacheInv
  <2>2. CASE \E r \in Procs : proc[r].pc = "addToken" /\ proc[r].account = b
    BY <2>2, <1>2 DEF CacheInv, Writing
  <2> QED BY <2>1, <2>2 DEF OAuthInv, CacheInv
<1>6. Known(accounts)' /\ Known(disk)'
  BY <1>1 DEF Known, OAuthInv
<1>7. OAuth!RemovedStaysAway' /\ OAuth!FileKeepsUp'
  BY <1>1 DEF OAuth!RemovedStaysAway, OAuth!FileKeepsUp, OAuthInv
<1>8. logins' \in Nat /\ gone' \subseteq 1..logins' /\ cached' = [a \in Accounts |-> cached'[a]]
  BY <1>1 DEF OAuthInv
<1>9. (\A r \in Procs : CallInv(r)') /\ (\A b \in Accounts : CacheInv(b)')
  BY <1>3, <1>4, <1>5
<1> QED BY <1>2, <1>6, <1>7, <1>8, <1>9 DEF OAuthInv

\* What a step of one call that may change the accounts has to keep.
LEMMA OAuthChanges ==
  ASSUME OAuthInv, NEW p \in Procs, NEW q, proc' = [proc EXCEPT ![p] = q],
         logins' \in Nat, logins <= logins', gone' \subseteq 1..logins', Known(accounts)', Known(disk)',
         cached' = [a \in Accounts |-> cached'[a]], \A b \in Accounts : CacheInv(b)',
         CallInv(p)', \A r \in Procs \ {p} : proc[r].pc \notin Writing,
         OAuth!RemovedStaysAway', OAuth!FileKeepsUp'
  PROVE  OAuthInv'
<1>1. /\ proc' = [r \in Procs |-> proc'[r]] /\ proc'[p] = q
      /\ \A r \in Procs \ {p} : proc'[r] = proc[r]
  BY DEF OAuthInv
<1>2. ASSUME NEW r \in Procs, r # p PROVE CallInv(r)'
  <2>1. CallInv(r) /\ proc'[r] = proc[r] /\ proc[r].pc \notin Writing /\ proc[r].ends = {}
    BY <1>1, <1>2 DEF OAuthInv, CallInv, Writing, Ending
  <2> QED BY <2>1 DEF CallInv
<1>3. \A r \in Procs : CallInv(r)'
  BY <1>2
<1> QED BY <1>1, <1>3 DEF OAuthInv

LEMMA OAuthSteps == ASSUME Somebody, OAuthInv, [OAuth!Next]_(OAuth!vars) PROVE OAuthInv'
<1> USE DEF OAuth!At
<1> Known(accounts) /\ Known(disk) /\ logins \in Nat /\ OAuth!RemovedStaysAway /\ OAuth!FileKeepsUp
  BY DEF OAuthInv
<1>1. ASSUME NEW p \in Procs, NEW a \in Accounts, OAuth!Begin(p, a) PROVE OAuthInv'
  <2> DEFINE q == [OAuth!Call("lock", a) EXCEPT !.lock = lockOf[a]]
  <2>1. proc[p].pc = "idle" /\ proc' = [proc EXCEPT ![p] = q] /\ UNCHANGED OAuth!memory
    BY <1>1 DEF OAuth!Begin
  <2>2. IsCall(q) /\ q.pc = "lock" /\ q.ends = {} /\ q.account = a
    BY DEF IsCall, CallFields, OAuth!Call
  <2> HIDE DEF q
  <2> QED BY <2>1, <2>2, OAuthGoes DEF Writing, OAuth!memory
<1>2. ASSUME NEW p \in Procs, NEW q, IsCall(q), q.pc \in {"locked", "sent", "answered"},
             q.ends = proc[p].ends, q.account = proc[p].account,
             q.pc # "locked" => q.token # OAuth!NoToken,
             proc[p].pc \in {"lock", "locked", "sent"},
             proc' = [proc EXCEPT ![p] = q] \/ proc' = [proc EXCEPT ![p] = OAuth!Idle],
             UNCHANGED OAuth!memory
      PROVE  OAuthInv'
  <2>1. CallInv(p)
    BY DEF OAuthInv
  <2>2. proc[p].ends = {} /\ proc[p].account \in Accounts /\ proc[p].pc \notin Writing
    BY <1>2, <2>1 DEF CallInv, Ending, OfAccount, Writing
  <2>3. CASE proc' = [proc EXCEPT ![p] = q]
    BY <1>2, <2>2, <2>3, OAuthGoes DEF Writing, OAuth!memory
  <2>4. CASE proc' = [proc EXCEPT ![p] = OAuth!Idle]
    BY <1>2, <2>2, <2>4, OAuthGoes, OAuthIdle DEF Writing, OfAccount, OAuth!memory
  <2> QED BY <1>2, <2>3, <2>4
<1>3. ASSUME NEW p \in Procs, NEW place, <<proc[p].pc, place>> \in {<<"lock", "locked">>, <<"sent", "answered">>},
             OAuth!Goto(p, place) \/ OAuth!Return(p), UNCHANGED OAuth!memory
      PROVE  OAuthInv'
  <2> DEFINE q == [proc[p] EXCEPT !.pc = place]
  <2>1. /\ IsCall(q) /\ q.pc = place /\ q.ends = proc[p].ends /\ q.account = proc[p].account
        /\ q.token = proc[p].token
    BY DEF OAuthInv, CallInv, IsCall, CallFields
  <2>2. proc' = [proc EXCEPT ![p] = q] \/ proc' = [proc EXCEPT ![p] = OAuth!Idle]
    BY <1>3 DEF OAuth!Goto, OAuth!Return
  <2> HIDE DEF q
  <2>3. place = "answered" => proc[p].token # OAuth!NoToken
    BY <1>3 DEF OAuthInv, CallInv
  <2> QED BY <1>2, <1>3, <2>1, <2>2, <2>3
<1>4. ASSUME NEW p \in Procs, OAuth!TakeRefreshLock(p) PROVE OAuthInv'
  BY <1>3, <1>4 DEF OAuth!TakeRefreshLock
<1>5. ASSUME NEW p \in Procs, OAuth!RefreshAnswered(p) PROVE OAuthInv'
  BY <1>3, <1>5 DEF OAuth!RefreshAnswered
<1>6. ASSUME NEW p \in Procs, OAuth!SendRefresh(p) PROVE OAuthInv'
  <2> DEFINE q == [proc[p] EXCEPT !.pc = "sent", !.token = accounts[proc[p].account]]
  <2>1. /\ IsCall(q) /\ q.pc = "sent" /\ q.ends = proc[p].ends /\ q.account = proc[p].account
        /\ q.token = accounts[proc[p].account]
    BY DEF OAuthInv, CallInv, IsCall, CallFields
  <2>2. CASE OAuth!Present(proc[p].account) /\ cached[proc[p].account] = 0
    <3>1. proc' = [proc EXCEPT ![p] = q] /\ proc[p].pc = "locked" /\ UNCHANGED OAuth!memory
      BY <1>6, <2>2 DEF OAuth!SendRefresh
    <3>2. q.token # OAuth!NoToken
      BY <2>1, <2>2 DEF OAuth!Present
    <3> HIDE DEF q
    <3> QED BY <1>2, <2>1, <3>1, <3>2
  <2>3. CASE ~ (OAuth!Present(proc[p].account) /\ cached[proc[p].account] = 0)
    <3>1. proc' = [proc EXCEPT ![p] = OAuth!Idle] /\ proc[p].pc = "locked" /\ UNCHANGED OAuth!memory
      BY <1>6, <2>3 DEF OAuth!SendRefresh, OAuth!Return
    <3> QED BY <3>1, OAuthGoes, OAuthIdle DEF Writing, OfAccount, OAuth!memory
  <2> QED BY <2>2, <2>3
<1>7. ASSUME NEW p \in Procs, NEW rotated \in BOOLEAN, NEW metadata \in BOOLEAN,
             OAuth!CommitRefresh(p, rotated, metadata)
      PROVE  OAuthInv'
  <2> DEFINE a == proc[p].account
             t == [proc[p].token EXCEPT !.turn = IF rotated THEN @ + 1 ELSE @]
             q == [proc[p] EXCEPT !.pc = "persistToken"]
  <2>1. /\ proc[p].pc = "answered" /\ persisting = OAuth!Nobody
        /\ UNCHANGED <<disk, lockOf, logins, gone, behind>>
    BY <1>7 DEF OAuth!CommitRefresh
  <2>2. CallInv(p) /\ a \in Accounts /\ proc[p].ends = {} /\ proc[p].token # OAuth!NoToken
    BY <2>1 DEF OAuthInv, CallInv, OfAccount, Ending
  <2>3. \A r \in Procs : proc[r].pc \notin Writing
    BY <2>1 DEF OAuthInv, CallInv, Somebody
  <2>4. CASE ~ OAuth!StillThatLogin(p)
    <3>1. proc' = [proc EXCEPT ![p] = OAuth!Idle] /\ UNCHANGED OAuth!memory
      BY <1>7, <2>4 DEF OAuth!CommitRefresh, OAuth!Return, OAuth!memory
    <3> QED BY <2>3, <3>1, OAuthGoes, OAuthIdle DEF Writing, OfAccount, OAuth!memory
  <2>5. CASE OAuth!StillThatLogin(p)
    <3>1. /\ accounts[a] = proc[p].token /\ IsToken(accounts[a]) /\ accounts[a].login # 0
          /\ accounts' = [accounts EXCEPT ![a] = t] /\ cached' = [cached EXCEPT ![a] = accounts[a].login]
      BY <1>7, <2>2, <2>5 DEF OAuth!CommitRefresh, OAuth!StillThatLogin, Known
    <3>2. IsToken(t) /\ t.login = accounts[a].login /\ (~ rotated => t = accounts[a])
      BY <3>1 DEF IsToken, TokenFields
    <3>3. /\ IsCall(q) /\ q.pc = "persistToken" /\ q.ends = {} /\ q.account = a
      BY <2>2 DEF CallInv, IsCall, CallFields
    <3>4. \/ rotated /\ persisting' = p /\ proc' = [proc EXCEPT ![p] = q]
          \/ ~ rotated /\ persisting' = p /\ proc' = [proc EXCEPT ![p] = q]
          \/ ~ rotated /\ persisting' = persisting /\ proc' = [proc EXCEPT ![p] = OAuth!Idle]
      BY <1>7, <2>5 DEF OAuth!CommitRefresh, OAuth!MustPersist, OAuth!Goto, OAuth!Return
    <3> HIDE DEF t, a, q
    <3>5. /\ accounts'[a] = t /\ accounts' = [b \in Accounts |-> accounts'[b]]
          /\ \A b \in Accounts \ {a} : accounts'[b] = accounts[b]
          /\ \A b \in Accounts : accounts'[b].login = accounts[b].login
      BY <2>2, <3>1, <3>2 DEF Known
    <3>6. Known(accounts)' /\ Known(disk)'
      <4>1. Known(disk)'
        BY <2>1 DEF Known
      <4>2. \A b \in Accounts : IsToken(accounts'[b])
        BY <3>2, <3>5 DEF Known
      <4> QED BY <2>1, <3>1, <3>2, <3>5, <4>1, <4>2 DEF Known
    <3>7. /\ cached' = [b \in Accounts |-> cached'[b]] /\ cached'[a] = accounts[a].login
          /\ \A b \in Accounts \ {a} : cached'[b] = cached[b]
      BY <2>2, <3>1 DEF OAuthInv
    <3>8. ASSUME NEW b \in Accounts PROVE CacheInv(b)'
      <4>1. cached[b] \in {0, accounts[b].login}
        BY <2>3 DEF OAuthInv, CacheInv, Writing
      <4> QED BY <3>5, <3>7, <4>1 DEF CacheInv
    <3>9. PICK c : /\ proc' = [proc EXCEPT ![p] = c] /\ IsCall(c) /\ c.ends = {}
                   /\ (c = q /\ persisting' = p) \/ c = OAuth!Idle
      BY <3>3, <3>4, OAuthIdle
    <3>10. CallInv(p)'
      <4>1. proc'[p] = c
        BY <3>9 DEF OAuthInv
      <4>2. (c.pc = "persistToken" /\ c.account = a /\ persisting' = p) \/ c.pc = "idle"
        BY <3>3, <3>9, OAuthIdle
      <4> QED BY <2>2, <3>9, <4>1, <4>2 DEF CallInv, OfAccount, Writing, Ending
    <3>11. OAuth!RemovedStaysAway'
      BY <2>1, <3>5, <3>7 DEF OAuth!RemovedStaysAway
    <3>12. OAuth!FileKeepsUp'
      <4>1. CASE rotated
        BY <3>4, <4>1 DEF OAuth!FileKeepsUp, Somebody
      <4>2. CASE ~ rotated
        <5>1. accounts' = accounts
          BY <2>2, <3>1, <3>2, <4>2 DEF Known
        <5> QED BY <2>1, <5>1 DEF OAuth!FileKeepsUp
      <4> QED BY <4>1, <4>2
    <3>13. logins' \in Nat /\ logins <= logins' /\ gone' \subseteq 1..logins'
      BY <2>1 DEF OAuthInv
    <3> QED BY <2>3, <3>6, <3>7, <3>8, <3>9, <3>10, <3>11, <3>12, <3>13, OAuthChanges
  <2> QED BY <2>4, <2>5
<1>8. ASSUME NEW p \in Procs, OAuth!Dropped(p) PROVE OAuthInv'
  <2>1. /\ proc[p].pc \in {"lock", "locked", "sent", "answered", "persistToken"}
        /\ proc' = [proc EXCEPT ![p] = OAuth!Idle]
        /\ UNCHANGED <<accounts, cached, disk, lockOf, logins, gone>>
    BY <1>8 DEF OAuth!Dropped, OAuth!Holds, OAuth!Return
  <2>2. CASE persisting # p
    <3>1. persisting' = persisting /\ (behind => behind')
      BY <1>8, <2>2 DEF OAuth!Dropped
    <3>2. proc[p].pc \notin Writing
      BY <2>2 DEF OAuthInv, CallInv
    <3> QED BY <2>1, <3>1, <3>2, OAuthGoes, OAuthIdle DEF Writing, OfAccount, OAuth!memory
  <2>3. CASE persisting = p
    <3>1. behind' = TRUE
      BY <1>8, <2>3 DEF OAuth!Dropped
    <3>2. \A r \in Procs \ {p} : proc[r].pc \notin Writing
      BY <2>3 DEF OAuthInv, CallInv
    <3>3. Known(accounts)' /\ Known(disk)'
      BY <2>1 DEF Known
    <3>4. ASSUME NEW b \in Accounts PROVE CacheInv(b)'
      <4>1. cached[b] \in {0, accounts[b].login}
        BY <2>1, <3>2 DEF OAuthInv, CacheInv, Writing
      <4> QED BY <2>1, <4>1 DEF CacheInv
    <3>5. CallInv(p)'
      <4>1. proc'[p] = OAuth!Idle
        BY <2>1 DEF OAuthInv
      <4> QED BY <4>1, OAuthIdle DEF CallInv, OfAccount, Writing
    <3>6. OAuth!RemovedStaysAway' /\ OAuth!FileKeepsUp'
      BY <2>1, <3>1 DEF OAuth!RemovedStaysAway, OAuth!FileKeepsUp
    <3>7. logins' \in Nat /\ logins <= logins' /\ gone' \subseteq 1..logins' /\ cached' = [b \in Accounts |-> cached'[b]]
      BY <2>1 DEF OAuthInv
    <3> QED BY <2>1, <3>2, <3>3, <3>4, <3>5, <3>6, <3>7, OAuthChanges
  <2> QED BY <2>2, <2>3
<1>9. ASSUME NEW p \in Procs, NEW a \in Accounts, OAuth!Add(p, a) PROVE OAuthInv'
  <2> DEFINE t == [login |-> logins', turn |-> 0]
             q == [OAuth!Call("addToken", a) EXCEPT !.ends = {accounts[a].login} \ {0}]
  <2>1. /\ proc[p].pc = "idle" /\ persisting = OAuth!Nobody /\ persisting' = p /\ logins' = logins + 1
        /\ accounts' = [accounts EXCEPT ![a] = t] /\ proc' = [proc EXCEPT ![p] = q]
        /\ UNCHANGED <<cached, disk, gone, behind>>
    BY <1>9 DEF OAuth!Add
  <2>2. \A r \in Procs : proc[r].pc \notin Writing
    BY <2>1 DEF OAuthInv, CallInv, Somebody
  <2>3. IsToken(t) /\ t.login = logins + 1
    BY <2>1 DEF IsToken, TokenFields
  <2>4. IsCall(q) /\ q.pc = "addToken" /\ q.account = a /\ q.ends = {accounts[a].login} \ {0}
    BY DEF IsCall, CallFields, OAuth!Call
  <2> HIDE DEF t, q
  <2>5. /\ accounts' = [b \in Accounts |-> accounts'[b]] /\ accounts'[a] = t
        /\ \A b \in Accounts \ {a} : accounts'[b] = accounts[b]
    BY <2>1 DEF Known
  <2>6. \A b \in Accounts : accounts[b].login \in 0..logins /\ disk[b].login \in 0..logins
    BY DEF Known, IsToken
  <2>7. Known(accounts)' /\ Known(disk)'
    <3>1. \A b \in Accounts : /\ IsToken(accounts'[b]) /\ accounts'[b].login <= logins'
                              /\ accounts'[b].login = 0 => accounts'[b] = OAuth!NoToken
      BY <2>1, <2>3, <2>5, <2>6 DEF Known
    <3>2. \A b, c \in Accounts : b # c /\ accounts'[b].login # 0 => accounts'[b].login # accounts'[c].login
      BY <2>3, <2>5, <2>6 DEF Known
    <3>3. Known(accounts)'
      BY <2>5, <3>1, <3>2 DEF Known
    <3>4. Known(disk)'
      BY <2>1, <2>6 DEF Known
    <3> QED BY <3>3, <3>4
  <2>8. proc'[p] = q
    BY <2>1 DEF OAuthInv
  <2>9. ASSUME NEW b \in Accounts PROVE CacheInv(b)' /\ cached[b] \in {0, accounts[b].login}
    <3>1. cached[b] \in {0, accounts[b].login}
      BY <2>2 DEF OAuthInv, CacheInv, Writing
    <3>2. CASE b = a
      BY <2>4, <2>8, <3>1, <3>2 DEF CacheInv
    <3>3. CASE b # a
      BY <2>1, <2>5, <3>1, <3>3 DEF CacheInv
    <3> QED BY <3>1, <3>2, <3>3
  <2>10. CallInv(p)'
    <3>1. q.ends \subseteq 1..logins'
      BY <2>1, <2>4, <2>6
    <3>2. ASSUME NEW b \in Accounts PROVE /\ accounts'[b].login \notin q.ends
                                          /\ cached'[b] \in q.ends => b = a
      <4>1. CASE b = a
        BY <2>3, <2>4, <2>5, <2>6, <4>1
      <4>2. CASE b # a
        <5>1. accounts[a].login # 0 => accounts[a].login # accounts[b].login
          BY <4>2 DEF Known
        <5> QED BY <2>1, <2>4, <2>5, <2>9, <4>2, <5>1
      <4> QED BY <4>1, <4>2
    <3> QED BY <2>1, <2>4, <2>8, <3>1, <3>2 DEF CallInv, OfAccount, Writing, Ending
  <2>11. OAuth!RemovedStaysAway'
    <3>1. logins' \notin gone
      BY <2>1 DEF OAuthInv
    <3> QED BY <2>1, <2>3, <2>5, <3>1 DEF OAuth!RemovedStaysAway
  <2>12. OAuth!FileKeepsUp'
    BY <2>1 DEF OAuth!FileKeepsUp, Somebody
  <2>13. logins' \in Nat /\ logins <= logins' /\ gone' \subseteq 1..logins' /\ cached' = [b \in Accounts |-> cached'[b]]
    BY <2>1 DEF OAuthInv
  <2> QED BY <2>1, <2>2, <2>7, <2>9, <2>10, <2>11, <2>12, <2>13, OAuthChanges
<1>10. ASSUME NEW p \in Procs, OAuth!AddToken(p) PROVE OAuthInv'
  <2> DEFINE a == proc[p].account
             q == [proc[p] EXCEPT !.pc = "persist"]
  <2>1. /\ proc[p].pc = "addToken" /\ cached' = [cached EXCEPT ![a] = accounts[a].login]
        /\ proc' = [proc EXCEPT ![p] = q] /\ UNCHANGED <<accounts, disk, persisting, logins, gone, behind>>
    BY <1>10 DEF OAuth!AddToken, OAuth!Goto
  <2>2. CallInv(p) /\ a \in Accounts /\ persisting = p
    BY <2>1 DEF OAuthInv, CallInv, OfAccount, Writing
  <2>3. IsCall(q) /\ q.pc = "persist" /\ q.ends = proc[p].ends
    BY <2>2 DEF CallInv, IsCall, CallFields
  <2> HIDE DEF a, q
  <2>4. \A r \in Procs \ {p} : proc[r].pc \notin Writing
    BY <2>2 DEF OAuthInv, CallInv
  <2>5. /\ cached' = [b \in Accounts |-> cached'[b]] /\ cached'[a] = accounts[a].login
        /\ \A b \in Accounts \ {a} : cached'[b] = cached[b]
    BY <2>1, <2>2 DEF OAuthInv
  <2>6. \A b \in Accounts \ {a} : cached[b] \in {0, accounts[b].login}
    BY <2>4 DEF OAuthInv, CacheInv, Writing, a
  <2>7. \A b \in Accounts : CacheInv(b)'
    BY <2>1, <2>5, <2>6 DEF CacheInv
  <2>8. CallInv(p)'
    <3>1. proc'[p] = q
      BY <2>1 DEF OAuthInv
    <3>2. \A b \in Accounts : accounts[b].login \notin q.ends /\ (cached[b] \in q.ends => b = a)
      BY <2>2, <2>3 DEF CallInv, a
    <3>3. \A b \in Accounts : cached'[b] \notin q.ends
      BY <2>5, <3>2
    <3> QED BY <2>1, <2>2, <2>3, <3>1, <3>2, <3>3 DEF CallInv, OfAccount, Writing, Ending
  <2>9. OAuth!RemovedStaysAway' /\ OAuth!FileKeepsUp'
    BY <2>1, <2>5 DEF OAuth!RemovedStaysAway, OAuth!FileKeepsUp
  <2>10. Known(accounts)' /\ Known(disk)'
    BY <2>1 DEF Known
  <2>11. logins' \in Nat /\ logins <= logins' /\ gone' \subseteq 1..logins'
    BY <2>1 DEF OAuthInv
  <2> QED BY <2>1, <2>4, <2>5, <2>7, <2>8, <2>9, <2>10, <2>11, OAuthChanges
<1>11. ASSUME NEW p \in Procs, NEW out \in SUBSET Accounts, OAuth!Remove(p, out) PROVE OAuthInv'
  <2> DEFINE q == [proc[p] EXCEPT !.pc = "persist", !.ends = {accounts[a].login : a \in out}]
  <2>1. /\ proc[p].pc = "idle" /\ persisting = OAuth!Nobody /\ persisting' = p
        /\ \A a \in out : accounts[a] # OAuth!NoToken
        /\ accounts' = [a \in Accounts |-> IF a \in out THEN OAuth!NoToken ELSE accounts[a]]
        /\ cached' = [a \in Accounts |-> IF a \in out THEN 0 ELSE cached[a]]
        /\ proc' = [proc EXCEPT ![p] = q] /\ UNCHANGED <<disk, logins, gone, behind>>
    BY <1>11 DEF OAuth!Remove, OAuth!Present
  <2>2. \A r \in Procs : proc[r].pc \notin Writing
    BY <2>1 DEF OAuthInv, CallInv, Somebody
  <2>3. IsCall(q) /\ q.pc = "persist" /\ q.ends = {accounts[a].login : a \in out}
    BY DEF OAuthInv, CallInv, IsCall, CallFields
  <2> HIDE DEF q
  <2>4. Known(accounts)' /\ Known(disk)'
    BY <2>1, NoTokenIsToken DEF Known
  <2>5. \A b \in Accounts : cached[b] \in {0, accounts[b].login}
    BY <2>2 DEF OAuthInv, CacheInv, Writing
  <2>6. \A b \in Accounts : CacheInv(b)'
    BY <2>1, <2>5 DEF CacheInv
  <2>7. CallInv(p)'
    <3>1. proc'[p] = q
      BY <2>1 DEF OAuthInv
    <3>2. \A a \in out : accounts[a].login \in 1..logins
      <4>1. ASSUME NEW a \in Accounts, accounts[a] # OAuth!NoToken PROVE accounts[a].login \in 1..logins
        <5>1. accounts[a].login \in Nat /\ accounts[a].login <= logins /\ accounts[a].login # 0
          BY <4>1 DEF Known, IsToken
        <5> QED BY <5>1
      <4> QED BY <2>1, <4>1
    <3>3. ASSUME NEW b \in Accounts PROVE accounts'[b].login \notin q.ends /\ cached'[b] \notin q.ends
      <4>1. CASE b \in out
        BY <2>1, <2>3, <3>2, <4>1, NoTokenIsToken
      <4>2. CASE b \notin out
        <5>1. \A a \in out : accounts[a].login # accounts[b].login
          BY <3>2, <4>2 DEF Known
        <5> QED BY <2>1, <2>3, <2>5, <3>2, <4>2, <5>1
      <4> QED BY <4>1, <4>2
    <3> QED BY <2>1, <2>3, <3>1, <3>2, <3>3 DEF CallInv, OfAccount, Writing, Ending
  <2>8. OAuth!RemovedStaysAway'
    <3>1. 0 \notin gone
      BY DEF OAuthInv
    <3> QED BY <2>1, <3>1, NoTokenIsToken DEF OAuth!RemovedStaysAway
  <2>9. OAuth!FileKeepsUp'
    BY <2>1 DEF OAuth!FileKeepsUp, Somebody
  <2>10. logins' \in Nat /\ logins <= logins' /\ gone' \subseteq 1..logins' /\ cached' = [b \in Accounts |-> cached'[b]]
    BY <2>1 DEF OAuthInv
  <2> QED BY <2>1, <2>2, <2>4, <2>6, <2>7, <2>8, <2>9, <2>10, OAuthChanges
<1>12. ASSUME NEW p \in Procs, OAuth!Persist(p) PROVE OAuthInv'
  <2>1. /\ proc[p].pc \in {"persist", "persistToken"} /\ proc' = [proc EXCEPT ![p] = OAuth!Idle]
        /\ persisting' = OAuth!Nobody /\ UNCHANGED <<accounts, cached, logins>>
        /\ disk' \in {disk, accounts}
        /\ \/ disk' = accounts /\ gone' = gone \cup proc[p].ends
           \/ behind' = TRUE /\ gone' = gone
    BY <1>12 DEF OAuth!Persist, OAuth!Return
  <2>2. CallInv(p) /\ persisting = p
    BY <2>1 DEF OAuthInv, CallInv, Writing
  <2>3. \A r \in Procs \ {p} : proc[r].pc \notin Writing
    BY <2>2 DEF OAuthInv, CallInv
  <2>4. Known(accounts)' /\ Known(disk)'
    BY <2>1 DEF Known
  <2>5. \A b \in Accounts : cached[b] \in {0, accounts[b].login}
    BY <2>1, <2>3 DEF OAuthInv, CacheInv, Writing
  <2>6. \A b \in Accounts : CacheInv(b)'
    BY <2>1, <2>5 DEF CacheInv
  <2>7. CallInv(p)'
    <3>1. proc'[p] = OAuth!Idle
      BY <2>1 DEF OAuthInv
    <3> QED BY <3>1, OAuthIdle DEF CallInv, OfAccount, Writing
  <2>8. OAuth!RemovedStaysAway'
    <3>1. \A b \in Accounts : accounts[b].login \notin proc[p].ends /\ cached[b] \notin proc[p].ends
      BY <2>1, <2>2 DEF CallInv
    <3>2. (disk' = accounts /\ gone' = gone \cup proc[p].ends) \/ gone' = gone
      BY <2>1
    <3> QED BY <2>1, <3>1, <3>2 DEF OAuth!RemovedStaysAway
  <2>9. OAuth!FileKeepsUp'
    BY <2>1 DEF OAuth!FileKeepsUp
  <2>10. logins' \in Nat /\ logins <= logins' /\ gone' \subseteq 1..logins' /\ cached' = [b \in Accounts |-> cached'[b]]
    BY <2>1, <2>2 DEF OAuthInv, CallInv
  <2> QED BY <2>1, <2>3, <2>4, <2>6, <2>7, <2>8, <2>9, <2>10, OAuthChanges
<1>13. ASSUME NEW a \in Accounts, OAuth!Expire(a) PROVE OAuthInv'
  <2>1. /\ UNCHANGED <<accounts, disk, persisting, proc, logins, gone, behind>>
        /\ cached' = [b \in Accounts |-> cached'[b]]
        /\ cached'[a] = 0 /\ \A b \in Accounts \ {a} : cached'[b] = cached[b]
    BY <1>13 DEF OAuth!Expire, OAuthInv
  <2>2. \A b \in Accounts : CacheInv(b)'
    BY <2>1 DEF OAuthInv, CacheInv
  <2>3. \A p \in Procs : CallInv(p)'
    BY <2>1 DEF OAuthInv, CallInv
  <2>4. 0 \notin gone
    BY DEF OAuthInv
  <2>5. OAuth!RemovedStaysAway' /\ OAuth!FileKeepsUp'
    BY <2>1, <2>4 DEF OAuth!RemovedStaysAway, OAuth!FileKeepsUp
  <2>6. Known(accounts)' /\ Known(disk)'
    BY <2>1 DEF Known
  <2> QED BY <2>1, <2>2, <2>3, <2>5, <2>6 DEF OAuthInv
<1>14. CASE OAuth!Restart
  <2>1. /\ accounts' \in {disk, OAuth!NoAccounts} /\ (accounts' = disk \/ behind' = TRUE)
        /\ cached' = [a \in Accounts |-> 0] /\ persisting' = OAuth!Nobody
        /\ proc' = [p \in Procs |-> OAuth!Idle] /\ UNCHANGED <<disk, logins, gone>>
    BY <1>14 DEF OAuth!Restart
  <2>0. Known(OAuth!NoAccounts) /\ \A b \in Accounts : OAuth!NoAccounts[b].login = 0
    BY NoTokenIsToken DEF Known, OAuth!NoAccounts, OAuthInv
  <2>2. \A b \in Accounts : CacheInv(b)'
    BY <2>1 DEF CacheInv
  <2>3. \A p \in Procs : CallInv(p)'
    BY <2>1, OAuthIdle DEF CallInv, OfAccount, Writing
  <2>4. 0 \notin gone
    BY DEF OAuthInv
  <2>5. OAuth!RemovedStaysAway' /\ OAuth!FileKeepsUp'
    BY <2>0, <2>1, <2>4 DEF OAuth!RemovedStaysAway, OAuth!FileKeepsUp
  <2>6. Known(accounts)' /\ Known(disk)'
    BY <2>0, <2>1 DEF Known, OAuthInv
  <2> QED BY <2>1, <2>2, <2>3, <2>5, <2>6 DEF OAuthInv
<1>15. CASE UNCHANGED OAuth!vars
  <2>1. UNCHANGED <<accounts, cached, disk, persisting, proc, logins, gone, behind>>
    BY <1>15 DEF OAuth!vars
  <2>2. Known(accounts)' /\ Known(disk)'
    BY <2>1 DEF Known
  <2>3. (\A p \in Procs : CallInv(p)') /\ (\A b \in Accounts : CacheInv(b)')
    BY <2>1 DEF OAuthInv, CallInv, CacheInv
  <2> QED BY <2>1, <2>2, <2>3 DEF OAuthInv, OAuth!RemovedStaysAway, OAuth!FileKeepsUp
<1> QED BY <1>1, <1>4, <1>5, <1>6, <1>7, <1>8, <1>9, <1>10, <1>11, <1>12, <1>13, <1>14, <1>15
        DEF OAuth!Next

LEMMA OAuthRuns == ASSUME Somebody PROVE Spec => []OAuthInv
<1>1. [Next]_vars => [OAuth!Next]_(OAuth!vars)
  BY DEF Next, vars, oauthVars, OAuth!vars
<1>2. OAuthInv /\ [Next]_vars => OAuthInv'
  BY <1>1, OAuthSteps
<1> QED BY <1>2, OAuthStarts, PTL DEF Spec

\* Once a removal, a logout or a new login has been reported as done, nothing of the
\* login it ended comes back, whatever refresh was under way.
THEOREM RemovedStayAway == ASSUME Somebody PROVE Spec => []RemovedStaysAway
<1>1. OAuthInv => RemovedStaysAway
  BY DEF OAuthInv, RemovedStaysAway
<1> QED BY <1>1, OAuthRuns, PTL

\* Whenever nobody is writing, and the file was loaded or has been written without a
\* failure, it holds what the memory holds.
THEOREM AccountsAreSaved == ASSUME Somebody PROVE Spec => []FileKeepsUp
<1>1. OAuthInv => FileKeepsUp
  BY DEF OAuthInv, FileKeepsUp
<1> QED BY <1>1, OAuthRuns, PTL

-----------------------------------------------------------------------------
(* The totals of requests.                                                 *)

\* detail_retention_days is at most 365; the hourly days are 400 in the community
\* build and 730 with a license.  A row is of the router or of a session.
Windows ==
    /\ None \notin Nat /\ \A t, b : None # [at |-> t, audit |-> b]
    /\ Offset \in Nat /\ HoursPerDay \in Nat \ {0}
    /\ DetailDays \in Nat /\ Community \in Nat /\ Targets \subseteq Nat
    /\ DetailDays <= Community /\ \A days \in Targets : Community <= days
    /\ Routed \cap Logged = {}

Recorded(r) == record[r] # None
Kept(r) == cost[r] # None
Refused(r) == record[r].audit = TRUE
InEffect(r) == Recorded(r) /\ ~ Refused(r)
Counts(r) == Kept(r) \/ daily[r] = 1
Matched(r) == hourly[r] = IF Refused(r) THEN None ELSE cost[r]

TableShapes ==
    /\ now \in Nat
    /\ record = [r \in Rollups!Rows |-> record[r]]
    /\ \A r \in Rollups!Rows : Recorded(r) => record[r].at \in Nat /\ record[r].audit \in BOOLEAN
    /\ cost = [r \in Rollups!Rows |-> cost[r]] /\ hourly = [r \in Rollups!Rows |-> hourly[r]]
    /\ daily = [r \in Rollups!Rows |-> daily[r]]
    /\ dirty \subseteq Nat

\* A row is in the details or, once, in its day; one that was never recorded is nowhere.
RowInv(r) ==
    /\ ~ Recorded(r) => cost[r] = None /\ hourly[r] = None /\ daily[r] = 0
    /\ daily[r] = 0 \/ (daily[r] = 1 /\ ~ Kept(r))

\* A detail is in its hour, or the hour is marked, or it is what the repair will find.
HourInv(r) == Kept(r) => Rollups!Hour(r) \in dirty \/ Matched(r) \/ (Refused(r) /\ repaired # TRUE)

\* The router has recorded what looks like r, and the gate has let it through.
Hidden(r) == \E p \in Routed : InEffect(p) /\ Rollups!LooksLike(p, r, record[r].at)

\* Only the record of a session may be in neither place, when it is hidden.
UseInv(r) == InEffect(r) => Counts(r) \/ (r \in Logged /\ Hidden(r))

WorkFields == {"pc", "then", "only", "todo", "cutoff", "days"}
IsWork(w) == DOMAIN w = WorkFields /\ w = [x \in WorkFields |-> w[x]]

\* What a pruning has read before it began.
Windowed ==
    /\ work.days \in Nat /\ granted <= work.days /\ DetailDays <= work.days
    /\ work.cutoff \in Nat /\ Rollups!DayOf(now) < work.cutoff + DetailDays

\* Only marked hours are summed again, and no detail older than the cutoff is left when
\* hours are pruned.
WorkInv ==
    /\ IsWork(work) /\ work.then \in {"idle", "prune"}
    /\ work.pc = "idle" => work.then = "idle"
    /\ work.pc \in {"repair", "prune", "hourly"} => work.then = "prune"
    /\ work.then = "prune" => Windowed
    /\ work.pc \in {"delete", "sum", "unmark"} => work.todo \subseteq dirty
    /\ work.pc = "unmark" => \A r \in Rollups!Rows : Kept(r) /\ Rollups!Hour(r) = Rollups!NextHour => Matched(r)
    /\ work.pc = "hourly" => \A r \in Rollups!Rows : Kept(r) => work.cutoff <= Rollups!DayOf(record[r].at)

\* More than the community build keeps has been granted only to a high water.
RetentionInv ==
    /\ highWater \in Nat /\ pending \in Nat \cup {None} /\ policy \in Nat /\ granted \in Nat
    /\ Community <= policy /\ (granted = Community \/ granted <= highWater)

RowsInv == \A r \in Rollups!Rows : RowInv(r)
HoursInv == \A r \in Rollups!Rows : HourInv(r)
UsesInv == \A r \in Rollups!Rows : UseInv(r)
RollupInv == TableShapes /\ RowsInv /\ HoursInv /\ UsesInv /\ WorkInv /\ RetentionInv

LEMMA MoreDays == ASSUME NEW a \in Nat, NEW b \in Nat, NEW h \in Nat, a <= b PROVE a * h <= b * h
  OBVIOUS

LEMMA Quotient ==
  ASSUME NEW x \in Nat, NEW n \in Nat \ {0}
  PROVE  x \div n \in Nat /\ n * (x \div n) <= x /\ x < n * (x \div n) + n
  OBVIOUS

LEMMA Halves ==
  ASSUME NEW a \in Nat, NEW b \in Nat, NEW p \in Nat, b < a + 2 * p
  PROVE  b \div 2 <= a \div 2 + p
  OBVIOUS

LEMMA Distribute == ASSUME NEW n \in Nat, NEW a \in Nat, NEW d \in Nat PROVE n * (a + d) = n * a + n * d
  OBVIOUS

LEMMA TwiceOver == ASSUME NEW h \in Nat, NEW d \in Nat PROVE (2 * h) * d = 2 * (d * h)
  OBVIOUS

LEMMA DaysAreNumbers == ASSUME Windows, NEW t \in Nat PROVE Rollups!DayOf(t) \in Nat /\ Rollups!HourOf(t) \in Nat
<1>1. t + Offset \in Nat /\ 2 * HoursPerDay \in Nat \ {0}
  BY DEF Windows
<1> QED BY <1>1, Quotient DEF Rollups!DayOf, Rollups!HourOf

\* The hours of a day that is young enough for its details are young enough.
LEMMA YoungDay ==
  ASSUME Windows, NEW at \in Nat, NEW t \in Nat, NEW days \in Nat, DetailDays <= days,
         NEW cutoff \in Nat, cutoff <= Rollups!DayOf(at), Rollups!DayOf(t) < cutoff + DetailDays
  PROVE  ~ (Rollups!HourOf(at) + days * HoursPerDay < Rollups!HourOf(t))
<1> DEFINE n == 2 * HoursPerDay
           x == Rollups!DayOf(at)
           y == Rollups!DayOf(t)
<1>1. n \in Nat \ {0} /\ HoursPerDay \in Nat /\ DetailDays \in Nat /\ Offset \in Nat
  BY DEF Windows
<1>2. n * x <= at + Offset /\ t + Offset < n * y + n /\ x \in Nat /\ y \in Nat
  <2>1. at + Offset \in Nat /\ t + Offset \in Nat
    BY <1>1
  <2>2. x = (at + Offset) \div n /\ y = (t + Offset) \div n
    BY DEF Rollups!DayOf
  <2> HIDE DEF n, x, y
  <2> QED BY <1>1, <2>1, <2>2, Quotient
<1>3. y + 1 <= x + DetailDays
  BY <1>1, <1>2
<1> HIDE DEF x, y
<1>4. n * y + n <= n * x + n * DetailDays
  <2> HIDE DEF n
  <2>1. (y + 1) * n <= (x + DetailDays) * n
    BY <1>1, <1>2, <1>3, MoreDays
  <2>2. n * (y + 1) = n * y + n * 1 /\ n * (x + DetailDays) = n * x + n * DetailDays
    BY <1>1, <1>2, Distribute
  <2>3. (y + 1) * n = n * (y + 1) /\ (x + DetailDays) * n = n * (x + DetailDays) /\ n * 1 = n
    BY <1>1, <1>2
  <2> QED BY <1>1, <1>2, <2>1, <2>2, <2>3
<1>5. n * DetailDays = 2 * (DetailDays * HoursPerDay)
  BY <1>1, TwiceOver
<1> DEFINE p == DetailDays * HoursPerDay
<1>6. p \in Nat /\ p <= days * HoursPerDay /\ days * HoursPerDay \in Nat
  BY <1>1, MoreDays
<1>7. n * x \in Nat /\ n * y \in Nat
  BY <1>1, <1>2
<1>8. n * y + n <= n * x + 2 * p
  BY <1>4, <1>5
<1> HIDE DEF p, n
<1>9. t < at + 2 * p
  BY <1>1, <1>2, <1>6, <1>7, <1>8
<1>10. t \div 2 <= at \div 2 + p
  BY <1>6, <1>9, Halves
<1>11. t \div 2 \in Nat /\ at \div 2 \in Nat
  OBVIOUS
<1> QED BY <1>6, <1>10, <1>11 DEF Rollups!HourOf

LEMMA HighestIsThere ==
  ASSUME NEW S, \E k \in S : \A j \in S : j <= k
  PROVE  Rollups!Highest(S) \in S /\ \A j \in S : j <= Rollups!Highest(S)
  BY Zenon DEF Rollups!Highest

LEMMA Higher ==
  ASSUME NEW m \in Nat, NEW n \in Nat
  PROVE  Rollups!Highest({m, n}) \in Nat /\ m <= Rollups!Highest({m, n}) /\ n <= Rollups!Highest({m, n})
<1>1. \E k \in {m, n} : \A j \in {m, n} : j <= k
  <2>1. CASE m <= n
    BY <2>1
  <2>2. CASE ~ (m <= n)
    BY <2>2
  <2> QED BY <2>1, <2>2
<1>2. /\ Rollups!Highest({m, n}) \in {m, n}
      /\ \A j \in {m, n} : j <= Rollups!Highest({m, n})
  BY <1>1, HighestIsThere
<1> QED BY <1>2

LEMMA LowestIsThere == ASSUME NEW S \in SUBSET Nat, S # {} PROVE Rollups!Lowest(S) \in S
<1>1. PICK n \in S : \A m \in S : <<m, n>> \notin OpToRel(<, Nat)
  BY NatLessThanWellFounded, WFMin, Zenon
<1>2. \A m \in S : ~ (m < n)
  BY <1>1, Zenon DEF OpToRel
<1>3. \A m \in S : n <= m
  BY <1>2
<1>4. \E k \in S : \A m \in S : k <= m
  BY <1>3
<1> QED BY <1>4, Zenon DEF Rollups!Lowest

LEMMA WorkIdle == /\ IsWork(Rollups!Idle) /\ Rollups!Idle.pc = "idle" /\ Rollups!Idle.then = "idle"
                  /\ Rollups!Idle.days = 0
  BY DEF Rollups!Idle, IsWork, WorkFields

LEMMA Rests == ASSUME work' = Rollups!Idle PROVE WorkInv'
  BY WorkIdle DEF WorkInv

LEMMA RollupStarts == ASSUME Windows PROVE Init => RollupInv
<1> SUFFICES ASSUME Init PROVE RollupInv
  OBVIOUS
<1>1. Rollups!Init
  BY DEF Init
<1>2. PICK old \in SUBSET Routed :
        /\ record = [r \in Rollups!Rows |-> IF r \in old THEN [at |-> 0, audit |-> TRUE] ELSE None]
        /\ cost = [r \in Rollups!Rows |-> IF r \in old THEN 0 ELSE None]
        /\ hourly = cost
  BY <1>1 DEF Rollups!Init
<1>3. /\ now = 0 /\ daily = [r \in Rollups!Rows |-> 0] /\ dirty = {} /\ repaired = FALSE
      /\ highWater = 0 /\ pending = None /\ policy = Community /\ granted = Community
      /\ work = Rollups!Idle
  BY <1>1 DEF Rollups!Init
<1>4. \A r \in Rollups!Rows :
        \/ record[r] = [at |-> 0, audit |-> TRUE] /\ cost[r] = 0 /\ hourly[r] = 0
        \/ record[r] = None /\ cost[r] = None /\ hourly[r] = None
  BY <1>2
<1>5. TableShapes
  BY <1>2, <1>3, <1>4 DEF TableShapes, Recorded
<1>6. RowsInv
  BY <1>3, <1>4 DEF RowsInv, RowInv, Recorded, Kept, Windows
<1>7. HoursInv
  <2>1. repaired # TRUE
    BY <1>3
  <2>2. \A r \in Rollups!Rows : Kept(r) => Refused(r)
    BY <1>4 DEF Refused, Kept
  <2> QED BY <2>1, <2>2 DEF HoursInv, HourInv
<1>8. ASSUME NEW r \in Rollups!Rows PROVE UseInv(r)
  <2>1. ~ InEffect(r)
    BY <1>4 DEF InEffect, Recorded, Refused
  <2> QED BY <2>1 DEF UseInv
<1>9. WorkInv
  BY <1>3, WorkIdle DEF WorkInv
<1>10. RetentionInv
  BY <1>3 DEF RetentionInv, Windows
<1> QED BY <1>5, <1>6, <1>7, <1>8, <1>9, <1>10 DEF RollupInv, UsesInv

\* Steps that leave the tables alone.
LEMMA TablesStay ==
  ASSUME RollupInv, UNCHANGED <<record, cost, hourly, daily, dirty, repaired>>, now' \in Nat,
         WorkInv', RetentionInv'
  PROVE  RollupInv'
<1>1. TableShapes'
  BY DEF RollupInv, TableShapes, Recorded
<1>2. RowsInv' /\ HoursInv'
  BY DEF RollupInv, RowsInv, RowInv, HoursInv, HourInv, Recorded, Kept, Refused, Matched, Rollups!Hour
<1>3. UsesInv'
  BY DEF RollupInv, UsesInv, UseInv, Hidden, Rollups!LooksLike, InEffect, Counts, Recorded, Kept, Refused
<1> QED BY <1>1, <1>2, <1>3 DEF RollupInv

LEMMA RetentionStays == ASSUME RollupInv, UNCHANGED Rollups!retention PROVE RetentionInv' /\ granted' = granted
  BY DEF RollupInv, RetentionInv, Rollups!retention

\* Work that is given back to the pruning that began it, or to nobody.
LEMMA Resumes == ASSUME WorkInv, UNCHANGED <<now, granted>>, Rollups!Return PROVE WorkInv'
<1>1. CASE work.then = "idle"
  BY <1>1, Rests DEF Rollups!Return
<1>2. CASE work.then # "idle"
  <2> DEFINE q == [work EXCEPT !.pc = work.then, !.todo = {}]
  <2>1. work' = q /\ work.then = "prune" /\ IsWork(work) /\ Windowed
    BY <1>2 DEF Rollups!Return, WorkInv
  <2>2. IsWork(q) /\ q.pc = "prune" /\ q.then = "prune" /\ q.days = work.days /\ q.cutoff = work.cutoff
    BY <2>1 DEF IsWork, WorkFields
  <2> HIDE DEF q
  <2>3. Windowed'
    BY <2>1, <2>2 DEF Windowed, Rollups!DayOf
  <2> QED BY <2>1, <2>2, <2>3 DEF WorkInv
<1> QED BY <1>1, <1>2

LEMMA Stores ==
  ASSUME Windows, RollupInv, work.pc = "idle", NEW r \in Rollups!Rows, record[r] = None, NEW at \in Nat,
         NEW audit \in BOOLEAN, NEW amount \in {0, 1},
         Rollups!Store(r, at, audit, amount)
  PROVE  RollupInv'
<1> USE DEF Recorded, Kept, Refused
<1>1. /\ record' = [record EXCEPT ![r] = [at |-> at, audit |-> audit]] /\ cost' = [cost EXCEPT ![r] = amount]
      /\ hourly' = IF audit THEN hourly ELSE [hourly EXCEPT ![r] = amount]
      /\ UNCHANGED <<now, daily, dirty, repaired, work>> /\ UNCHANGED Rollups!retention
  BY DEF Rollups!Store, Rollups!retention
<1>2. /\ record'[r] # None /\ record'[r].at = at /\ record'[r].audit = audit /\ cost'[r] = amount /\ amount # None
      /\ hourly'[r] = IF audit THEN hourly[r] ELSE amount
      /\ \A q \in Rollups!Rows \ {r} : record'[q] = record[q] /\ cost'[q] = cost[q] /\ hourly'[q] = hourly[q]
  BY <1>1 DEF RollupInv, TableShapes, Windows
<1>3. cost[r] = None /\ hourly[r] = None /\ daily[r] = 0
  BY DEF RollupInv, RowsInv, RowInv
<1>4. TableShapes'
  BY <1>1, <1>2 DEF RollupInv, TableShapes
<1>5. RowsInv'
  BY <1>1, <1>2, <1>3 DEF RollupInv, RowsInv, RowInv
<1>6. HoursInv'
  <2>1. HourInv(r)'
    BY <1>2, <1>3 DEF HourInv, Matched
  <2>2. ASSUME NEW q \in Rollups!Rows \ {r} PROVE HourInv(q)'
    <3>1. HourInv(q) /\ record'[q] = record[q] /\ cost'[q] = cost[q] /\ hourly'[q] = hourly[q]
      BY <1>2 DEF RollupInv, HoursInv
    <3>2. dirty' = dirty /\ repaired' = repaired
      BY <1>1
    <3>3. Rollups!Hour(q)' = Rollups!Hour(q) /\ Matched(q)' = Matched(q) /\ Refused(q)' = Refused(q)
      BY <3>1 DEF Matched, Rollups!Hour
    <3> QED BY <3>1, <3>2, <3>3 DEF HourInv
  <2> QED BY <2>1, <2>2 DEF HoursInv
<1>7. ASSUME NEW q \in Rollups!Rows PROVE UseInv(q)'
  <2>1. CASE q = r
    <3>1. Counts(r)'
      BY <1>2 DEF Counts
    <3> QED BY <2>1, <3>1 DEF UseInv
  <2>2. CASE q # r
    <3>1. UseInv(q) /\ record'[q] = record[q] /\ (InEffect(q)' <=> InEffect(q)) /\ (Counts(q)' <=> Counts(q))
      BY <1>1, <1>2, <2>2 DEF RollupInv, UsesInv, InEffect, Counts
    <3>2. Hidden(q) => Hidden(q)'
      <4>1. ASSUME NEW p \in Routed, InEffect(p), Rollups!LooksLike(p, q, record[q].at)
            PROVE  InEffect(p)' /\ Rollups!LooksLike(p, q, record[q].at)'
        <5>1. p \in Rollups!Rows \ {r}
          BY <4>1 DEF InEffect, Rollups!Rows
        <5>2. record'[p] = record[p]
          BY <1>2, <5>1
        <5> QED BY <3>1, <4>1, <5>2 DEF InEffect, Rollups!LooksLike
      <4> QED BY <4>1 DEF Hidden
    <3> QED BY <3>1, <3>2 DEF UseInv
  <2> QED BY <2>1, <2>2
<1>8. WorkInv'
  BY <1>1 DEF RollupInv, WorkInv
<1>9. RetentionInv'
  BY <1>1, RetentionStays
<1> QED BY <1>4, <1>5, <1>6, <1>7, <1>8, <1>9 DEF RollupInv, UsesInv

\* Steps that only touch hours.
LEMMA HoursChange ==
  ASSUME RollupInv, UNCHANGED <<now, record, cost, daily>> /\ UNCHANGED Rollups!retention,
         hourly' = [r \in Rollups!Rows |-> hourly'[r]], dirty' \subseteq Nat,
         \A r \in Rollups!Rows : hourly'[r] = hourly[r] \/ hourly'[r] = None \/ Recorded(r),
         HoursInv', WorkInv'
  PROVE  RollupInv'
<1>1. TableShapes'
  BY DEF RollupInv, TableShapes, Recorded
<1>2. RowsInv'
  BY DEF RollupInv, RowsInv, RowInv, Recorded, Kept
<1>3. UsesInv'
  BY DEF RollupInv, UsesInv, UseInv, Hidden, Rollups!LooksLike, InEffect, Counts, Recorded, Kept, Refused
<1>4. RetentionInv'
  BY RetentionStays
<1> QED BY <1>1, <1>2, <1>3, <1>4 DEF RollupInv

LEMMA KeptIsRecorded ==
  ASSUME Windows, RollupInv, NEW r \in Rollups!Rows, Kept(r)
  PROVE  Recorded(r) /\ record[r].at \in Nat /\ Rollups!Hour(r) \in Nat /\ Rollups!DayOf(record[r].at) \in Nat
<1>1. Recorded(r) /\ record[r].at \in Nat
  BY DEF RollupInv, RowsInv, RowInv, TableShapes, Kept
<1> QED BY <1>1, DaysAreNumbers DEF Rollups!Hour

\* What matches a record is in effect.
LEMMA MatchedIsHidden ==
  ASSUME Windows, RollupInv, NEW r \in Rollups!Rows, Rollups!Matches(r, record[r].at)
  PROVE  Hidden(r)
<1>1. PICK p \in Routed : /\ p \in Rollups!Stored /\ Rollups!LooksLike(p, r, record[r].at)
                          /\ ~ record[p].audit
  BY DEF Rollups!Matches
<1>2. p \in Rollups!Rows /\ Kept(p)
  BY <1>1 DEF Rollups!Stored, Kept
<1>3. InEffect(p)
  BY <1>1, <1>2, KeptIsRecorded DEF InEffect, Refused
<1> QED BY <1>1, <1>3 DEF Hidden

\* What summing the hours of a set makes of a row.
LEMMA Sums ==
  ASSUME Windows, RollupInv, NEW hours, hourly' = Rollups!Sum(hours), UNCHANGED <<record, cost>>
  PROVE  /\ hourly' = [r \in Rollups!Rows |-> hourly'[r]]
         /\ \A r \in Rollups!Rows : hourly'[r] = hourly[r] \/ hourly'[r] = None \/ Recorded(r)
         /\ \A r \in Rollups!Rows : Kept(r) => IF Rollups!Hour(r) \in hours THEN Matched(r)' ELSE hourly'[r] = hourly[r]
<1>1. hourly' = [r \in Rollups!Rows |-> hourly'[r]]
  BY DEF Rollups!Sum
<1>2. \A r \in Rollups!Rows : ~ Rollups!In(r, hours) => hourly'[r] = hourly[r]
  BY DEF Rollups!Sum
<1>3. \A r \in Rollups!Rows : Rollups!In(r, hours) =>
        Recorded(r) /\ hourly'[r] = IF record[r].audit = TRUE THEN None ELSE cost[r]
  BY DEF Rollups!Sum, Rollups!In, Recorded, RollupInv, TableShapes
<1>4. ASSUME NEW r \in Rollups!Rows, Kept(r)
      PROVE  IF Rollups!Hour(r) \in hours THEN Matched(r)' ELSE hourly'[r] = hourly[r]
  <2>1. Rollups!In(r, hours) <=> Rollups!Hour(r) \in hours
    BY <1>4, KeptIsRecorded DEF Rollups!In, Recorded
  <2> QED BY <1>2, <1>3, <2>1 DEF Matched, Refused
<1> QED BY <1>1, <1>2, <1>3, <1>4

LEMMA RollupSteps == ASSUME Windows, RollupInv, [Rollups!Next]_(Rollups!vars) PROVE RollupInv'
<1> USE DEF Rollups!At, Rollups!tables
<1> /\ TableShapes /\ RowsInv /\ HoursInv /\ UsesInv /\ WorkInv /\ RetentionInv
    /\ IsWork(work) /\ work.then \in {"idle", "prune"} /\ (work.then = "prune" => Windowed)
    /\ (work.pc = "idle" => work.then = "idle")
  BY DEF RollupInv, WorkInv
<1>1. ASSUME NEW p \in Routed, NEW audit \in BOOLEAN, Rollups!RecordProxy(p, audit) PROVE RollupInv'
  <2>1. p \in Rollups!Rows
    BY DEF Rollups!Rows
  <2>2. work.pc = "idle" /\ record[p] = None /\ Rollups!Store(p, now, audit, 0)
    BY <1>1 DEF Rollups!RecordProxy
  <2>3. now \in Nat
    BY DEF TableShapes
  <2> QED BY <2>1, <2>2, <2>3, Stores
<1>2. ASSUME NEW s \in Logged, NEW t \in 0..now, Rollups!RecordSession(s, t) PROVE RollupInv'
  <2> DEFINE amount == IF Rollups!Priced(s, prices) THEN 1 ELSE 0
  <2>1. s \in Rollups!Rows
    BY DEF Rollups!Rows
  <2>2. work.pc = "idle" /\ record[s] = None /\ Rollups!Store(s, t, FALSE, amount)
    BY <1>2 DEF Rollups!RecordSession
  <2>3. t \in Nat /\ amount \in {0, 1}
    BY DEF TableShapes
  <2> HIDE DEF amount
  <2> QED BY <2>1, <2>2, <2>3, Stores
<1>3. ASSUME NEW q, IsWork(q), q.pc = "costs", q.then = "idle", work' = q,
             UNCHANGED <<now, record, cost, hourly, daily, dirty, repaired>>, UNCHANGED Rollups!retention
      PROVE  RollupInv'
  <2>1. WorkInv'
    BY <1>3 DEF WorkInv
  <2> QED BY <1>3, <2>1, TablesStay, RetentionStays DEF TableShapes
<1>4. ASSUME NEW m \in Models, Rollups!ImportPrice(m) PROVE RollupInv'
  <2> DEFINE q == [Rollups!Idle EXCEPT !.pc = "costs", !.only = {m}]
  <2>1. IsWork(q) /\ q.pc = "costs" /\ q.then = "idle"
    BY WorkIdle DEF IsWork, WorkFields
  <2> QED BY <1>3, <1>4, <2>1 DEF Rollups!ImportPrice
<1>5. CASE Rollups!FillAll
  <2> DEFINE q == [Rollups!Idle EXCEPT !.pc = "costs"]
  <2>1. IsWork(q) /\ q.pc = "costs" /\ q.then = "idle"
    BY WorkIdle DEF IsWork, WorkFields
  <2> QED BY <1>3, <1>5, <2>1 DEF Rollups!FillAll
<1>6. CASE Rollups!FillCosts
  <2> DEFINE paid == {r \in Rollups!Rows : Rollups!Unpaid(r)}
             marked == dirty \cup {Rollups!Hour(r) : r \in paid}
  <2>1. /\ cost' = [r \in Rollups!Rows |-> IF r \in paid THEN 1 ELSE cost[r]] /\ dirty' = marked
        /\ UNCHANGED <<now, record, hourly, daily, repaired>> /\ UNCHANGED Rollups!retention
        /\ \/ paid = {} /\ Rollups!Return
           \/ work' = [work EXCEPT !.pc = "delete", !.todo = marked]
    BY <1>6 DEF Rollups!FillCosts
  <2>2. \A r \in paid : r \in Rollups!Rows /\ cost[r] = 0 /\ Kept(r)
    BY DEF Rollups!Unpaid, Kept, Windows
  <2>3. marked \subseteq Nat
    BY <2>2, KeptIsRecorded DEF TableShapes
  <2>4. \A r \in Rollups!Rows : Kept(r)' <=> Kept(r)
    BY <2>1, <2>2 DEF Kept, Windows
  <2>5. \A r \in Rollups!Rows : r \notin paid => cost'[r] = cost[r]
    BY <2>1
  <2>6. \A r \in paid : Rollups!Hour(r) \in dirty'
    BY <2>1
  <2>7. dirty \subseteq dirty'
    BY <2>1
  <2>8. TableShapes'
    BY <2>1, <2>3 DEF TableShapes, Recorded
  <2>9. WorkInv'
    <3>1. CASE Rollups!Return
      BY <2>1, <3>1, Resumes DEF Rollups!retention
    <3>2. CASE work' = [work EXCEPT !.pc = "delete", !.todo = marked]
      <4> DEFINE q == [work EXCEPT !.pc = "delete", !.todo = marked]
      <4>1. /\ IsWork(q) /\ q.pc = "delete" /\ q.then = work.then /\ q.todo = dirty'
            /\ q.days = work.days /\ q.cutoff = work.cutoff
        BY <2>1 DEF IsWork, WorkFields
      <4>2. work' = q /\ now' = now /\ granted' = granted
        BY <2>1, <3>2 DEF Rollups!retention
      <4> HIDE DEF q
      <4>3. Windowed => Windowed'
        BY <4>1, <4>2 DEF Windowed, Rollups!DayOf
      <4> QED BY <4>1, <4>2, <4>3 DEF WorkInv
    <3> QED BY <2>1, <3>1, <3>2
  <2>10. RetentionInv'
    BY <2>1, RetentionStays
  <2> HIDE DEF paid, marked
  <2>11. RowsInv'
    <3>1. ASSUME NEW r \in Rollups!Rows PROVE RowInv(r)'
      <4>1. RowInv(r)
        BY DEF RowsInv
      <4>2. Kept(r)' <=> Kept(r)
        BY <2>4
      <4> QED BY <2>1, <4>1, <4>2 DEF RowInv, Recorded, Kept
    <3> QED BY <3>1 DEF RowsInv
  <2>12. HoursInv'
    <3>1. ASSUME NEW r \in Rollups!Rows PROVE HourInv(r)'
      <4>1. HourInv(r) /\ Rollups!Hour(r)' = Rollups!Hour(r) /\ Refused(r)' = Refused(r)
        BY <2>1 DEF HoursInv, Rollups!Hour, Refused
      <4>2. CASE r \in paid
        BY <2>6, <4>1, <4>2 DEF HourInv
      <4>3. CASE r \notin paid
        <5>1. Matched(r)' = Matched(r)
          BY <2>1, <2>5, <4>3 DEF Matched, Refused
        <5> QED BY <2>1, <2>4, <2>7, <4>1, <5>1 DEF HourInv
      <4> QED BY <4>2, <4>3
    <3> QED BY <3>1 DEF HoursInv
  <2>13. UsesInv'
    <3>1. \A r \in Rollups!Rows : Counts(r)' = Counts(r) /\ InEffect(r)' = InEffect(r) /\ Recorded(r)' = Recorded(r) /\ Refused(r)' = Refused(r)
      BY <2>1, <2>4 DEF Counts, InEffect, Recorded, Refused
    <3>2. ASSUME NEW r \in Rollups!Rows PROVE UseInv(r)'
      <4>1. UseInv(r) /\ Hidden(r)' = Hidden(r)
        BY <2>1 DEF UsesInv, Hidden, InEffect, Recorded, Refused, Rollups!LooksLike
      <4> QED BY <3>1, <4>1 DEF UseInv
    <3> QED BY <3>2 DEF UsesInv
  <2> QED BY <2>8, <2>9, <2>10, <2>11, <2>12, <2>13 DEF RollupInv
<1>7. ASSUME NEW place \in {"sum", "unmark"}, work' = [work EXCEPT !.pc = place], work.pc \in {"delete", "sum"},
             UNCHANGED <<now, dirty>>, UNCHANGED Rollups!retention,
             place = "unmark" => \A r \in Rollups!Rows : (Kept(r) /\ Rollups!Hour(r) = Rollups!NextHour => Matched(r))',
             work.todo \subseteq dirty
      PROVE  WorkInv' /\ Rollups!NextHour' = Rollups!NextHour
  <2> DEFINE q == [work EXCEPT !.pc = place]
  <2>1. /\ IsWork(q) /\ q.pc = place /\ q.then = work.then /\ q.todo = work.todo
        /\ q.days = work.days /\ q.cutoff = work.cutoff
    BY DEF IsWork, WorkFields
  <2>2. work' = q /\ now' = now /\ granted' = granted
    BY <1>7 DEF Rollups!retention
  <2> HIDE DEF q
  <2>3. Windowed => Windowed'
    BY <2>1, <2>2 DEF Windowed, Rollups!DayOf
  <2>4. Rollups!NextHour' = Rollups!NextHour
    BY <2>1, <2>2 DEF Rollups!NextHour
  <2> QED BY <1>7, <2>1, <2>2, <2>3, <2>4 DEF WorkInv
<1>8. CASE Rollups!DeleteHour
  <2>1. /\ work.pc = "delete" /\ work.todo # {} /\ UNCHANGED <<now, record, cost, daily, dirty, repaired>>
        /\ UNCHANGED Rollups!retention
        /\ hourly' = [r \in Rollups!Rows |-> IF Rollups!In(r, {Rollups!NextHour}) THEN None ELSE hourly[r]]
        /\ work' = [work EXCEPT !.pc = "sum"] /\ work.todo \subseteq dirty
    BY <1>8 DEF Rollups!DeleteHour, Rollups!Goto, WorkInv
  <2>2. Rollups!NextHour \in dirty
    BY <2>1, LowestIsThere DEF Rollups!NextHour, TableShapes
  <2>3. WorkInv'
    BY <1>7, <2>1
  <2>4. HoursInv'
    <3>1. ASSUME NEW r \in Rollups!Rows PROVE HourInv(r)'
      <4>1. /\ HourInv(r) /\ Rollups!Hour(r)' = Rollups!Hour(r) /\ Refused(r)' = Refused(r)
            /\ Kept(r)' = Kept(r) /\ dirty' = dirty /\ repaired' = repaired
        BY <2>1 DEF HoursInv, Rollups!Hour, Refused, Kept
      <4>2. CASE Rollups!In(r, {Rollups!NextHour})
        BY <2>2, <4>1, <4>2 DEF HourInv, Rollups!In
      <4>3. CASE ~ Rollups!In(r, {Rollups!NextHour})
        <5>1. Matched(r)' = Matched(r)
          BY <2>1, <4>3 DEF Matched, Refused
        <5> QED BY <4>1, <5>1 DEF HourInv
      <4> QED BY <4>2, <4>3
    <3> QED BY <3>1 DEF HoursInv
  <2>5. hourly' = [r \in Rollups!Rows |-> hourly'[r]] /\ \A r \in Rollups!Rows : hourly'[r] = hourly[r] \/ hourly'[r] = None
    BY <2>1
  <2> QED BY <2>1, <2>3, <2>4, <2>5, HoursChange DEF TableShapes
<1>9. CASE Rollups!SumHour
  <2>1. /\ work.pc = "sum" /\ UNCHANGED <<now, record, cost, daily, dirty, repaired>>
        /\ UNCHANGED Rollups!retention /\ hourly' = Rollups!Sum({Rollups!NextHour})
        /\ work' = [work EXCEPT !.pc = "unmark"] /\ work.todo \subseteq dirty
    BY <1>9 DEF Rollups!SumHour, Rollups!Goto, WorkInv
  <2>2. /\ hourly' = [r \in Rollups!Rows |-> hourly'[r]]
        /\ \A r \in Rollups!Rows : hourly'[r] = hourly[r] \/ hourly'[r] = None \/ Recorded(r)
        /\ \A r \in Rollups!Rows : Kept(r) => IF Rollups!Hour(r) \in {Rollups!NextHour} THEN Matched(r)' ELSE hourly'[r] = hourly[r]
    BY <2>1, Sums
  <2>3. Rollups!NextHour' = Rollups!NextHour
    <3>1. work'.todo = work.todo
      BY <2>1 DEF IsWork, WorkFields
    <3> QED BY <3>1 DEF Rollups!NextHour
  <2>4. WorkInv'
    <3>1. \A r \in Rollups!Rows : (Kept(r) /\ Rollups!Hour(r) = Rollups!NextHour => Matched(r))'
      BY <2>1, <2>2, <2>3 DEF Kept, Rollups!Hour
    <3> QED BY <1>7, <2>1, <3>1
  <2>5. HoursInv'
    <3>1. ASSUME NEW r \in Rollups!Rows PROVE HourInv(r)'
      <4>1. /\ HourInv(r) /\ Rollups!Hour(r)' = Rollups!Hour(r) /\ Refused(r)' = Refused(r)
            /\ Kept(r)' = Kept(r) /\ dirty' = dirty /\ repaired' = repaired
        BY <2>1 DEF HoursInv, Rollups!Hour, Refused, Kept
      <4>2. CASE Kept(r) /\ Rollups!Hour(r) = Rollups!NextHour
        BY <2>2, <4>1, <4>2 DEF HourInv
      <4>3. CASE ~ (Kept(r) /\ Rollups!Hour(r) = Rollups!NextHour)
        <5>1. Kept(r) => Matched(r)' = Matched(r)
          BY <2>1, <2>2, <4>3 DEF Matched, Refused
        <5> QED BY <4>1, <5>1 DEF HourInv
      <4> QED BY <4>2, <4>3
    <3> QED BY <3>1 DEF HoursInv
  <2> QED BY <2>1, <2>2, <2>4, <2>5, HoursChange DEF TableShapes
<1>10. CASE Rollups!UnmarkHour
  <2> DEFINE q == [work EXCEPT !.pc = "delete", !.todo = work.todo \ {Rollups!NextHour}]
  <2>1. /\ work.pc = "unmark" /\ dirty' = dirty \ {Rollups!NextHour} /\ UNCHANGED <<now, record, cost, hourly, daily, repaired>>
        /\ UNCHANGED Rollups!retention /\ work' = q /\ work.todo \subseteq dirty
        /\ \A r \in Rollups!Rows : Kept(r) /\ Rollups!Hour(r) = Rollups!NextHour => Matched(r)
    BY <1>10 DEF Rollups!UnmarkHour, WorkInv
  <2>2. /\ IsWork(q) /\ q.pc = "delete" /\ q.then = work.then /\ q.todo = work.todo \ {Rollups!NextHour}
        /\ q.days = work.days /\ q.cutoff = work.cutoff
    BY DEF IsWork, WorkFields
  <2> HIDE DEF q
  <2>3. WorkInv'
    <3>1. Windowed => Windowed'
      BY <2>1, <2>2 DEF Windowed, Rollups!DayOf, Rollups!retention
    <3>2. work'.todo \subseteq dirty'
      BY <2>1, <2>2
    <3> QED BY <2>1, <2>2, <3>1, <3>2 DEF WorkInv
  <2>4. HoursInv'
    <3>1. ASSUME NEW r \in Rollups!Rows PROVE HourInv(r)'
      <4>1. /\ HourInv(r) /\ Rollups!Hour(r)' = Rollups!Hour(r) /\ Refused(r)' = Refused(r)
            /\ Kept(r)' = Kept(r) /\ Matched(r)' = Matched(r) /\ repaired' = repaired
        BY <2>1 DEF HoursInv, Rollups!Hour, Refused, Kept, Matched
      <4>2. Kept(r) /\ Rollups!Hour(r) = Rollups!NextHour => Matched(r)
        BY <2>1
      <4> QED BY <2>1, <4>1, <4>2 DEF HourInv
    <3> QED BY <3>1 DEF HoursInv
  <2>5. hourly' = [r \in Rollups!Rows |-> hourly'[r]] /\ dirty' \subseteq Nat
    BY <2>1 DEF TableShapes
  <2> QED BY <2>1, <2>3, <2>4, <2>5, HoursChange
<1>11. CASE Rollups!HoursDone \/ Rollups!CostsFail
  <2>1. UNCHANGED <<now, record, cost, hourly, daily, dirty, repaired>> /\ UNCHANGED Rollups!retention /\ Rollups!Return
    BY <1>11 DEF Rollups!HoursDone, Rollups!CostsFail
  <2>2. WorkInv' /\ RetentionInv'
    BY <2>1, Resumes, RetentionStays
  <2> QED BY <2>1, <2>2, TablesStay DEF TableShapes
<1>12. CASE Rollups!Stop
  <2>1. UNCHANGED <<now, record, cost, hourly, daily, dirty, repaired>> /\ UNCHANGED Rollups!retention /\ work' = Rollups!Idle
    BY <1>12 DEF Rollups!Stop
  <2>2. WorkInv' /\ RetentionInv'
    BY <2>1, Rests, RetentionStays
  <2> QED BY <2>1, <2>2, TablesStay DEF TableShapes
<1>13. CASE Rollups!BeginMaintenance
  <2> DEFINE days == Rollups!Raised(policy)
             cutoff == IF Rollups!DayOf(now) < DetailDays THEN 0 ELSE Rollups!DayOf(now) - DetailDays + 1
             q == [Rollups!Idle EXCEPT !.pc = "repair", !.then = "prune", !.cutoff = cutoff, !.days = days]
  <2>1. /\ highWater' = days /\ work' = q
        /\ UNCHANGED <<now, record, cost, hourly, daily, dirty, repaired, pending, policy, granted>>
    BY <1>13 DEF Rollups!BeginMaintenance
  <2>2. days \in Nat /\ highWater <= days /\ policy <= days
    BY Higher DEF Rollups!Raised, RetentionInv
  <2>3. IsWork(q) /\ q.pc = "repair" /\ q.then = "prune" /\ q.cutoff = cutoff /\ q.days = days
    BY WorkIdle DEF IsWork, WorkFields
  <2>4. cutoff \in Nat /\ Rollups!DayOf(now) < cutoff + DetailDays
    <3>1. Rollups!DayOf(now) \in Nat /\ DetailDays \in Nat
      BY DaysAreNumbers DEF TableShapes, Windows
    <3> QED BY <3>1
  <2> HIDE DEF q, days, cutoff
  <2>5. granted <= days /\ DetailDays <= days
    BY <2>2 DEF RetentionInv, Windows
  <2>6. Windowed'
    BY <2>1, <2>2, <2>3, <2>4, <2>5 DEF Windowed, Rollups!DayOf
  <2>7. WorkInv'
    BY <2>1, <2>3, <2>6 DEF WorkInv
  <2>8. RetentionInv'
    BY <2>1, <2>2 DEF RetentionInv
  <2> QED BY <2>1, <2>7, <2>8, TablesStay DEF TableShapes
<1>14. CASE Rollups!Repair
  <2> DEFINE hours == dirty \cup IF repaired THEN {} ELSE {Rollups!Hour(r) : r \in Rollups!Holds}
             place == IF \E r \in Rollups!Rows : Rollups!Old(r) THEN "costs" ELSE "hourly"
             q == [work EXCEPT !.pc = place]
  <2>1. /\ work.pc = "repair" /\ hourly' = Rollups!Sum(hours) /\ dirty' = {} /\ repaired' = TRUE /\ work' = q
        /\ UNCHANGED <<now, record, cost, daily>> /\ UNCHANGED Rollups!retention
    BY <1>14 DEF Rollups!Repair, Rollups!Goto
  <2>2. /\ IsWork(q) /\ q.pc = place /\ q.then = work.then /\ q.days = work.days /\ q.cutoff = work.cutoff
    BY DEF IsWork, WorkFields
  <2>3. dirty \subseteq hours
    OBVIOUS
  <2>4. ASSUME NEW r \in Rollups!Rows, Kept(r), Refused(r), repaired # TRUE PROVE Rollups!Hour(r) \in hours
    <3>1. r \in Rollups!Holds
      BY <2>4 DEF Rollups!Holds, Rollups!Stored, Kept, Refused
    <3>2. hours = dirty \cup {Rollups!Hour(s) : s \in Rollups!Holds}
      BY <2>4
    <3> QED BY <3>1, <3>2
  <2> HIDE DEF hours
  <2>5. /\ hourly' = [r \in Rollups!Rows |-> hourly'[r]]
        /\ \A r \in Rollups!Rows : hourly'[r] = hourly[r] \/ hourly'[r] = None \/ Recorded(r)
        /\ \A r \in Rollups!Rows : Kept(r) => IF Rollups!Hour(r) \in hours THEN Matched(r)' ELSE hourly'[r] = hourly[r]
    BY <2>1, Sums
  <2>6. HoursInv'
    <3>1. ASSUME NEW r \in Rollups!Rows, Kept(r) PROVE Matched(r)'
      <4>1. HourInv(r)
        BY DEF HoursInv
      <4>2. CASE Rollups!Hour(r) \in hours
        BY <2>5, <3>1, <4>2
      <4>3. CASE Rollups!Hour(r) \notin hours
        <5>1. Rollups!Hour(r) \notin dirty /\ ~ (Refused(r) /\ repaired # TRUE)
          BY <2>3, <2>4, <3>1, <4>3
        <5>2. Matched(r) /\ hourly'[r] = hourly[r]
          BY <2>5, <3>1, <4>1, <4>3, <5>1 DEF HourInv
        <5> QED BY <2>1, <5>2 DEF Matched, Refused
      <4> QED BY <4>2, <4>3
    <3>2. \A r \in Rollups!Rows : Kept(r)' = Kept(r)
      BY <2>1 DEF Kept
    <3> QED BY <3>1, <3>2 DEF HoursInv, HourInv
  <2>7. WorkInv'
    <3>1. Windowed /\ Windowed' /\ work.then = "prune"
      <4>1. Windowed /\ work.then = "prune"
        BY <2>1 DEF WorkInv
      <4> HIDE DEF q
      <4> QED BY <2>1, <2>2, <4>1 DEF Windowed, Rollups!DayOf, Rollups!retention
    <3>2. place = "hourly" => \A r \in Rollups!Rows : Kept(r) => work.cutoff <= Rollups!DayOf(record[r].at)
      <4>1. ASSUME NEW r \in Rollups!Rows, Kept(r), ~ Rollups!Old(r) PROVE work.cutoff <= Rollups!DayOf(record[r].at)
        <5>1. Rollups!DayOf(record[r].at) \in Nat /\ work.cutoff \in Nat
          BY <3>1, <4>1, KeptIsRecorded DEF Windowed
        <5>2. ~ (Rollups!DayOf(record[r].at) < work.cutoff)
          BY <4>1 DEF Rollups!Old, Rollups!Stored, Kept
        <5> QED BY <5>1, <5>2
      <4>2. place = "hourly" => \A r \in Rollups!Rows : ~ Rollups!Old(r)
        OBVIOUS
      <4> HIDE DEF place
      <4> QED BY <4>1, <4>2
    <3>3. place \in {"costs", "hourly"}
      OBVIOUS
    <3> HIDE DEF q, place
    <3>4. work'.pc = place /\ work'.cutoff = work.cutoff /\ work'.then = "prune" /\ IsWork(work')
      BY <2>1, <2>2, <3>1
    <3>5. work'.pc = "hourly" => \A r \in Rollups!Rows : (Kept(r) => work.cutoff <= Rollups!DayOf(record[r].at))'
      BY <2>1, <3>2, <3>4 DEF Kept, Rollups!DayOf
    <3> QED BY <3>1, <3>3, <3>4, <3>5 DEF WorkInv
  <2>8. dirty' \subseteq Nat
    BY <2>1
  <2> QED BY <2>1, <2>5, <2>6, <2>7, <2>8, HoursChange
<1>15. CASE Rollups!Prune
  <2> DEFINE q == [work EXCEPT !.pc = "hourly"]
  <2>1. /\ work.pc = "prune" /\ work' = q /\ UNCHANGED <<now, record, hourly, dirty, repaired>>
        /\ UNCHANGED Rollups!retention
        /\ daily' = [r \in Rollups!Rows |-> IF Rollups!Old(r) /\ Rollups!Effective(r) THEN daily[r] + 1 ELSE daily[r]]
        /\ cost' = [r \in Rollups!Rows |-> IF Rollups!Old(r) THEN None ELSE cost[r]]
    BY <1>15 DEF Rollups!Prune, Rollups!Goto
  <2>2. /\ IsWork(q) /\ q.pc = "hourly" /\ q.then = work.then /\ q.days = work.days /\ q.cutoff = work.cutoff
    BY DEF IsWork, WorkFields
  <2> HIDE DEF q
  <2>3. \A r \in Rollups!Rows : Rollups!Old(r) => Kept(r)
    BY DEF Rollups!Old, Rollups!Stored, Kept
  <2>4. ASSUME NEW r \in Rollups!Rows
        PROVE  /\ Kept(r)' <=> Kept(r) /\ ~ Rollups!Old(r)
               /\ Kept(r)' => cost'[r] = cost[r]
               /\ daily'[r] = IF Rollups!Old(r) /\ Rollups!Effective(r) THEN daily[r] + 1 ELSE daily[r]
               /\ Recorded(r)' = Recorded(r) /\ Refused(r)' = Refused(r) /\ hourly'[r] = hourly[r]
    BY <2>1 DEF Kept, Recorded, Refused
  <2>5. TableShapes'
    BY <2>1 DEF TableShapes, Recorded
  <2>6. RowsInv'
    <3>1. ASSUME NEW r \in Rollups!Rows PROVE RowInv(r)'
      <4>1. RowInv(r) /\ (Rollups!Old(r) => Kept(r))
        BY <2>3 DEF RowsInv
      <4>2. Kept(r) => daily[r] = 0 /\ Recorded(r)
        BY <4>1 DEF RowInv, Kept
      <4>3. ~ Recorded(r) => cost'[r] = None /\ hourly'[r] = None /\ daily'[r] = 0
        BY <2>4, <4>1, <4>2 DEF RowInv, Kept
      <4>4. daily'[r] = 0 \/ (daily'[r] = 1 /\ ~ Kept(r)')
        BY <2>4, <4>1, <4>2 DEF RowInv
      <4> QED BY <2>4, <4>3, <4>4 DEF RowInv
    <3> QED BY <3>1 DEF RowsInv
  <2>7. HoursInv'
    <3>1. ASSUME NEW r \in Rollups!Rows PROVE HourInv(r)'
      <4>1. HourInv(r) /\ Rollups!Hour(r)' = Rollups!Hour(r) /\ dirty' = dirty /\ repaired' = repaired
        BY <2>1 DEF HoursInv, Rollups!Hour
      <4>2. Kept(r)' => Kept(r) /\ Matched(r)' = Matched(r)
        <5>1. ASSUME Kept(r)' PROVE Kept(r) /\ cost'[r] = cost[r] /\ hourly'[r] = hourly[r] /\ record'[r] = record[r]
          BY <2>1, <2>4, <5>1
        <5> QED BY <5>1 DEF Matched, Refused
      <4> QED BY <2>4, <4>1, <4>2 DEF HourInv
    <3> QED BY <3>1 DEF HoursInv
  <2>8. ASSUME NEW r \in Rollups!Rows PROVE UseInv(r)'
    <3>1. RowInv(r) /\ UseInv(r)
      BY DEF RowsInv, UsesInv
    <3>2. InEffect(r)' = InEffect(r) /\ Hidden(r)' = Hidden(r)
      BY <2>1 DEF Hidden, InEffect, Recorded, Refused, Rollups!LooksLike
    <3>3. CASE ~ InEffect(r)
      BY <3>2, <3>3 DEF UseInv
    <3>4. CASE InEffect(r) /\ Rollups!Old(r)
      <4>1. CASE Rollups!Effective(r)
        <5>1. daily[r] = 0 /\ daily'[r] = daily[r] + 1
          BY <2>3, <2>4, <3>1, <3>4, <4>1 DEF RowInv
        <5> QED BY <5>1 DEF UseInv, Counts
      <4>2. CASE ~ Rollups!Effective(r)
        <5>1. r \in Logged /\ Rollups!Matches(r, record[r].at)
          BY <3>4, <4>2 DEF Rollups!Effective, InEffect, Recorded, Refused, TableShapes
        <5>2. Hidden(r)
          BY <5>1, MatchedIsHidden
        <5> QED BY <3>2, <5>1, <5>2 DEF UseInv
      <4> QED BY <4>1, <4>2
    <3>5. CASE ~ Rollups!Old(r)
      BY <2>4, <3>1, <3>2, <3>5 DEF UseInv, Counts
    <3> QED BY <3>3, <3>4, <3>5
  <2>9. WorkInv'
    <3>1. Windowed /\ Windowed' /\ work.then = "prune"
      <4>1. Windowed /\ work.then = "prune"
        BY <2>1 DEF WorkInv
      <4> QED BY <2>1, <2>2, <4>1 DEF Windowed, Rollups!DayOf, Rollups!retention
    <3>2. ASSUME NEW r \in Rollups!Rows, Kept(r)' PROVE (work.cutoff <= Rollups!DayOf(record[r].at))'
      <4>1. Kept(r) /\ ~ Rollups!Old(r)
        BY <2>4, <3>2
      <4>2. Rollups!DayOf(record[r].at) \in Nat /\ work.cutoff \in Nat
        BY <3>1, <4>1, KeptIsRecorded DEF Windowed
      <4>3. ~ (Rollups!DayOf(record[r].at) < work.cutoff)
        BY <4>1 DEF Rollups!Old, Rollups!Stored, Kept
      <4>4. work.cutoff <= Rollups!DayOf(record[r].at)
        BY <4>2, <4>3
      <4> QED BY <2>1, <2>2, <4>4 DEF Rollups!DayOf
    <3> QED BY <2>1, <2>2, <3>1, <3>2 DEF WorkInv
  <2>10. RetentionInv'
    BY <2>1, RetentionStays
  <2> QED BY <2>5, <2>6, <2>7, <2>8, <2>9, <2>10 DEF RollupInv, UsesInv
<1>16. CASE Rollups!PruneHourly
  <2>1. PICK out \in SUBSET {r \in Rollups!Rows : hourly[r] # None /\ Rollups!Expired(r)} :
            hourly' = [r \in Rollups!Rows |-> IF r \in out THEN None ELSE hourly[r]]
    BY <1>16 DEF Rollups!PruneHourly
  <2>2. /\ work.pc = "hourly" /\ work' = Rollups!Idle /\ UNCHANGED <<now, record, cost, daily, dirty, repaired>>
        /\ UNCHANGED Rollups!retention
    BY <1>16 DEF Rollups!PruneHourly
  <2>3. ASSUME NEW r \in Rollups!Rows, Kept(r) PROVE r \notin out
    <3>1. Windowed /\ work.cutoff <= Rollups!DayOf(record[r].at) /\ record[r].at \in Nat /\ now \in Nat
      BY <2>2, <2>3, KeptIsRecorded DEF WorkInv, TableShapes
    <3>2. ~ (Rollups!HourOf(record[r].at) + work.days * HoursPerDay < Rollups!HourOf(now))
      BY <3>1, YoungDay DEF Windowed
    <3> QED BY <3>2 DEF Rollups!Expired, Rollups!Hour
  <2>4. HoursInv'
    <3>1. ASSUME NEW r \in Rollups!Rows, Kept(r) PROVE HourInv(r)'
      <4>1. hourly'[r] = hourly[r]
        BY <2>1, <2>3, <3>1
      <4>2. HourInv(r)
        BY DEF HoursInv
      <4> QED BY <2>2, <4>1, <4>2 DEF HourInv, Matched, Rollups!Hour, Refused, Kept
    <3>2. \A r \in Rollups!Rows : Kept(r)' = Kept(r)
      BY <2>2 DEF Kept
    <3>3. ASSUME NEW r \in Rollups!Rows, ~ Kept(r) PROVE HourInv(r)'
      BY <3>2, <3>3 DEF HourInv
    <3> QED BY <3>1, <3>3 DEF HoursInv
  <2>5. hourly' = [r \in Rollups!Rows |-> hourly'[r]] /\ \A r \in Rollups!Rows : hourly'[r] = hourly[r] \/ hourly'[r] = None
    BY <2>1
  <2>6. WorkInv'
    BY <2>2, Rests
  <2> QED BY <2>2, <2>4, <2>5, <2>6, HoursChange DEF TableShapes
<1>17. ASSUME work.pc = "idle", UNCHANGED <<record, cost, hourly, daily, dirty, repaired, work>>,
              now' \in Nat, RetentionInv'
       PROVE  RollupInv'
  <2>1. WorkInv'
    BY <1>17 DEF WorkInv
  <2> QED BY <1>17, <2>1, TablesStay
<1>18. ASSUME NEW days \in Targets, Rollups!Activate(days) PROVE RollupInv'
  <2> DEFINE target == IF pending = None THEN days ELSE Rollups!Highest({pending, days})
  <2>1. /\ work.pc = "idle" /\ UNCHANGED <<now, record, cost, hourly, daily, dirty, repaired, work>>
        /\ \/ /\ highWater' = Rollups!Raised(target) /\ pending' = None
              /\ policy' = days /\ granted' = Rollups!Highest({granted, days})
           \/ /\ pending' = target
              /\ UNCHANGED <<highWater, policy, granted>>
    BY <1>18 DEF Rollups!Activate
  <2>2. days \in Nat /\ Community <= days /\ Community \in Nat
    BY DEF Windows
  <2>3. target \in Nat /\ days <= target
    BY <2>2, Higher DEF RetentionInv
  <2> HIDE DEF target
  <2>4. Rollups!Raised(target) \in Nat /\ highWater <= Rollups!Raised(target) /\ target <= Rollups!Raised(target)
    BY <2>3, Higher DEF Rollups!Raised, RetentionInv
  <2>5. Rollups!Highest({granted, days}) \in {granted, days}
    <3>1. CASE granted <= days
      <4>1. \E k \in {granted, days} : \A j \in {granted, days} : j <= k
        BY <2>2, <3>1 DEF RetentionInv
      <4> QED BY <4>1, HighestIsThere
    <3>2. CASE ~ (granted <= days)
      <4>1. \E k \in {granted, days} : \A j \in {granted, days} : j <= k
        BY <2>2, <3>2 DEF RetentionInv
      <4> QED BY <4>1, HighestIsThere
    <3> QED BY <3>1, <3>2
  <2>6. RetentionInv'
    BY <2>1, <2>2, <2>3, <2>4, <2>5 DEF RetentionInv
  <2> QED BY <1>17, <2>1, <2>6 DEF TableShapes
<1>19. CASE Rollups!RetryPending
  <2>1. /\ work.pc = "idle" /\ pending # None /\ highWater' = Rollups!Raised(pending) /\ pending' = None
        /\ UNCHANGED <<now, record, cost, hourly, daily, dirty, repaired, policy, granted, work>>
    BY <1>19 DEF Rollups!RetryPending
  <2>2. highWater' \in Nat /\ highWater <= highWater'
    BY <2>1, Higher DEF Rollups!Raised, RetentionInv
  <2>3. RetentionInv'
    BY <2>1, <2>2 DEF RetentionInv
  <2> QED BY <1>17, <2>1, <2>3 DEF TableShapes
<1>20. CASE Rollups!Downgrade
  <2>1. RetentionInv'
    BY <1>20 DEF RetentionInv, Rollups!Downgrade, Windows
  <2> QED BY <1>17, <1>20, <2>1 DEF Rollups!Downgrade, TableShapes
<1>21. CASE Rollups!Tick
  <2>1. RetentionInv'
    BY <1>21, RetentionStays DEF Rollups!Tick
  <2>2. now' \in Nat
    BY <1>21 DEF Rollups!Tick, TableShapes
  <2> QED BY <1>17, <1>21, <2>1, <2>2 DEF Rollups!Tick
<1>22. CASE UNCHANGED Rollups!vars
  <2>1. UNCHANGED <<now, record, cost, hourly, daily, dirty, repaired, work>> /\ UNCHANGED Rollups!retention
    BY <1>22 DEF Rollups!vars
  <2>2. RetentionInv'
    BY <2>1, RetentionStays
  <2>3. WorkInv'
    BY <2>1 DEF WorkInv, Windowed, Rollups!DayOf, Rollups!Hour, Rollups!NextHour, Kept, Matched, Refused, Rollups!retention
  <2> QED BY <2>1, <2>2, <2>3, TablesStay DEF TableShapes
<1> QED BY <1>1, <1>2, <1>4, <1>5, <1>6, <1>8, <1>9, <1>10, <1>11, <1>12, <1>13, <1>14, <1>15, <1>16,
           <1>18, <1>19, <1>20, <1>21, <1>22 DEF Rollups!Next, Rollups!Undisturbed

LEMMA RollupRuns == ASSUME Windows PROVE Spec => []RollupInv
<1>1. [Next]_vars => [Rollups!Next]_(Rollups!vars)
  BY DEF Next, vars, rollupVars, Rollups!vars, Rollups!tables, Rollups!retention
<1>2. RollupInv /\ [Next]_vars => RollupInv'
  BY <1>1, RollupSteps
<1> QED BY <1>2, RollupStarts, PTL DEF Spec

\* A record that the gate has not refused is counted, however details are summed and
\* pruned, in one place only, unless the router has recorded what looks like it; then
\* that is counted.
THEOREM EveryRecordCounts == ASSUME Windows PROVE Spec => []RecordsCount
<1>1. RollupInv => RecordsCount
  <2> SUFFICES ASSUME RollupInv, NEW r \in Rollups!Rows, record[r] # None, ~ record[r].audit
               PROVE  /\ Rollups!IsCounted(r) \/ \E p \in Routed : /\ Rollups!LooksLike(p, r, record[r].at)
                                                                  /\ Rollups!IsCounted(p)
                      /\ daily[r] + (IF r \in Rollups!Stored THEN 1 ELSE 0) <= 1
    BY DEF RecordsCount, Rollups!RecordsCount
  <2>1. RowInv(r) /\ UseInv(r) /\ InEffect(r)
    BY DEF RollupInv, RowsInv, UsesInv, InEffect, Recorded, Refused, TableShapes
  <2>2. \A q \in Rollups!Rows : q \in Rollups!Stored <=> Kept(q)
    BY DEF Rollups!Stored, Kept
  <2>3. daily[r] + (IF r \in Rollups!Stored THEN 1 ELSE 0) <= 1
    BY <2>1, <2>2 DEF RowInv
  <2>4. ASSUME NEW p \in Routed, InEffect(p) PROVE Rollups!IsCounted(p)
    <3>1. p \in Rollups!Rows /\ p \notin Logged
      BY DEF Rollups!Rows, Windows
    <3>2. Counts(p)
      BY <2>4, <3>1 DEF RollupInv, UsesInv, UseInv
    <3>3. Rollups!Effective(p)
      BY <2>4, <3>1 DEF Rollups!Effective, InEffect, Refused
    <3> QED BY <2>2, <3>1, <3>2, <3>3 DEF Counts, Rollups!IsCounted
  <2>5. Hidden(r) => \E p \in Routed : Rollups!LooksLike(p, r, record[r].at) /\ Rollups!IsCounted(p)
    BY <2>4 DEF Hidden
  <2>6. CASE Counts(r)
    <3>1. CASE Rollups!Effective(r)
      BY <2>2, <2>3, <2>6, <3>1 DEF Counts, Rollups!IsCounted
    <3>2. CASE ~ Rollups!Effective(r)
      <4>1. Rollups!Matches(r, record[r].at)
        BY <3>2 DEF Rollups!Effective
      <4> QED BY <2>3, <2>5, <4>1, MatchedIsHidden
    <3> QED BY <2>3, <3>1, <3>2
  <2>7. CASE Hidden(r)
    BY <2>3, <2>5, <2>7
  <2> QED BY <2>1, <2>6, <2>7 DEF UseInv
<1> QED BY <1>1, RollupRuns, PTL

\* A detail is in its hour with the cost it has, unless the hour is marked to be summed
\* again; what the gate refused is not.
THEOREM HoursMatchDetails == ASSUME Windows PROVE Spec => []HourlyMatchesDetails
<1>1. RollupInv => HourlyMatchesDetails
  <2> SUFFICES ASSUME RollupInv, repaired = TRUE, NEW r \in Rollups!Rows, Kept(r)
               PROVE  Rollups!Hour(r) \in dirty \/ hourly[r] = IF record[r].audit THEN None ELSE cost[r]
    BY DEF HourlyMatchesDetails, Rollups!HourlyMatchesDetails, Rollups!Stored, Kept, RollupInv, TableShapes
  <2>1. HourInv(r) /\ record[r].audit \in BOOLEAN
    BY KeptIsRecorded DEF RollupInv, HoursInv, TableShapes
  <2> QED BY <2>1 DEF HourInv, Matched, Refused
<1> QED BY <1>1, RollupRuns, PTL

\* Pruning takes no hour that a license has ever granted.
THEOREM GrantsAreKept == ASSUME Windows PROVE Spec => GrantedIsKept
<1> DEFINE Young == work.pc = "hourly" => \A r \in Rollups!Rows : hourly[r] # None /\ hourly'[r] = None =>
                       Rollups!Hour(r) + granted * HoursPerDay < Rollups!HourOf(now)
<1>1. RollupInv /\ [Next]_vars => [Young]_(Rollups!vars)
  <2> SUFFICES ASSUME RollupInv, [Next]_vars, work.pc = "hourly", NEW r \in Rollups!Rows,
                      hourly[r] # None, hourly'[r] = None
               PROVE  Rollups!Hour(r) + granted * HoursPerDay < Rollups!HourOf(now)
    OBVIOUS
  <2>1. [Rollups!Next]_(Rollups!vars)
    BY DEF Next, vars, rollupVars, Rollups!vars, Rollups!tables, Rollups!retention
  <2>2. Rollups!PruneHourly
    <3>1. hourly' # hourly
      OBVIOUS
    <3>2. ~ Rollups!Stop /\ ~ UNCHANGED Rollups!vars
      BY <3>1 DEF Rollups!Stop, Rollups!vars, Rollups!tables
    <3> QED BY <2>1, <3>2 DEF Rollups!Next, Rollups!Undisturbed, Rollups!RecordProxy, Rollups!RecordSession,
         Rollups!ImportPrice, Rollups!FillAll, Rollups!FillCosts, Rollups!DeleteHour, Rollups!SumHour,
         Rollups!UnmarkHour, Rollups!HoursDone, Rollups!CostsFail, Rollups!BeginMaintenance, Rollups!Repair,
         Rollups!Prune, Rollups!Activate, Rollups!RetryPending, Rollups!Downgrade, Rollups!Tick, Rollups!At
  <2>3. Rollups!Expired(r)
    BY <2>2 DEF Rollups!PruneHourly
  <2>4. Windowed /\ Recorded(r) /\ record[r].at \in Nat /\ now \in Nat /\ granted \in Nat
    BY <2>3 DEF RollupInv, WorkInv, TableShapes, Rollups!Expired, Recorded, RetentionInv
  <2>5. granted * HoursPerDay <= work.days * HoursPerDay /\ granted * HoursPerDay \in Nat /\ work.days * HoursPerDay \in Nat
    <3>1. work.days \in Nat /\ granted <= work.days /\ HoursPerDay \in Nat
      BY <2>4 DEF Windowed, Windows
    <3>2. granted * HoursPerDay <= work.days * HoursPerDay
      BY <2>4, <3>1, MoreDays
    <3> QED BY <2>4, <3>1, <3>2
  <2>6. Rollups!Hour(r) \in Nat /\ Rollups!HourOf(now) \in Nat
    BY <2>4, DaysAreNumbers DEF Rollups!Hour
  <2> QED BY <2>3, <2>5, <2>6 DEF Rollups!Expired
<1>2. Young <=> (Rollups!At("hourly") => \A r \in Rollups!Rows : hourly[r] # None /\ hourly'[r] = None =>
                    Rollups!Hour(r) + granted * HoursPerDay < Rollups!HourOf(now))
  BY DEF Rollups!At
<1> QED BY <1>1, <1>2, RollupRuns, PTL DEF Spec, GrantedIsKept, Rollups!GrantedIsKept

-----------------------------------------------------------------------------
(* The session log of Codex.                                               *)

\* The path names a file to begin with.
SomeFile == MaxFiles \in Nat \ {0}

FileFields == {"session", "lines", "mtime"}
Lines == [total : Nat, whole : BOOLEAN]

\* Only the last line of a log may be unfinished.
IsLog(lines) ==
    /\ lines \in Seq(Lines)
    /\ \A i \in 1..Len(lines) : i < Len(lines) => lines[i].whole = TRUE
IsFile(x) == DOMAIN x = FileFields /\ x = [k \in FileFields |-> x[k]] /\ IsLog(x.lines)

PassFields == {"pc", "known", "file", "mtime", "offset", "todo", "count", "missed"}
IsPass(q) == DOMAIN q = PassFields /\ q = [k \in PassFields |-> q[k]]

FilesInv ==
    /\ path \in Ingestion!Files /\ files = [f \in Ingestion!Files |-> files[f]]
    /\ \A f \in Ingestion!Files : IsFile(files[f]) /\ (path < f => files[f].lines = <<>>)

RecordOf(f, i) == Ingestion!Record(files[f].session, files[f].lines, i)
UsesOf(f) == Ingestion!Uses(files[f].lines)
WholeLine(f, i) == files[f].lines[i].whole = TRUE

\* The lines up to n are whole and stored, or remembered as missed.
CoveredTo(f, n) ==
    /\ n \in Nat /\ n <= Len(files[f].lines)
    /\ \A i \in 1..n : <<f, i>> \in lost \/ (WholeLine(f, i) /\ (i \in UsesOf(f) => Ingestion!Stored(f, i)))

\* What a pass has read is stored, is missed, or is what it has yet to store.
Reads(f, n, todo, missed) ==
    /\ n \in Nat /\ n <= Len(files[f].lines)
    /\ \A i \in 1..n : \/ <<f, i>> \in lost \cup missed
                       \/ WholeLine(f, i) /\ (i \in UsesOf(f) => Ingestion!Stored(f, i) \/ RecordOf(f, i) \in todo)
    /\ \A r \in todo : \E i \in UsesOf(f) : r = RecordOf(f, i)

PassGood(q) ==
    /\ IsPass(q) /\ q.pc \in {"idle", "listed", "open", "insert"}
    /\ q.pc = "listed" => \A f \in Ingestion!Files : CoveredTo(f, q.known[f].offset)
    /\ q.pc = "open" => q.file \in Ingestion!Files /\ q.file <= path /\ CoveredTo(q.file, q.offset)
    /\ q.pc = "insert" => q.file \in Ingestion!Files /\ q.file <= path /\ Reads(q.file, q.count, q.todo, q.missed)

\* A row is of a use of a file.
Right(r) == \E f \in Ingestion!Files : \E i \in UsesOf(f) : r = Ingestion!Row(RecordOf(f, i))

IngestionInv ==
    /\ FilesInv
    /\ cursors = [f \in Ingestion!Files |-> cursors[f]]
    /\ \A f \in Ingestion!Files : CoveredTo(f, cursors[f].offset)
    /\ pass = [w \in Ingestion!Passes |-> pass[w]] /\ \A w \in Ingestion!Passes : PassGood(pass[w])
    /\ \A r \in logs : Right(r)
    /\ \A e \in events : Right(Ingestion!Row(e))
    /\ Ingestion!Keys(events) \subseteq Ingestion!Keys(logs)

LEMMA TotalBefore ==
  ASSUME NEW lines, IsLog(lines), NEW i \in 1..Len(lines)
  PROVE  Ingestion!Before(lines, i) = IF i = 1 THEN 0 ELSE lines[i - 1].total
<1> DEFINE whole == {j \in 1..(i - 1) : lines[j].whole}
<1>1. Len(lines) \in Nat /\ lines \in Seq(Lines)
  BY DEF IsLog
<1>2. whole = 1..(i - 1)
  <2>1. ASSUME NEW j \in 1..(i - 1) PROVE lines[j].whole
    <3>1. j \in 1..Len(lines) /\ j < Len(lines)
      BY <1>1
    <3> QED BY <3>1 DEF IsLog
  <2> QED BY <2>1
<1>3. Ingestion!Before(lines, i) = IF whole = {} THEN 0 ELSE lines[Ingestion!Max(whole)].total
  BY DEF Ingestion!Before
<1>4. CASE i = 1
  BY <1>2, <1>3, <1>4
<1>5. CASE i # 1
  <2>1. i - 1 \in 1..(i - 1)
    BY <1>1, <1>5
  <2>2. Ingestion!Max(1..(i - 1)) = i - 1
    <3> DEFINE S == 1..(i - 1)
    <3>1. \E x \in S : \A y \in S : x >= y
      BY <2>1
    <3>2. Ingestion!Max(S) \in S /\ \A y \in S : Ingestion!Max(S) >= y
      <4> HIDE DEF S
      <4> QED BY <3>1, Zenon DEF Ingestion!Max
    <3> QED BY <2>1, <3>2
  <2>3. whole # {}
    BY <1>2, <2>1
  <2> HIDE DEF whole
  <2> QED BY <1>2, <1>3, <1>5, <2>2, <2>3
<1> QED BY <1>4, <1>5

\* A log that has grown: whole lines are what they were.
Extends(old, new) ==
    /\ Len(old) <= Len(new)
    /\ \A i \in 1..Len(old) : old[i].whole = TRUE => new[i] = old[i]

LEMMA LinesStay ==
  ASSUME NEW old, NEW new, IsLog(old), IsLog(new), Extends(old, new),
         NEW i \in 1..Len(old), old[i].whole = TRUE
  PROVE  /\ new[i] = old[i] /\ i \in 1..Len(new)
         /\ Ingestion!Delta(new, i) = Ingestion!Delta(old, i)
         /\ i \in Ingestion!Uses(new) <=> i \in Ingestion!Uses(old)
<1>1. Len(old) \in Nat /\ Len(new) \in Nat /\ Len(old) <= Len(new) /\ DOMAIN old = 1..Len(old) /\ DOMAIN new = 1..Len(new)
  BY DEF IsLog, Extends
<1>2. new[i] = old[i] /\ i \in 1..Len(new)
  BY <1>1 DEF Extends
<1>3. i # 1 => new[i - 1] = old[i - 1]
  <2>1. i # 1 => i - 1 \in 1..Len(old) /\ i - 1 < Len(old)
    BY <1>1
  <2> QED BY <2>1 DEF Extends, IsLog
<1>4. Ingestion!Before(new, i) = Ingestion!Before(old, i)
  BY <1>2, <1>3, TotalBefore
<1>5. Ingestion!Delta(new, i) = Ingestion!Delta(old, i)
  BY <1>2, <1>4 DEF Ingestion!Delta
<1> QED BY <1>1, <1>2, <1>5 DEF Ingestion!Uses

LEMMA UsesAreWhole ==
  ASSUME NEW lines, IsLog(lines), NEW i \in Ingestion!Uses(lines)
  PROVE  i \in 1..Len(lines) /\ lines[i].whole = TRUE
<1>1. i \in 1..Len(lines) /\ Ingestion!Delta(lines, i) > 0 /\ lines \in Seq(Lines)
  BY DEF Ingestion!Uses, IsLog
<1>2. lines[i].whole
  BY <1>1 DEF Ingestion!Delta
<1>3. lines[i] \in Lines
  BY <1>1
<1> QED BY <1>1, <1>2, <1>3 DEF Lines

LEMMA RecordsStay ==
  ASSUME NEW old, NEW new, IsLog(old), IsLog(new), Extends(old, new),
         NEW i \in Ingestion!Uses(old), NEW session
  PROVE  i \in Ingestion!Uses(new) /\ Ingestion!Record(session, new, i) = Ingestion!Record(session, old, i)
<1>1. i \in 1..Len(old) /\ old[i].whole = TRUE /\ Len(old) \in Nat /\ Len(new) \in Nat
  <2>1. Len(old) \in Nat /\ Len(new) \in Nat
    BY DEF IsLog
  <2> QED BY <2>1, UsesAreWhole
<1>2. i \in Ingestion!Uses(new) /\ Ingestion!Delta(new, i) = Ingestion!Delta(old, i)
  BY <1>1, LinesStay
<1>3. {j \in Ingestion!Uses(new) : j <= i} = {j \in Ingestion!Uses(old) : j <= i}
  <2>1. ASSUME NEW j \in 1..Len(old), j <= i PROVE j \in Ingestion!Uses(new) <=> j \in Ingestion!Uses(old)
    <3>1. old[j].whole = TRUE
      BY <1>1, <2>1 DEF IsLog
    <3> QED BY <3>1, LinesStay
  <2>2. ASSUME NEW j \in Ingestion!Uses(new), j <= i PROVE j \in 1..Len(old)
    <3>1. j \in 1..Len(new)
      BY UsesAreWhole
    <3> QED BY <1>1, <2>2, <3>1
  <2>3. \A j \in Ingestion!Uses(old) : j \in 1..Len(old)
    BY UsesAreWhole
  <2> QED BY <2>1, <2>2, <2>3
<1> QED BY <1>2, <1>3 DEF Ingestion!Record

\* No whole line of a file changes.
FileGrows(f) ==
    \/ files[f].lines = <<>>
    \/ files'[f].session = files[f].session /\ Extends(files[f].lines, files'[f].lines)

WorldGrows ==
    /\ FilesInv' /\ path \in Nat /\ path' \in Nat /\ path <= path' /\ lost \subseteq lost'
    /\ Ingestion!Keys(logs) \subseteq Ingestion!Keys(logs')
    /\ \A f \in Ingestion!Files : FileGrows(f)

LEMMA UsesStay ==
  ASSUME FilesInv, WorldGrows, NEW f \in Ingestion!Files, NEW i \in UsesOf(f)
  PROVE  i \in UsesOf(f)' /\ RecordOf(f, i)' = RecordOf(f, i) /\ (Ingestion!Stored(f, i) => Ingestion!Stored(f, i)')
<1>1. IsLog(files[f].lines) /\ IsLog(files'[f].lines) /\ FileGrows(f)
  BY DEF FilesInv, IsFile, WorldGrows
<1>2. i \in 1..Len(files[f].lines)
  BY <1>1, UsesAreWhole DEF UsesOf
<1>3. files'[f].session = files[f].session /\ Extends(files[f].lines, files'[f].lines)
  BY <1>1, <1>2 DEF FileGrows
<1>4. /\ i \in Ingestion!Uses(files'[f].lines)
      /\ Ingestion!Record(files[f].session, files'[f].lines, i) = Ingestion!Record(files[f].session, files[f].lines, i)
  BY <1>1, <1>3, RecordsStay DEF UsesOf
<1> QED BY <1>3, <1>4 DEF UsesOf, RecordOf, Ingestion!Stored, WorldGrows

LEMMA LinesKeep ==
  ASSUME FilesInv, WorldGrows, NEW f \in Ingestion!Files, NEW i \in 1..Len(files[f].lines), WholeLine(f, i)
  PROVE  WholeLine(f, i)' /\ (i \in UsesOf(f)' => i \in UsesOf(f))
<1>1. IsLog(files[f].lines) /\ IsLog(files'[f].lines) /\ FileGrows(f)
  BY DEF FilesInv, IsFile, WorldGrows
<1>2. Extends(files[f].lines, files'[f].lines)
  BY <1>1 DEF FileGrows
<1>3. files[f].lines[i].whole = TRUE
  BY DEF WholeLine
<1>4. /\ files'[f].lines[i] = files[f].lines[i]
      /\ i \in Ingestion!Uses(files'[f].lines) <=> i \in Ingestion!Uses(files[f].lines)
  <2> DEFINE old == files[f].lines
             new == files'[f].lines
  <2>1. IsLog(old) /\ IsLog(new) /\ Extends(old, new) /\ i \in 1..Len(old) /\ old[i].whole = TRUE
    BY <1>1, <1>2, <1>3
  <2> HIDE DEF old, new
  <2>2. new[i] = old[i] /\ (i \in Ingestion!Uses(new) <=> i \in Ingestion!Uses(old))
    BY <2>1, LinesStay
  <2> QED BY <2>2 DEF old, new
<1> QED BY <1>3, <1>4 DEF WholeLine, UsesOf

LEMMA LongerYet ==
  ASSUME FilesInv, WorldGrows, NEW f \in Ingestion!Files
  PROVE  Len(files[f].lines) \in Nat /\ Len(files'[f].lines) \in Nat /\ Len(files[f].lines) <= Len(files'[f].lines)
<1>1. IsLog(files[f].lines) /\ IsLog(files'[f].lines) /\ FileGrows(f)
  BY DEF FilesInv, IsFile, WorldGrows
<1> QED BY <1>1 DEF FileGrows, Extends, IsLog

LEMMA CoverStays ==
  ASSUME FilesInv, WorldGrows, NEW f \in Ingestion!Files, NEW n, CoveredTo(f, n)
  PROVE  CoveredTo(f, n)'
<1>1. n \in Nat /\ n <= Len(files[f].lines) /\ n <= Len(files'[f].lines)
  BY LongerYet DEF CoveredTo
<1>2. ASSUME NEW i \in 1..n
      PROVE  <<f, i>> \in lost' \/ (WholeLine(f, i)' /\ (i \in UsesOf(f)' => Ingestion!Stored(f, i)'))
  <2>1. CASE <<f, i>> \in lost
    BY <2>1 DEF WorldGrows
  <2>2. CASE WholeLine(f, i) /\ (i \in UsesOf(f) => Ingestion!Stored(f, i))
    <3>1. WholeLine(f, i)' /\ (i \in UsesOf(f)' => i \in UsesOf(f))
      BY <1>1, <2>2, LongerYet, LinesKeep
    <3> QED BY <2>2, <3>1, UsesStay
  <2> QED BY <2>1, <2>2 DEF CoveredTo
<1> QED BY <1>1, <1>2 DEF CoveredTo

LEMMA ReadsStay ==
  ASSUME FilesInv, WorldGrows, NEW f \in Ingestion!Files, NEW n, NEW todo, NEW missed, Reads(f, n, todo, missed)
  PROVE  Reads(f, n, todo, missed)'
<1>1. n \in Nat /\ n <= Len(files[f].lines) /\ n <= Len(files'[f].lines)
  BY LongerYet DEF Reads
<1>2. ASSUME NEW i \in 1..n
      PROVE  \/ <<f, i>> \in lost' \cup missed
             \/ WholeLine(f, i)' /\ (i \in UsesOf(f)' => Ingestion!Stored(f, i)' \/ RecordOf(f, i)' \in todo)
  <2>1. CASE <<f, i>> \in lost \cup missed
    BY <2>1 DEF WorldGrows
  <2>2. CASE WholeLine(f, i) /\ (i \in UsesOf(f) => Ingestion!Stored(f, i) \/ RecordOf(f, i) \in todo)
    <3>1. WholeLine(f, i)' /\ (i \in UsesOf(f)' => i \in UsesOf(f))
      BY <1>1, <2>2, LongerYet, LinesKeep
    <3> QED BY <2>2, <3>1, UsesStay
  <2> QED BY <2>1, <2>2 DEF Reads
<1>3. ASSUME NEW r \in todo PROVE \E i \in UsesOf(f)' : r = RecordOf(f, i)'
  <2>1. PICK i \in UsesOf(f) : r = RecordOf(f, i)
    BY DEF Reads
  <2> QED BY <2>1, UsesStay
<1> QED BY <1>1, <1>2, <1>3 DEF Reads

LEMMA RightStays == ASSUME FilesInv, WorldGrows, NEW r, Right(r) PROVE Right(r)'
<1>1. PICK f \in Ingestion!Files : \E i \in UsesOf(f) : r = Ingestion!Row(RecordOf(f, i))
  BY DEF Right
<1> PICK i \in UsesOf(f) : r = Ingestion!Row(RecordOf(f, i))
  BY <1>1
<1>2. i \in UsesOf(f)' /\ RecordOf(f, i)' = RecordOf(f, i)
  BY UsesStay
<1>3. Ingestion!Row(RecordOf(f, i))' = Ingestion!Row(RecordOf(f, i))
  BY <1>2 DEF Ingestion!Row
<1> QED BY <1>2, <1>3 DEF Right

\* A pass that does not move.
LEMMA PassStays == ASSUME SomeFile, FilesInv, WorldGrows, NEW q, PassGood(q) PROVE PassGood(q)'
<1>1. q.pc = "listed" => \A f \in Ingestion!Files : CoveredTo(f, q.known[f].offset)'
  BY CoverStays DEF PassGood
<1>2. ASSUME q.file \in Ingestion!Files, q.file <= path PROVE q.file <= path'
  <2>1. q.file \in Nat /\ path \in Nat /\ path' \in Nat /\ path <= path'
    BY <1>2 DEF Ingestion!Files, SomeFile, WorldGrows
  <2> QED BY <1>2, <2>1
<1>3. q.pc = "open" => q.file \in Ingestion!Files /\ q.file <= path' /\ CoveredTo(q.file, q.offset)'
  BY <1>2, CoverStays DEF PassGood
<1>4. q.pc = "insert" => q.file \in Ingestion!Files /\ q.file <= path' /\ Reads(q.file, q.count, q.todo, q.missed)'
  BY <1>2, ReadsStay DEF PassGood
<1> QED BY <1>1, <1>3, <1>4 DEF PassGood

\* A step under which the files grow keeps what does not move.
LEMMA IngestionGoes ==
  ASSUME SomeFile, IngestionInv, WorldGrows,
         cursors' = [f \in Ingestion!Files |-> cursors'[f]], pass' = [w \in Ingestion!Passes |-> pass'[w]],
         \A f \in Ingestion!Files : cursors'[f] = cursors[f] \/ CoveredTo(f, cursors[f].offset)',
         \A w \in Ingestion!Passes : pass'[w] = pass[w] \/ PassGood(pass[w])',
         \A r \in logs' : r \in logs \/ Right(r)',
         \A e \in events' : e \in events \/ Right(Ingestion!Row(e))',
         Ingestion!Keys(events') \subseteq Ingestion!Keys(logs')
  PROVE  IngestionInv'
<1>1. FilesInv /\ FilesInv'
  BY DEF IngestionInv, WorldGrows
<1>2. ASSUME NEW f \in Ingestion!Files, cursors'[f] = cursors[f] PROVE CoveredTo(f, cursors[f].offset)'
  <2>1. PICK n : n = cursors[f].offset
    OBVIOUS
  <2>2. CoveredTo(f, n)
    BY <2>1 DEF IngestionInv
  <2>3. CoveredTo(f, n)'
    BY <1>1, <2>2, CoverStays
  <2> QED BY <1>2, <2>1, <2>3
<1>3. ASSUME NEW w \in Ingestion!Passes, pass'[w] = pass[w] PROVE PassGood(pass[w])'
  <2>1. PICK q : q = pass[w]
    OBVIOUS
  <2>2. PassGood(q)
    BY <2>1 DEF IngestionInv
  <2>3. PassGood(q)'
    BY <1>1, <2>2, PassStays
  <2> QED BY <1>3, <2>1, <2>3
<1>4. \A r \in logs' : Right(r)'
  BY <1>1, RightStays DEF IngestionInv
<1>5. \A e \in events' : Right(Ingestion!Row(e))'
  <2>1. ASSUME NEW e \in events PROVE Right(Ingestion!Row(e))'
    <3>1. PICK r : r = Ingestion!Row(e)
      OBVIOUS
    <3>2. Right(r)
      BY <3>1 DEF IngestionInv
    <3>3. Right(r)'
      BY <1>1, <3>2, RightStays
    <3> QED BY <3>1, <3>3
  <2> QED BY <2>1
<1>6. \A f \in Ingestion!Files : CoveredTo(f, cursors[f].offset)'
  BY <1>2
<1>7. \A w \in Ingestion!Passes : PassGood(pass[w])'
  BY <1>3
<1> QED BY <1>1, <1>4, <1>5, <1>6, <1>7 DEF IngestionInv

LEMMA Standing ==
  ASSUME SomeFile, IngestionInv, UNCHANGED <<files, path>>, lost \subseteq lost',
         Ingestion!Keys(logs) \subseteq Ingestion!Keys(logs')
  PROVE  WorldGrows
<1>1. path \in Nat /\ FilesInv /\ FilesInv'
  BY DEF IngestionInv, FilesInv, SomeFile, Ingestion!Files
<1>2. ASSUME NEW f \in Ingestion!Files PROVE FileGrows(f)
  <2>1. Len(files[f].lines) \in Nat
    BY <1>1 DEF FilesInv, IsFile, IsLog
  <2> QED BY <2>1 DEF FileGrows, Extends
<1> QED BY <1>1, <1>2 DEF WorldGrows

\* A step of one pass that leaves files and tables alone.
LEMMA PassMoves ==
  ASSUME SomeFile, IngestionInv, NEW w \in Ingestion!Passes, NEW q, PassGood(q), pass' = [pass EXCEPT ![w] = q],
         UNCHANGED <<files, path, cursors, events, logs, lost>>
  PROVE  IngestionInv'
<1>1. WorldGrows
  BY Standing
<1>2. pass' = [v \in Ingestion!Passes |-> pass'[v]] /\ pass'[w] = q /\ \A v \in Ingestion!Passes \ {w} : pass'[v] = pass[v]
  BY DEF IngestionInv
<1>3. PassGood(q)'
  BY <1>1, PassStays DEF IngestionInv
<1>4. PassGood(pass[w])'
  BY <1>2, <1>3
<1>5. Ingestion!Keys(events') \subseteq Ingestion!Keys(logs') /\ cursors' = [f \in Ingestion!Files |-> cursors'[f]]
  BY DEF IngestionInv
<1> QED BY <1>1, <1>2, <1>4, <1>5, IngestionGoes

LEMMA PassIdle == IsPass(Ingestion!Idle) /\ Ingestion!Idle.pc = "idle" /\ PassGood(Ingestion!Idle)
<1>1. IsPass(Ingestion!Idle) /\ Ingestion!Idle.pc = "idle"
  BY DEF Ingestion!Idle, IsPass, PassFields
<1> QED BY <1>1 DEF PassGood

LEMMA NextIsThere ==
  ASSUME NEW w \in Ingestion!Passes, pass[w].todo # {}, \A r \in pass[w].todo : r.line \in Nat
  PROVE  Ingestion!Next1(w) \in pass[w].todo
<1> DEFINE S == {r.line : r \in pass[w].todo}
<1>1. S \in SUBSET Nat /\ S # {}
  OBVIOUS
<1>2. PICK n \in S : \A m \in S : <<m, n>> \notin OpToRel(<, Nat)
  <2> HIDE DEF S
  <2> QED BY <1>1, NatLessThanWellFounded, WFMin, Zenon
<1>3. \A m \in S : ~ (m < n)
  <2> HIDE DEF S
  <2> QED BY <1>1, <1>2, Zenon DEF OpToRel
<1>4. \A m \in S : n <= m
  <2> HIDE DEF S
  <2> QED BY <1>1, <1>3
<1>5. PICK r \in pass[w].todo : r.line = n
  OBVIOUS
<1>6. \A s \in pass[w].todo : r.line <= s.line
  BY <1>4, <1>5
<1>7. \E k \in pass[w].todo : \A s \in pass[w].todo : k.line <= s.line
  BY <1>6
<1> QED BY <1>7, Zenon DEF Ingestion!Next1

LEMMA IngestionStarts == ASSUME SomeFile PROVE Init => IngestionInv
<1> SUFFICES ASSUME Init PROVE IngestionInv
  OBVIOUS
<1> DEFINE first == [session |-> 1, lines |-> <<>>, mtime |-> 1]
<1>1. /\ files = [f \in Ingestion!Files |-> IF f = 1 THEN first ELSE Ingestion!NoFile]
      /\ path = 1 /\ cursors = Ingestion!NoCursors /\ events = {} /\ logs = {} /\ lost = {}
      /\ pass = [w \in Ingestion!Passes |-> Ingestion!Idle]
  BY DEF Init, Ingestion!Init
<1>2. IsFile(first) /\ first.lines = <<>> /\ IsFile(Ingestion!NoFile) /\ Ingestion!NoFile.lines = <<>>
  BY DEF Ingestion!NoFile, IsFile, FileFields, IsLog
<1> HIDE DEF first
<1>3. 1 \in Ingestion!Files /\ \A f \in Ingestion!Files : IsFile(files[f]) /\ files[f].lines = <<>>
  BY <1>1, <1>2 DEF Ingestion!Files, SomeFile
<1>4. FilesInv
  BY <1>1, <1>3 DEF FilesInv
<1>5. \A f \in Ingestion!Files : CoveredTo(f, cursors[f].offset)
  BY <1>1, <1>3 DEF CoveredTo, Ingestion!NoCursors, Ingestion!NoCursor
<1>6. \A w \in Ingestion!Passes : PassGood(pass[w])
  BY <1>1, PassIdle
<1>7. Ingestion!Keys(events) \subseteq Ingestion!Keys(logs)
  BY <1>1 DEF Ingestion!Keys
<1>8. cursors = [f \in Ingestion!Files |-> cursors[f]]
  BY <1>1 DEF Ingestion!NoCursors
<1> QED BY <1>1, <1>4, <1>5, <1>6, <1>7, <1>8 DEF IngestionInv

LEMMA IngestionSteps == ASSUME SomeFile, IngestionInv, [Ingestion!Next]_(Ingestion!vars) PROVE IngestionInv'
<1> USE DEF Ingestion!At, Ingestion!world, Ingestion!tables
<1> /\ FilesInv /\ pass = [w \in Ingestion!Passes |-> pass[w]]
    /\ \A w \in Ingestion!Passes : PassGood(pass[w]) /\ IsPass(pass[w])
  BY DEF IngestionInv, PassGood
<1> path \in Ingestion!Files /\ path \in Nat /\ \A f \in Ingestion!Files : f \in Nat /\ IsLog(files[f].lines)
  BY DEF FilesInv, SomeFile, Ingestion!Files, IsFile
<1>1. ASSUME NEW w \in Ingestion!Passes, Ingestion!List(w) PROVE IngestionInv'
  <2> DEFINE q == [Ingestion!Idle EXCEPT !.pc = "listed", !.known = cursors]
  <2>1. pass' = [pass EXCEPT ![w] = q] /\ UNCHANGED <<files, path, cursors, events, logs, lost>>
    BY <1>1 DEF Ingestion!List
  <2>2. IsPass(q) /\ q.pc = "listed" /\ q.known = cursors
    BY PassIdle DEF IsPass, PassFields
  <2> HIDE DEF q
  <2>3. PassGood(q)
    BY <2>2 DEF PassGood, IngestionInv
  <2> QED BY <2>1, <2>3, PassMoves
<1>2. ASSUME NEW w \in Ingestion!Passes, Ingestion!Stop(w), UNCHANGED <<files, path, cursors, events, logs, lost>>
      PROVE  IngestionInv'
  BY <1>2, PassMoves, PassIdle DEF Ingestion!Stop
<1>3. ASSUME NEW w \in Ingestion!Passes, Ingestion!Open(w) PROVE IngestionInv'
  <2> DEFINE known == pass[w].known
             q == [Ingestion!Idle EXCEPT !.pc = "open", !.file = path, !.mtime = files[path].mtime,
                                         !.offset = Ingestion!CursorOf(known, path).offset]
  <2>1. /\ pass[w].pc = "listed" /\ UNCHANGED <<files, path, cursors, events, logs, lost>>
        /\ Ingestion!Stop(w) \/ pass' = [pass EXCEPT ![w] = q]
    BY <1>3 DEF Ingestion!Open
  <2>2. IsPass(q) /\ q.pc = "open" /\ q.file = path /\ q.offset = known[path].offset
    BY PassIdle DEF IsPass, PassFields, Ingestion!CursorOf
  <2>3. CoveredTo(path, known[path].offset)
    BY <2>1 DEF PassGood
  <2> HIDE DEF q, known
  <2>4. PassGood(q)
    BY <2>2, <2>3 DEF PassGood
  <2> QED BY <1>2, <2>1, <2>4, PassMoves
<1>4. ASSUME NEW w \in Ingestion!Passes, Ingestion!Read(w) PROVE IngestionInv'
  <2> DEFINE f == pass[w].file
             log == files[f]
             todo == Ingestion!Parse(log.session, log.lines, pass[w].offset)
             missed == {<<f, i>> : i \in {j \in DOMAIN log.lines : ~ log.lines[j].whole}}
             q == [pass[w] EXCEPT !.pc = "insert", !.todo = todo, !.offset = 0, !.count = Len(log.lines), !.missed = missed]
  <2>1. pass[w].pc = "open" /\ UNCHANGED <<files, path, cursors, events, logs, lost>> /\ pass' = [pass EXCEPT ![w] = q]
    BY <1>4 DEF Ingestion!Read
  <2>2. IsPass(q) /\ q.pc = "insert" /\ q.file = f /\ q.todo = todo /\ q.count = Len(log.lines) /\ q.missed = missed
    <3>1. PICK old : old = pass[w] /\ IsPass(old)
      OBVIOUS
    <3>2. q = [old EXCEPT !.pc = "insert", !.todo = todo, !.offset = 0, !.count = Len(log.lines), !.missed = missed]
      BY <3>1
    <3>3. old.file = f
      BY <3>1
    <3> HIDE DEF todo, missed, log, f, q
    <3> QED BY <3>1, <3>2, <3>3 DEF IsPass, PassFields
  <2>3. f \in Ingestion!Files /\ f <= path /\ CoveredTo(f, pass[w].offset)
    BY <2>1 DEF PassGood
  <2>4. Len(log.lines) \in Nat /\ DOMAIN log.lines = 1..Len(log.lines) /\ \A i \in 1..Len(log.lines) : log.lines[i].whole \in BOOLEAN
    <3>1. IsLog(log.lines)
      BY <2>3
    <3>2. log.lines \in Seq(Lines)
      BY <3>1 DEF IsLog
    <3> DEFINE lines == log.lines
    <3>3. lines \in Seq(Lines)
      BY <3>2
    <3> HIDE DEF lines
    <3>4. Len(lines) \in Nat /\ DOMAIN lines = 1..Len(lines) /\ \A i \in 1..Len(lines) : lines[i] \in Lines
      BY <3>3
    <3>5. \A i \in 1..Len(lines) : lines[i].whole \in BOOLEAN
      BY <3>4 DEF Lines
    <3> QED BY <3>4, <3>5 DEF lines
  <2>5. todo = {RecordOf(f, i) : i \in {u \in UsesOf(f) : u > pass[w].offset}}
    BY DEF Ingestion!Parse, RecordOf, UsesOf
  <2>6. ASSUME NEW i \in 1..Len(log.lines)
        PROVE  \/ <<f, i>> \in lost \cup missed
               \/ WholeLine(f, i) /\ (i \in UsesOf(f) => Ingestion!Stored(f, i) \/ RecordOf(f, i) \in todo)
    <3>1. CASE ~ WholeLine(f, i)
      <4>1. ~ log.lines[i].whole
        BY <2>4, <3>1 DEF WholeLine
      <4> QED BY <2>4, <4>1
    <3>2. CASE WholeLine(f, i) /\ i > pass[w].offset
      BY <2>5, <3>2
    <3>3. CASE WholeLine(f, i) /\ ~ (i > pass[w].offset)
      <4>1. i \in 1..pass[w].offset
        BY <2>3, <2>4, <3>3 DEF CoveredTo
      <4> QED BY <2>3, <3>3, <4>1 DEF CoveredTo
    <3> QED BY <3>1, <3>2, <3>3
  <2>7. \A r \in todo : \E i \in UsesOf(f) : r = RecordOf(f, i)
    BY <2>5
  <2> HIDE DEF todo, missed, q
  <2>8. Reads(f, Len(log.lines), todo, missed)
    BY <2>4, <2>6, <2>7 DEF Reads
  <2> HIDE DEF f, log
  <2>9. PassGood(q)
    BY <2>2, <2>3, <2>8 DEF PassGood
  <2>10. PICK p : p = q
    OBVIOUS
  <2>11. PassGood(p) /\ pass' = [pass EXCEPT ![w] = p] /\ UNCHANGED <<files, path, cursors, events, logs, lost>>
    BY <2>1, <2>9, <2>10
  <2> QED BY <2>11, PassMoves
<1>5. ASSUME NEW w \in Ingestion!Passes, pass[w].pc = "insert", pass[w].todo # {}
      PROVE  /\ Ingestion!Next1(w) \in pass[w].todo
             /\ pass[w].file \in Ingestion!Files /\ pass[w].file <= path
             /\ Reads(pass[w].file, pass[w].count, pass[w].todo, pass[w].missed)
             /\ \E i \in UsesOf(pass[w].file) : Ingestion!Next1(w) = RecordOf(pass[w].file, i)
  <2>1. /\ pass[w].file \in Ingestion!Files /\ pass[w].file <= path
        /\ Reads(pass[w].file, pass[w].count, pass[w].todo, pass[w].missed)
    BY <1>5 DEF PassGood
  <2>2. ASSUME NEW r \in pass[w].todo PROVE r.line \in Nat
    <3>1. PICK i \in UsesOf(pass[w].file) : r = RecordOf(pass[w].file, i)
      BY <2>1 DEF Reads
    <3>2. i \in Nat
      <4>1. IsLog(files[pass[w].file].lines)
        BY <2>1
      <4>2. i \in 1..Len(files[pass[w].file].lines)
        BY <4>1, UsesAreWhole DEF UsesOf
      <4> QED BY <4>2
    <3> QED BY <3>1, <3>2 DEF RecordOf, Ingestion!Record
  <2>3. Ingestion!Next1(w) \in pass[w].todo
    BY <1>5, <2>2, NextIsThere
  <2> QED BY <2>1, <2>3 DEF Reads
<1>6. ASSUME NEW w \in Ingestion!Passes, Ingestion!Insert(w) PROVE IngestionInv'
  <2> DEFINE r == Ingestion!Next1(w)
             f == pass[w].file
             todo == pass[w].todo
             q == [pass[w] EXCEPT !.todo = todo \ {r}]
  <2>1. /\ pass[w].pc = "insert" /\ todo # {} /\ UNCHANGED <<files, path, cursors, lost>> /\ pass' = [pass EXCEPT ![w] = q]
        /\ IF w = "bound" /\ Ingestion!Key(r) \notin Ingestion!Keys(events)
           THEN events' = events \cup {[session |-> r.session, number |-> r.number, delta |-> r.delta, owner |-> owner]}
           ELSE UNCHANGED events
        /\ IF (w = "bound" /\ Ingestion!Key(r) \in Ingestion!Keys(events)) \/ Ingestion!Key(r) \in Ingestion!Keys(logs)
           THEN UNCHANGED logs
           ELSE logs' = logs \cup {Ingestion!Row(r)}
    BY <1>6 DEF Ingestion!Insert
  <2>2. IsPass(q) /\ q.pc = "insert" /\ q.file = f /\ q.todo = todo \ {r} /\ q.count = pass[w].count /\ q.missed = pass[w].missed
    BY <2>1 DEF IsPass, PassFields
  <2>3. r \in todo /\ f \in Ingestion!Files /\ f <= path /\ Reads(f, q.count, todo, q.missed)
        /\ \E i \in UsesOf(f) : r = RecordOf(f, i)
    BY <1>5, <2>1, <2>2
  <2>4. /\ Ingestion!Row(r).session = r.session /\ Ingestion!Row(r).number = r.number
        /\ Ingestion!Key(Ingestion!Row(r)) = Ingestion!Key(r)
    BY DEF Ingestion!Row, Ingestion!Key
  <2> DEFINE e == [session |-> r.session, number |-> r.number, delta |-> r.delta, owner |-> owner]
  <2>5. Ingestion!Row(e) = Ingestion!Row(r) /\ Ingestion!Key(e) = Ingestion!Key(r)
    BY DEF Ingestion!Row, Ingestion!Key
  <2>6. Right(Ingestion!Row(r))
    BY <2>3 DEF Right
  <2> HIDE DEF r, f, todo, q, e
  <2>7. Ingestion!Keys(events) \subseteq Ingestion!Keys(logs)
    BY DEF IngestionInv
  <2>8. Ingestion!Key(r) \in Ingestion!Keys(logs') /\ Ingestion!Keys(logs) \subseteq Ingestion!Keys(logs')
    <3>1. CASE logs' = logs
      BY <2>1, <2>4, <2>7, <3>1 DEF Ingestion!Keys
    <3>2. CASE logs' = logs \cup {Ingestion!Row(r)}
      BY <2>4, <3>2 DEF Ingestion!Keys
    <3> QED BY <2>1, <3>1, <3>2
  <2>9. WorldGrows
    BY <2>1, <2>8, Standing
  <2>10. Ingestion!Keys(events') \subseteq Ingestion!Keys(logs')
    <3>1. events' = events \/ events' = events \cup {e}
      BY <2>1 DEF e
    <3>2. Ingestion!Keys(events') \subseteq Ingestion!Keys(events) \cup {Ingestion!Key(r)}
      BY <2>5, <3>1 DEF Ingestion!Keys
    <3> QED BY <2>7, <2>8, <3>2
  <2>11. PICK row : row = Ingestion!Row(r)
    OBVIOUS
  <2>12. Right(row)'
    BY <2>6, <2>9, <2>11, RightStays
  <2>13. \A x \in logs' : x \in logs \/ Right(x)'
    <3>1. \A x \in logs' : x \in logs \/ x = row
      BY <2>1, <2>11
    <3> QED BY <2>12, <3>1
  <2>14. \A x \in events' : x \in events \/ Right(Ingestion!Row(x))'
    <3>1. \A x \in events' : x \in events \/ Ingestion!Row(x) = row
      BY <2>1, <2>5, <2>11 DEF e
    <3> QED BY <2>12, <3>1
  <2>15. PICK p : p = q
    OBVIOUS
  <2>16. PassGood(p)'
    <3>1. PICK t : t = todo
      OBVIOUS
    <3>2. Reads(f, q.count, t, q.missed)
      BY <2>3, <3>1
    <3>3. p.file = f /\ p.count = q.count /\ p.missed = q.missed /\ IsPass(p) /\ p.pc = "insert" /\ p.todo = t \ {r}
      BY <2>2, <2>15, <3>1
    <3>4. Reads(p.file, p.count, t, p.missed)'
      BY <2>3, <2>9, <3>2, <3>3, ReadsStay
    <3>5. p.file <= path'
      BY <2>1, <2>3, <3>3
    <3>6. Reads(p.file, p.count, p.todo, p.missed)'
      <4>1. ASSUME NEW i \in UsesOf(p.file)', RecordOf(p.file, i)' = r PROVE Ingestion!Stored(p.file, i)'
        BY <2>8, <4>1 DEF Ingestion!Stored, RecordOf
      <4> QED BY <3>3, <3>4, <4>1 DEF Reads
    <3> QED BY <2>3, <3>3, <3>5, <3>6 DEF PassGood
  <2>17. pass' = [v \in Ingestion!Passes |-> pass'[v]] /\ pass'[w] = p /\ \A v \in Ingestion!Passes \ {w} : pass'[v] = pass[v]
    BY <2>1, <2>15
  <2>18. PassGood(pass[w])'
    BY <2>16, <2>17
  <2>19. cursors' = [g \in Ingestion!Files |-> cursors'[g]] /\ cursors' = cursors
    BY <2>1 DEF IngestionInv
  <2> QED BY <2>9, <2>10, <2>13, <2>14, <2>17, <2>18, <2>19, IngestionGoes
<1>7. ASSUME NEW w \in Ingestion!Passes, Ingestion!InsertFails(w) PROVE IngestionInv'
  <2> DEFINE r == Ingestion!Next1(w)
             f == pass[w].file
             todo == pass[w].todo
             missed == pass[w].missed \cup {<<f, r.line>>}
             q == [pass[w] EXCEPT !.todo = todo \ {r}, !.missed = missed]
  <2>1. pass[w].pc = "insert" /\ todo # {} /\ UNCHANGED <<files, path, cursors, events, logs, lost>>
    BY <1>7 DEF Ingestion!InsertFails
  <2>2. CASE w # "unbound"
    BY <1>2, <1>7, <2>1, <2>2 DEF Ingestion!InsertFails, Ingestion!GoesOn
  <2>3. CASE w = "unbound"
    <3>1. pass' = [pass EXCEPT ![w] = q]
      BY <1>7, <2>3 DEF Ingestion!InsertFails, Ingestion!GoesOn
    <3>2. IsPass(q) /\ q.pc = "insert" /\ q.file = f /\ q.todo = todo \ {r} /\ q.count = pass[w].count /\ q.missed = missed
      BY <2>1 DEF IsPass, PassFields
    <3>3. /\ r \in todo /\ f \in Ingestion!Files /\ f <= path /\ Reads(f, q.count, todo, pass[w].missed)
          /\ \E i \in UsesOf(f) : r = RecordOf(f, i)
      BY <1>5, <2>1, <3>2
    <3>4. \A i \in UsesOf(f) : RecordOf(f, i) = r => i = r.line
      BY DEF RecordOf, Ingestion!Record
    <3> HIDE DEF r, f, todo, q
    <3>5. Reads(f, q.count, todo \ {r}, missed)
      BY <3>3, <3>4 DEF Reads
    <3> HIDE DEF missed
    <3>6. PassGood(q)
      BY <3>2, <3>3, <3>5 DEF PassGood
    <3> QED BY <2>1, <3>1, <3>6, PassMoves
  <2> QED BY <2>2, <2>3
<1>8. ASSUME NEW w \in Ingestion!Passes, Ingestion!Advance(w) PROVE IngestionInv'
  <2> DEFINE f == pass[w].file
             n == pass[w].count
             cursor == [modified |-> Ingestion!SeenAt(w), offset |-> n]
  <2>1. /\ pass[w].pc = "insert" /\ pass[w].todo = {} /\ UNCHANGED <<files, path, events, logs>>
        /\ cursors' = [cursors EXCEPT ![f] = cursor] /\ lost' = lost \cup pass[w].missed
        /\ pass' = [pass EXCEPT ![w] = Ingestion!Idle]
    BY <1>8 DEF Ingestion!Advance, Ingestion!Stop
  <2>2. f \in Ingestion!Files /\ Reads(f, n, {}, pass[w].missed) /\ cursor.offset = n
    BY <2>1 DEF PassGood
  <2>3. WorldGrows
    BY <2>1, Standing
  <2> HIDE DEF f, n, cursor
  <2>4. PICK m, g : m = n /\ g = f
    OBVIOUS
  <2>5. CoveredTo(g, m)'
    <3>1. /\ m \in Nat /\ m <= Len(files[g].lines)
          /\ \A i \in 1..m : \/ <<g, i>> \in lost'
                             \/ WholeLine(g, i) /\ (i \in UsesOf(g) => Ingestion!Stored(g, i))
      BY <2>1, <2>2, <2>4 DEF Reads
    <3>2. \A i : /\ WholeLine(g, i)' <=> WholeLine(g, i)
                 /\ i \in UsesOf(g)' <=> i \in UsesOf(g)
                 /\ Ingestion!Stored(g, i)' <=> Ingestion!Stored(g, i)
      BY <2>1 DEF WholeLine, UsesOf, Ingestion!Stored
    <3> QED BY <2>1, <3>1, <3>2 DEF CoveredTo
  <2>6. /\ cursors' = [h \in Ingestion!Files |-> cursors'[h]] /\ cursors'[g].offset = m
        /\ \A h \in Ingestion!Files \ {g} : cursors'[h] = cursors[h]
    BY <2>1, <2>2, <2>4 DEF IngestionInv
  <2>7. CoveredTo(g, cursors[g].offset)'
    BY <2>5, <2>6
  <2>8. \A h \in Ingestion!Files : cursors'[h] = cursors[h] \/ CoveredTo(h, cursors[h].offset)'
    BY <2>6, <2>7
  <2>9. /\ pass' = [v \in Ingestion!Passes |-> pass'[v]] /\ pass'[w] = Ingestion!Idle
        /\ \A v \in Ingestion!Passes \ {w} : pass'[v] = pass[v]
    BY <2>1
  <2>10. PassGood(pass[w])'
    BY <2>9, PassIdle DEF PassGood
  <2>11. Ingestion!Keys(events') \subseteq Ingestion!Keys(logs')
    BY <2>1 DEF IngestionInv
  <2> QED BY <2>1, <2>3, <2>6, <2>8, <2>9, <2>10, <2>11, IngestionGoes
<1>9. ASSUME NEW w \in Ingestion!Passes, Ingestion!Fails(w) PROVE IngestionInv'
  BY <1>2, <1>9 DEF Ingestion!Fails
<1>10. ASSUME UNCHANGED <<files, path, cursors, events, logs, lost>>,
              pass' = pass \/ pass' = [w \in Ingestion!Passes |-> Ingestion!Idle]
       PROVE  IngestionInv'
  <2>1. WorldGrows
    BY <1>10, Standing
  <2>2. pass' = [w \in Ingestion!Passes |-> pass'[w]]
    BY <1>10
  <2>3. \A w \in Ingestion!Passes : pass'[w] = pass[w] \/ pass'[w] = Ingestion!Idle
    BY <1>10
  <2>4. \A w \in Ingestion!Passes : pass'[w] = pass[w] \/ PassGood(pass[w])'
    BY <2>3, PassIdle DEF PassGood
  <2>5. Ingestion!Keys(events') \subseteq Ingestion!Keys(logs') /\ cursors' = [f \in Ingestion!Files |-> cursors'[f]]
    BY <1>10 DEF IngestionInv
  <2> QED BY <1>10, <2>1, <2>2, <2>4, <2>5, IngestionGoes
<1>11. ASSUME WorldGrows, UNCHANGED <<cursors, events, logs, lost, pass>> PROVE IngestionInv'
  <2>1. Ingestion!Keys(events') \subseteq Ingestion!Keys(logs') /\ cursors' = [f \in Ingestion!Files |-> cursors'[f]]
    BY <1>11 DEF IngestionInv
  <2> QED BY <1>11, <2>1, IngestionGoes
<1>12. ASSUME NEW lines, IsLog(lines), Extends(files[path].lines, lines), Ingestion!Write(lines) PROVE IngestionInv'
  <2> DEFINE new == [files[path] EXCEPT !.lines = lines, !.mtime = clock']
  <2>1. files' = [files EXCEPT ![path] = new] /\ UNCHANGED <<path, cursors, events, logs, pass, lost>>
    BY <1>12 DEF Ingestion!Write
  <2>2. IsFile(files[path])
    BY DEF FilesInv
  <2>3. IsFile(new) /\ new.lines = lines /\ new.session = files[path].session
    BY <1>12, <2>2 DEF IsFile, FileFields
  <2> HIDE DEF new
  <2>4. /\ files' = [f \in Ingestion!Files |-> files'[f]] /\ files'[path] = new
        /\ \A f \in Ingestion!Files \ {path} : files'[f] = files[f]
    BY <2>1 DEF FilesInv
  <2>5. FilesInv'
    BY <2>1, <2>3, <2>4 DEF FilesInv
  <2>6. ASSUME NEW f \in Ingestion!Files PROVE FileGrows(f)
    <3>1. Len(files[f].lines) \in Nat
      BY DEF IsLog
    <3> QED BY <1>12, <2>3, <2>4, <3>1 DEF FileGrows, Extends
  <2>7. WorldGrows
    BY <2>1, <2>5, <2>6 DEF WorldGrows
  <2> QED BY <1>11, <2>1, <2>7
<1>13. ASSUME NEW total \in 1..MaxTotal, NEW whole \in BOOLEAN, Ingestion!Append1(total, whole) PROVE IngestionInv'
  <2> DEFINE lines == files[path].lines
             line == [total |-> total, whole |-> whole]
             new == Append(lines, line)
  <2>1. Ingestion!Write(new) /\ (lines # <<>> => lines[Len(lines)].whole)
    BY <1>13 DEF Ingestion!Append1
  <2>2. line \in Lines
    BY DEF Lines
  <2>3. lines \in Seq(Lines) /\ Len(lines) \in Nat /\ \A i \in 1..Len(lines) : i < Len(lines) => lines[i].whole = TRUE
    BY DEF IsLog
  <2> HIDE DEF lines, line
  <2>4. /\ new \in Seq(Lines) /\ Len(new) = Len(lines) + 1
        /\ \A i \in 1..Len(lines) : new[i] = lines[i]
    BY <2>2, <2>3
  <2>5. Len(lines) # 0 => lines[Len(lines)].whole = TRUE
    <3>1. Len(lines) # 0 => lines # <<>> /\ lines[Len(lines)] \in Lines
      BY <2>3
    <3> QED BY <2>1, <3>1 DEF Lines
  <2> HIDE DEF new
  <2>6. \A i \in 1..Len(new) : i < Len(new) => new[i].whole = TRUE
    <3>1. ASSUME NEW i \in 1..Len(new), i < Len(new) PROVE new[i].whole = TRUE
      <4>1. i \in 1..Len(lines) /\ new[i] = lines[i]
        BY <2>3, <2>4, <3>1
      <4>2. CASE i = Len(lines)
        BY <2>3, <2>5, <4>1, <4>2
      <4>3. CASE i # Len(lines)
        BY <2>3, <4>1, <4>3
      <4> QED BY <4>2, <4>3
    <3> QED BY <3>1
  <2>7. IsLog(new) /\ Extends(lines, new)
    BY <2>3, <2>4, <2>6 DEF IsLog, Extends
  <2> QED BY <1>12, <2>1, <2>7 DEF lines
<1>14. CASE Ingestion!Finish
  <2> DEFINE lines == files[path].lines
             new == [lines EXCEPT ![Len(lines)].whole = TRUE]
  <2>1. Ingestion!Write(new) /\ lines # <<>> /\ ~ lines[Len(lines)].whole
    BY <1>14 DEF Ingestion!Finish
  <2>2. lines \in Seq(Lines) /\ Len(lines) \in Nat /\ \A i \in 1..Len(lines) : i < Len(lines) => lines[i].whole = TRUE
    BY DEF IsLog
  <2> HIDE DEF lines
  <2>3. Len(lines) \in 1..Len(lines) /\ lines[Len(lines)] \in Lines
    BY <2>1, <2>2
  <2>4. [lines[Len(lines)] EXCEPT !.whole = TRUE] \in Lines
    BY <2>3 DEF Lines
  <2>5. /\ new \in Seq(Lines) /\ Len(new) = Len(lines)
        /\ \A i \in 1..Len(lines) : i < Len(lines) => new[i] = lines[i]
    BY <2>2, <2>3, <2>4
  <2> HIDE DEF new
  <2>6. IsLog(new)
    BY <2>2, <2>5 DEF IsLog
  <2>7. Extends(lines, new)
    <3>1. ASSUME NEW i \in 1..Len(lines), lines[i].whole = TRUE PROVE new[i] = lines[i]
      <4>1. i # Len(lines)
        BY <2>1, <3>1
      <4> QED BY <2>2, <2>5, <4>1
    <3>2. \A i \in 1..Len(lines) : lines[i].whole = TRUE => new[i] = lines[i]
      BY <3>1
    <3>3. Len(lines) <= Len(new)
      BY <2>2, <2>5
    <3> QED BY <3>2, <3>3, Zenon DEF Extends
  <2> QED BY <1>12, <2>1, <2>6, <2>7 DEF lines
<1>15. CASE Ingestion!Replace
  <2>1. /\ path < MaxFiles /\ path' = path + 1 /\ UNCHANGED <<cursors, events, logs, pass, lost>>
        /\ \/ files' = [files EXCEPT ![path'] = [session |-> path', lines |-> <<>>, mtime |-> clock']]
           \/ \E time \in {files[path].mtime, clock'} : files' = [files EXCEPT ![path'] = [files[path] EXCEPT !.mtime = time]]
    BY <1>15 DEF Ingestion!Replace
  <2>2. path' \in Ingestion!Files /\ files[path'].lines = <<>>
    BY <2>1 DEF FilesInv, Ingestion!Files, SomeFile
  <2>3. IsFile([session |-> path', lines |-> <<>>, mtime |-> clock'])
    BY DEF IsFile, FileFields, IsLog
  <2>4. \A time : IsFile([files[path] EXCEPT !.mtime = time])
    <3>1. IsFile(files[path])
      BY DEF FilesInv
    <3> QED BY <3>1 DEF IsFile, FileFields
  <2>5. PICK new : IsFile(new) /\ files' = [files EXCEPT ![path'] = new]
    BY <2>1, <2>3, <2>4
  <2>6. /\ files' = [f \in Ingestion!Files |-> files'[f]] /\ files'[path'] = new
        /\ \A f \in Ingestion!Files : f # path' => files'[f] = files[f]
    BY <2>2, <2>5 DEF FilesInv
  <2>7. FilesInv'
    <3>1. \A f \in Ingestion!Files : IsFile(files'[f])
      BY <2>5, <2>6 DEF FilesInv
    <3>2. \A f \in Ingestion!Files : path' < f => files'[f].lines = <<>>
      BY <2>1, <2>6 DEF FilesInv
    <3> QED BY <2>2, <2>6, <3>1, <3>2 DEF FilesInv
  <2>8. ASSUME NEW f \in Ingestion!Files PROVE FileGrows(f)
    <3>1. Len(files[f].lines) \in Nat
      BY DEF IsLog
    <3> QED BY <2>2, <2>6, <3>1 DEF FileGrows, Extends
  <2>9. WorldGrows
    BY <2>1, <2>7, <2>8 DEF WorldGrows
  <2> QED BY <1>11, <2>1, <2>9
<1>16. CASE (\E a \in Owners : Ingestion!Bind(a)) \/ Ingestion!Crash \/ UNCHANGED Ingestion!vars
  <2>1. UNCHANGED <<files, path, cursors, events, logs, lost>>
    BY <1>16 DEF Ingestion!Bind, Ingestion!Crash, Ingestion!vars
  <2>2. pass' = pass \/ pass' = [w \in Ingestion!Passes |-> Ingestion!Idle]
    BY <1>16 DEF Ingestion!Bind, Ingestion!Crash, Ingestion!vars
  <2> QED BY <1>10, <2>1, <2>2
<1> QED BY <1>1, <1>3, <1>4, <1>6, <1>7, <1>8, <1>9, <1>13, <1>14, <1>15, <1>16 DEF Ingestion!Next

LEMMA IngestionRuns == ASSUME SomeFile PROVE Spec => []IngestionInv
<1>1. [Next]_vars => [Ingestion!Next]_(Ingestion!vars)
  BY DEF Next, vars, ingestionVars, Ingestion!vars
<1>2. IngestionInv /\ [Next]_vars => IngestionInv'
  BY <1>1, IngestionSteps
<1> QED BY <1>2, IngestionStarts, PTL DEF Spec

\* No cursor moves over a use that has not been stored, but for unfinished lines and
\* for records that the unbound pass failed to store.
THEOREM NothingIsSkipped == ASSUME SomeFile PROVE Spec => []NothingElseSkipped
<1>1. IngestionInv => NothingElseSkipped
  <2> SUFFICES ASSUME IngestionInv, NEW f \in Ingestion!Files, NEW i \in Ingestion!Uses(files[f].lines),
                      i <= cursors[f].offset
               PROVE  Ingestion!Stored(f, i) \/ <<f, i>> \in lost
    BY DEF NothingElseSkipped, Ingestion!NothingElseSkipped, Ingestion!Covered
  <2>1. CoveredTo(f, cursors[f].offset) /\ IsLog(files[f].lines)
    BY DEF IngestionInv, FilesInv, IsFile
  <2>2. i \in 1..Len(files[f].lines) /\ cursors[f].offset \in Nat
    BY <2>1, UsesAreWhole DEF CoveredTo
  <2>3. i \in 1..cursors[f].offset
    BY <2>2
  <2> QED BY <2>1, <2>3 DEF CoveredTo, UsesOf
<1> QED BY <1>1, IngestionRuns, PTL

\* What is stored under a number is what the line with that number added to the total.
THEOREM AmountsAreKept == ASSUME SomeFile PROVE Spec => []AmountsAreRight
<1>1. IngestionInv => AmountsAreRight
  <2> SUFFICES ASSUME IngestionInv, NEW r \in logs \cup {Ingestion!Row(e) : e \in events} PROVE Right(r)
    BY DEF AmountsAreRight, Ingestion!AmountsAreRight, Right, RecordOf, UsesOf
  <2> QED BY DEF IngestionInv
<1> QED BY <1>1, IngestionRuns, PTL

-----------------------------------------------------------------------------
(* Database.                                                               *)

LEMMA DatabaseRuns == Spec => Database!Spec
<1>1. Init => Database!Init
  BY DEF Init
<1>2. [Next]_vars => [Database!Next]_(Database!vars)
  BY DEF Next, vars, databaseVars, Database!vars
<1> QED BY <1>1, <1>2, PTL DEF Spec, Database!Spec

\* Whatever is restored, imported or synchronised, every secret of the keychain
\* keeps the row that points at it.
THEOREM SecretsAreKept == ASSUME Retain \in Nat \ {0}, Database!Distinct
                          PROVE Spec => []SecretsKeepTheirRow
<1>1. Database!Spec => []Database!SecretsKeepTheirRow
  BY Database!SecretsAreKept
<1> QED BY <1>1, DatabaseRuns, PTL DEF SecretsKeepTheirRow

\* When at least three backups are kept, one of them has all that was counted when
\* the job began, until the database has been replaced.
THEOREM BackupBeforeReplacement == ASSUME Retain \in Nat, Retain >= 3
                                   PROVE Spec => []SafetyBackupIsThere
<1>1. Database!Spec => []Database!SafetyBackupIsThere
  BY Database!BackupBeforeReplacement
<1> QED BY <1>1, DatabaseRuns, PTL DEF SafetyBackupIsThere
=============================================================================
