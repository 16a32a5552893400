-------------------- MODULE CredentialRefinement_proofs --------------------
(***************************************************************************)
(* ProviderCredentials implements CredentialRegister: over two stores that *)
(* fail, and tasks that are cancelled and die, every key is one atomic     *)
(* versioned register.                                                     *)
(*                                                                         *)
(* The register's secret is read from the keychain.  By the invariant of   *)
(* ProviderCredentials_proofs it is the secret of the row's fingerprint,   *)
(* so a step that leaves the key rows alone leaves the registers alone.    *)
(***************************************************************************)
EXTENDS ProviderCredentials_proofs

\* What the abstract steps need beyond IInv: a publication changes the secret,
\* and a resolution is of a key that has one.
NewSecret == \A p \in Procs : pc[p] \in {"put", "publish"} => req[p].secret # req[p].previousFp
OldSecret == \A r \in Readers : reader[r].pc # "idle" => reader[r].fp # None

\* The registers are a function of the key rows alone.
LEMMA CredentialOfRow ==
    ASSUME IInv
    PROVE  credential = [k \in Keys |-> [state |-> keyRow[k].state, version |-> keyRow[k].version,
                                         secret |-> keyRow[k].fp]]
BY DEF IInv, TypeOK, StoreInv, ActiveSecretPresent, credential

LEMMA CredentialOfRowNext ==
    ASSUME IInv'
    PROVE  credential' = [k \in Keys |-> [state |-> keyRow'[k].state, version |-> keyRow'[k].version,
                                          secret |-> keyRow'[k].fp]]
BY DEF IInv, TypeOK, StoreInv, ActiveSecretPresent, credential

LEMMA SameRowsSameCredentials ==
    ASSUME IInv, IInv', UNCHANGED keyRow
    PROVE  credential' = credential
BY CredentialOfRow, CredentialOfRowNext

\* A step that writes one key row writes one register.
LEMMA OneRowOneRegister ==
    ASSUME IInv, IInv', NEW k \in Keys, NEW row,
           keyRow' = [keyRow EXCEPT ![k] = row]
    PROVE  credential' = [credential EXCEPT ![k] =
                            [state |-> row.state, version |-> row.version, secret |-> row.fp]]
<1>1. keyRow'[k] = row /\ \A j \in Keys \ {k} : keyRow'[j] = keyRow[j]
  BY DEF IInv, TypeOK
<1>2. /\ credential'[k] = [state |-> row.state, version |-> row.version, secret |-> row.fp]
      /\ \A j \in Keys \ {k} : credential'[j] = credential[j]
  BY <1>1, CredentialOfRow, CredentialOfRowNext
<1>3. DOMAIN credential = Keys /\ DOMAIN credential' = Keys
  BY DEF credential
<1>4. credential = [j \in Keys |-> credential[j]] /\ credential' = [j \in Keys |-> credential'[j]]
  BY DEF credential
<1> QED BY <1>2, <1>3, <1>4

LEMMA SameReadersSameAnswers ==
    ASSUME UNCHANGED reader
    PROVE  answered' = answered
BY DEF answered

\* Only a creation, a publication and a deletion change a key row.
LEMMA WhoChangesRows ==
    ASSUME [Next]_vars
    PROVE  \/ UNCHANGED keyRow
           \/ \E k \in Keys : CreateKey(k)
           \/ \E p \in Procs : Publish(p) \/ DeleteRow(p)
<1> USE DEF dbVars
<1>1. ASSUME NEW a \in Actors, CleanupStep(a) PROVE UNCHANGED keyRow
  BY <1>1 DEF CleanupStep, CheckPrevious, DeleteSlot, DeleteSlotFails, DeleteSlotCancelled, Finish,
              Claim, Recheck, FinishClaim, DropPending, CleanupDatabaseFails
<1>2. ASSUME NEW p \in Procs, CommandStep(p)
      PROVE  UNCHANGED keyRow \/ Publish(p) \/ DeleteRow(p)
  BY <1>1, <1>2 DEF CommandStep, Reserve, ReserveFails, Put, PutFails, PutCancelled, PublishFails,
                    View, ViewFails, DeleteRowFails, Actors
<1>3. ReconcileStep => UNCHANGED keyRow
  BY <1>1 DEF ReconcileStep, ReconcileEntry, EndPass, ReconcileStops, Actors
<1>4. ASSUME NEW r \in Readers, ReaderStep(r) PROVE UNCHANGED keyRow
  BY <1>4 DEF ReaderStep, ResolveGet, ResolveRecheck, StoreUsage, ReadEnds
<1> QED BY <1>2, <1>3, <1>4 DEF Next, Begin, BeginDelete, BeginReconcile, DetachedEnds,
                                ResolveStart, Crash, vars

\* Only a resolution, and a crash, change a reader.
LEMMA WhoChangesReaders ==
    ASSUME [Next]_vars
    PROVE  \/ UNCHANGED reader
           \/ \E r \in Readers, k \in Keys : ResolveStart(r, k)
           \/ \E r \in Readers : ReaderStep(r)
           \/ Crash
<1>1. ASSUME NEW a \in Actors, CleanupStep(a) PROVE UNCHANGED reader
  BY <1>1 DEF CleanupStep, CheckPrevious, DeleteSlot, DeleteSlotFails, DeleteSlotCancelled, Finish,
              Claim, Recheck, FinishClaim, DropPending, CleanupDatabaseFails
<1>2. ASSUME NEW p \in Procs, CommandStep(p) PROVE UNCHANGED reader
  BY <1>1, <1>2 DEF CommandStep, Reserve, ReserveFails, Put, PutFails, PutCancelled, Publish,
                    PublishFails, View, ViewFails, DeleteRow, DeleteRowFails, Actors
<1>3. ReconcileStep => UNCHANGED reader
  BY <1>1 DEF ReconcileStep, ReconcileEntry, EndPass, ReconcileStops, Actors
<1> QED BY <1>2, <1>3 DEF Next, CreateKey, Begin, BeginDelete, BeginReconcile, DetachedEnds, vars

-----------------------------------------------------------------------------
(* The two additional facts are preserved.                                 *)

\* An actor that goes anywhere but to its put or its publication.
LEMMA MovesElsewhere ==
    ASSUME IInv, NewSecret, NEW a \in Actors,
           \/ Return(a) \/ ReturnPublished(a) \/ Dropped(a)
           \/ \E l \in Labels \ {"put", "publish"} : Goto(a, l)
    PROVE  NewSecret'
<1>1. pc'[a] \notin {"put", "publish"}
  BY DEF Return, ReturnPublished, Dropped, Goto, IInv, TypeOK
<1>2. \A p \in Procs \ {a} : pc'[p] = pc[p] /\ req'[p] = req[p]
  BY DEF Return, ReturnPublished, Dropped, Goto, IInv, TypeOK, Actors
<1> QED BY <1>1, <1>2 DEF NewSecret

LEMMA CleanupKeepsNewSecret ==
    ASSUME IInv, NewSecret, NEW a \in Actors, CleanupStep(a)
    PROVE  NewSecret'
BY MovesElsewhere
   DEF CleanupStep, CheckPrevious, DeleteSlot, DeleteSlotFails, DeleteSlotCancelled, Finish,
       Claim, Recheck, FinishClaim, DropPending, CleanupDatabaseFails, Labels

LEMMA CommandKeepsNewSecret ==
    ASSUME IInv, NewSecret, NEW p \in Procs, CommandStep(p)
    PROVE  NewSecret'
<1>0. p \in Actors
  BY DEF Actors
<1>1. CASE Reserve(p)
  <2>1. \A q \in Procs \ {p} : pc'[q] = pc[q] /\ req'[q] = req[q]
    BY <1>0, <1>1 DEF Reserve, IInv, TypeOK, Actors
  <2>2. req'[p].secret = req[p].secret /\ req'[p].previousFp = keyRow[req[p].key].fp
    BY <1>0, <1>1 DEF Reserve, IInv, TypeOK, Requests
  <2>3. req[p].secret # keyRow[req[p].key].fp
    BY <1>0, <1>1 DEF Reserve, MayReserve, IInv, ActorInv, OwnInv, Own, Kinds
  <2> QED BY <2>1, <2>2, <2>3 DEF NewSecret
<1>2. CASE Put(p)
  BY <1>0, <1>2 DEF Put, Goto, NewSecret, IInv, TypeOK
<1>3. CASE View(p)
  <2>1. CASE Return(p)
    BY <1>0, <2>1, MovesElsewhere
  <2>2. CASE /\ pc' = [pc EXCEPT ![p] = "deleteRow"]
             /\ req' = [req EXCEPT ![p].expected = keyRow[req[p].key].version]
    BY <1>0, <2>2 DEF NewSecret, IInv, TypeOK, Actors
  <2> QED BY <1>3, <2>1, <2>2 DEF View
<1>4. CASE CleanupStep(p)
  BY <1>0, <1>4, CleanupKeepsNewSecret
<1>5. CASE \/ ReserveFails(p) \/ PutFails(p) \/ PutCancelled(p) \/ Publish(p) \/ PublishFails(p)
           \/ ViewFails(p) \/ DeleteRow(p) \/ DeleteRowFails(p)
  BY <1>0, <1>5, MovesElsewhere
     DEF ReserveFails, PutFails, PutCancelled, Publish, PublishFails, ViewFails, DeleteRow,
         DeleteRowFails, Labels
<1> QED BY <1>1, <1>2, <1>3, <1>4, <1>5 DEF CommandStep

LEMMA NewSecretStep == IInv /\ NewSecret /\ [Next]_vars => NewSecret'
<1> SUFFICES ASSUME IInv, NewSecret, [Next]_vars PROVE NewSecret'
  OBVIOUS
<1>0. Reconciler \in Actors /\ Reconciler \notin Procs
  BY ReconcilerAssumption DEF Actors
<1>1. ASSUME NEW p \in Procs, CommandStep(p) PROVE NewSecret'
  BY <1>1, CommandKeepsNewSecret
<1>2. ASSUME NEW p \in Procs, NEW k \in Keys,
             \/ \E kind \in Kinds, s \in Secrets \cup {None}, c \in Commands : Begin(p, k, kind, s, c)
             \/ BeginDelete(p, k)
      PROVE  NewSecret'
  <2>1. pc'[p] \notin {"put", "publish"} /\ \A q \in Procs \ {p} : pc'[q] = pc[q] /\ req'[q] = req[q]
    BY <1>2 DEF Begin, BeginDelete, IInv, TypeOK, Actors
  <2> QED BY <2>1 DEF NewSecret
<1>3. CASE CleanupStep(Reconciler)
  BY <1>0, <1>3, CleanupKeepsNewSecret
<1>4. CASE BeginReconcile \/ EndPass \/ ReconcileStops \/ \E u \in Uuids : ReconcileEntry(u)
  <2>1. \A p \in Procs : pc'[p] = pc[p] /\ req'[p] = req[p]
    BY <1>0, <1>4 DEF BeginReconcile, EndPass, ReconcileStops, ReconcileEntry, Dropped, IInv,
                      TypeOK, Actors
  <2> QED BY <2>1 DEF NewSecret
<1>5. CASE Crash
  BY <1>5 DEF Crash, NewSecret, Actors
<1>6. CASE \/ \E k \in Keys : CreateKey(k)
           \/ \E d \in detached : DetachedEnds(d)
           \/ \E r \in Readers, k \in Keys : ResolveStart(r, k)
           \/ \E r \in Readers : ReaderStep(r)
           \/ UNCHANGED vars
  <2>1. UNCHANGED <<pc, req>>
    BY <1>6 DEF CreateKey, DetachedEnds, ResolveStart, ReaderStep, ResolveGet, ResolveRecheck,
                StoreUsage, ReadEnds, actorVars, vars
  <2> QED BY <2>1 DEF NewSecret
<1> QED BY <1>1, <1>2, <1>3, <1>4, <1>5, <1>6 DEF Next, ReconcileStep

LEMMA OldSecretStep == IInv /\ OldSecret /\ [Next]_vars => OldSecret'
<1> SUFFICES ASSUME IInv, OldSecret, [Next]_vars PROVE OldSecret'
  OBVIOUS
<1>1. ASSUME NEW r \in Readers, NEW k \in Keys, ResolveStart(r, k) PROVE OldSecret'
  BY <1>1 DEF ResolveStart, OldSecret, IInv, TypeOK, Readings
<1>2. ASSUME NEW r \in Readers, ReaderStep(r) PROVE OldSecret'
  BY <1>2 DEF ReaderStep, ResolveGet, ResolveRecheck, StoreUsage, ReadEnds, OldSecret, IInv,
              TypeOK, Readings, NoRead
<1>3. CASE Crash
  BY <1>3 DEF Crash, OldSecret, NoRead
<1>4. CASE UNCHANGED reader
  BY <1>4 DEF OldSecret
<1> QED BY <1>1, <1>2, <1>3, <1>4, WhoChangesReaders

-----------------------------------------------------------------------------
(* The steps of the register.                                              *)

LEMMA CreateRefines ==
    ASSUME IInv, IInv', NEW k \in Keys, CreateKey(k)
    PROVE  Register!Create(k)
<1>1. keyRow[k].state = "new" /\ keyRow' = [keyRow EXCEPT ![k].state = "live"] /\ UNCHANGED reader
  BY DEF CreateKey
<1>2. credential[k].state = "new"
  BY <1>1, CredentialOfRow
<1>3. credential' = [credential EXCEPT ![k].state = "live"]
  <2> DEFINE row == [keyRow[k] EXCEPT !.state = "live"]
  <2>1. keyRow' = [keyRow EXCEPT ![k] = row]
    BY <1>1
  <2>2. row.state = "live" /\ row.version = keyRow[k].version /\ row.fp = keyRow[k].fp
    BY DEF IInv, TypeOK, KeyRows
  <2> HIDE DEF row
  <2>3. credential' = [credential EXCEPT ![k] =
                         [state |-> row.state, version |-> row.version, secret |-> row.fp]]
    BY <2>1, OneRowOneRegister
  <2>4. [credential[k] EXCEPT !.state = "live"] =
          [state |-> row.state, version |-> row.version, secret |-> row.fp]
    BY <2>2, CredentialOfRow
  <2> QED BY <2>3, <2>4
<1> QED BY <1>1, <1>2, <1>3, SameReadersSameAnswers DEF Register!Create

\* The publication writes: the row still is what the reservation saw.
LEMMA PublishRefines ==
    ASSUME IInv, IInv', NewSecret, NEW p \in Procs, Publish(p)
    PROVE  /\ req[p].key \in Keys /\ req[p].secret \in Secrets \cup {None}
           /\ Register!Write(req[p].key, req[p].secret)
<1> DEFINE k == req[p].key
<1>1. p \in Actors /\ pc[p] = "publish" /\ MayPublish(p) /\ UNCHANGED reader
  BY DEF Publish, Actors
<1>2. k \in Keys /\ req[p].secret \in Secrets \cup {None} /\ req[p].expected \in Nat
  BY <1>1 DEF IInv, TypeOK, Requests, ActorInv, OwnInv, Own
<1>3. keyRow[k].state = "live" /\ keyRow[k].version = req[p].expected /\ keyRow[k].fp # req[p].secret
  BY <1>1 DEF MayPublish, NewSecret
<1>4. keyRow' = [keyRow EXCEPT ![k] = [state |-> "live", version |-> req[p].expected + 1,
                                       slot |-> Staging(req[p].op, req[p].kind),
                                       fp |-> req[p].secret]]
  BY DEF Publish
<1>5. credential[k].state = "live" /\ req[p].secret # credential[k].secret
  BY <1>2, <1>3, CredentialOfRow
<1>6. credential' = [credential EXCEPT ![k].version = @ + 1, ![k].secret = req[p].secret]
  <2> DEFINE c == [state |-> "live", version |-> req[p].expected + 1, secret |-> req[p].secret]
  <2>1. credential' = [credential EXCEPT ![k] = c]
    BY <1>2, <1>4, OneRowOneRegister
  <2>2. credential[k] = [state |-> "live", version |-> req[p].expected, secret |-> keyRow[k].fp]
    BY <1>2, <1>3, CredentialOfRow
  <2>3. credential = [j \in Keys |-> credential[j]]
    BY DEF credential
  <2> HIDE DEF c
  <2>4. [credential EXCEPT ![k].version = @ + 1, ![k].secret = req[p].secret] =
          [credential EXCEPT ![k] = [[credential[k] EXCEPT !.version = @ + 1] EXCEPT !.secret = req[p].secret]]
    BY <1>2, <2>3
  <2>5. [[credential[k] EXCEPT !.version = @ + 1] EXCEPT !.secret = req[p].secret] = c
    <3> DEFINE d == [state |-> "live", version |-> req[p].expected + 1, secret |-> keyRow[k].fp]
    <3>1. [credential[k] EXCEPT !.version = @ + 1] = d
      BY <2>2
    <3>2. [d EXCEPT !.secret = req[p].secret] = c
      BY DEF c
    <3> HIDE DEF d, k
    <3> QED BY <3>1, <3>2, Zenon
  <2> QED BY <2>1, <2>4, <2>5
<1> QED BY <1>1, <1>2, <1>5, <1>6, SameReadersSameAnswers DEF Register!Write

LEMMA DeleteRowRefines ==
    ASSUME IInv, IInv', NEW p \in Procs, DeleteRow(p)
    PROVE  req[p].key \in Keys /\ Register!Delete(req[p].key)
<1> DEFINE k == req[p].key
<1>1. p \in Actors /\ pc[p] = "deleteRow" /\ MayDeleteRow(p) /\ UNCHANGED reader
  BY DEF DeleteRow, Actors
<1>2. k \in Keys
  BY <1>1 DEF IInv, ActorInv, OwnInv, Own
<1>3. keyRow[k].state = "live" /\ keyRow[k].fp = None
  BY <1>1 DEF MayDeleteRow
<1>4. keyRow' = [keyRow EXCEPT ![k] = [state |-> "gone", version |-> 0, slot |-> None, fp |-> None]]
  BY DEF DeleteRow
<1>5. credential[k].state = "live" /\ credential[k].secret = None
  BY <1>2, <1>3, CredentialOfRow
<1>6. credential' = [credential EXCEPT ![k].state = "gone", ![k].version = 0]
  <2> DEFINE c == [state |-> "gone", version |-> 0, secret |-> None]
  <2>1. credential' = [credential EXCEPT ![k] = c]
    BY <1>2, <1>4, OneRowOneRegister
  <2>2. credential[k] = [state |-> "live", version |-> keyRow[k].version, secret |-> None]
    BY <1>2, <1>3, CredentialOfRow
  <2>3. credential = [j \in Keys |-> credential[j]]
    BY DEF credential
  <2> HIDE DEF c
  <2>4. [credential EXCEPT ![k].state = "gone", ![k].version = 0] =
          [credential EXCEPT ![k] = [[credential[k] EXCEPT !.state = "gone"] EXCEPT !.version = 0]]
    BY <1>2, <2>3
  <2>5. [[credential[k] EXCEPT !.state = "gone"] EXCEPT !.version = 0] = c
    <3> DEFINE d == [state |-> "gone", version |-> keyRow[k].version, secret |-> None]
    <3>1. [credential[k] EXCEPT !.state = "gone"] = d
      BY <2>2
    <3>2. [d EXCEPT !.version = 0] = c
      BY DEF c
    <3> HIDE DEF d, k
    <3> QED BY <3>1, <3>2, Zenon
  <2> QED BY <2>1, <2>4, <2>5
<1> QED BY <1>1, <1>2, <1>5, <1>6, SameReadersSameAnswers DEF Register!Delete

\* The second look at the row answers: the keychain was read while the row was
\* at the version it still has.
LEMMA RecheckRefines ==
    ASSUME IInv, IInv', OldSecret, NEW r \in Readers, ResolveRecheck(r)
    PROVE  reader[r].key \in Keys /\ Register!Answer(r, reader[r].key)
<1> DEFINE k == reader[r].key
<1>1. reader[r].pc = "recheck" /\ Unmoved(r) /\ UNCHANGED keyRow
  BY DEF ResolveRecheck, dbVars
<1>2. k \in Keys /\ reader[r].secret = reader[r].fp /\ reader[r].fp # None
  BY <1>1 DEF IInv, ReadInv, ReaderInv, OldSecret
<1>3. /\ credential[k].state = "live"
      /\ credential[k].version = reader[r].version
      /\ credential[k].secret = reader[r].secret
      /\ credential[k].secret # None
  BY <1>1, <1>2, CredentialOfRow DEF Unmoved
<1>4. reader' = [reader EXCEPT ![r].pc = "resolved"]
  BY DEF ResolveRecheck
<1>5. answered' = [answered EXCEPT ![r] = [key |-> k, version |-> reader[r].version,
                                           secret |-> reader[r].secret]]
  <2>1. /\ reader'[r].pc = "resolved" /\ reader'[r].key = k
        /\ reader'[r].version = reader[r].version /\ reader'[r].secret = reader[r].secret
        /\ \A q \in Readers \ {r} : reader'[q] = reader[q]
    BY <1>4 DEF IInv, TypeOK, Readings
  <2>2. /\ answered'[r] = [key |-> k, version |-> reader[r].version, secret |-> reader[r].secret]
        /\ \A q \in Readers \ {r} : answered'[q] = answered[q]
    BY <2>1 DEF answered
  <2>3. answered = [q \in Readers |-> answered[q]] /\ answered' = [q \in Readers |-> answered'[q]]
    BY DEF answered
  <2> QED BY <2>2, <2>3
<1> QED BY <1>1, <1>2, <1>3, <1>5, SameRowsSameCredentials DEF Register!Answer

LEMMA ReaderEndsRefines ==
    ASSUME IInv, IInv', NEW r \in Readers, StoreUsage(r) \/ ReadEnds(r)
    PROVE  Register!Forget({r})
<1>1. reader' = [reader EXCEPT ![r] = NoRead] /\ UNCHANGED keyRow
  BY DEF StoreUsage, ReadEnds, dbVars
<1>2. answered' = [q \in Readers |-> IF q \in {r} THEN None ELSE answered[q]]
  BY <1>1 DEF answered, NoRead, IInv, TypeOK
<1> QED BY <1>1, <1>2, SameRowsSameCredentials DEF Register!Forget

LEMMA CrashRefines ==
    ASSUME IInv, IInv', Crash
    PROVE  Register!Forget(Readers)
<1>1. reader' = [r \in Readers |-> NoRead] /\ UNCHANGED keyRow
  BY DEF Crash, dbVars
<1>2. answered' = [q \in Readers |-> IF q \in Readers THEN None ELSE answered[q]]
  BY <1>1 DEF answered, NoRead
<1> QED BY <1>1, <1>2, SameRowsSameCredentials DEF Register!Forget

\* A resolution before its last step has answered nothing.
LEMMA EarlyReadStutters ==
    ASSUME IInv, IInv', NEW r \in Readers,
           ResolveGet(r) \/ \E k \in Keys : ResolveStart(r, k)
    PROVE  UNCHANGED <<credential, answered>>
<1>1. /\ UNCHANGED keyRow
      /\ reader[r].pc # "resolved" /\ reader'[r].pc # "resolved"
      /\ \A q \in Readers \ {r} : reader'[q] = reader[q]
  BY DEF ResolveGet, ResolveStart, dbVars, IInv, TypeOK, Readings
<1>2. answered' = answered
  BY <1>1 DEF answered
<1> QED BY <1>1, <1>2, SameRowsSameCredentials

LEMMA StepRefines ==
    IInv /\ IInv' /\ NewSecret /\ OldSecret /\ [Next]_vars => [Register!Next]_(Register!vars)
<1> SUFFICES ASSUME IInv, IInv', NewSecret, OldSecret, [Next]_vars
             PROVE  Register!Next \/ UNCHANGED <<credential, answered>>
  BY DEF Register!vars
<1>1. ASSUME NEW k \in Keys, CreateKey(k) PROVE Register!Next
  BY <1>1, CreateRefines DEF Register!Next
<1>2. ASSUME NEW p \in Procs, Publish(p) PROVE Register!Next
  BY <1>2, PublishRefines DEF Register!Next
<1>3. ASSUME NEW p \in Procs, DeleteRow(p) PROVE Register!Next
  BY <1>3, DeleteRowRefines DEF Register!Next
<1>4. ASSUME NEW r \in Readers, ReaderStep(r)
      PROVE  Register!Next \/ UNCHANGED <<credential, answered>>
  BY <1>4, RecheckRefines, ReaderEndsRefines, EarlyReadStutters DEF ReaderStep, Register!Next
<1>5. CASE Crash
  BY <1>5, CrashRefines DEF Register!Next
<1>6. ASSUME NEW r \in Readers, NEW k \in Keys, ResolveStart(r, k)
      PROVE  UNCHANGED <<credential, answered>>
  BY <1>6, EarlyReadStutters
<1>7. CASE UNCHANGED <<keyRow, reader>>
  BY <1>7, SameRowsSameCredentials, SameReadersSameAnswers
<1> QED BY <1>1, <1>2, <1>3, <1>4, <1>5, <1>6, <1>7, WhoChangesRows, WhoChangesReaders

LEMMA InitRefines == Init => Register!Init /\ NewSecret /\ OldSecret
BY DEF Init, Register!Init, NewSecret, OldSecret, credential, answered, NoRead, Actors

-----------------------------------------------------------------------------
\* The journalled protocol over the database and the keychain implements the
\* atomic versioned register: nothing but a publication changes what a key
\* holds, and a resolved secret was current when it was handed out.
THEOREM Refinement == Spec => ImplementsRegister
<1>1. IInv /\ PassInv /\ NewSecret /\ OldSecret /\ [Next]_vars => (NewSecret /\ OldSecret)'
  BY NewSecretStep, OldSecretStep
<1>2. Spec => [](NewSecret /\ OldSecret)
  BY <1>1, Invariance, InitRefines, PTL DEF Spec
<1> QED BY <1>2, Invariance, StepRefines, InitRefines, PTL DEF Spec, ImplementsRegister, Register!Spec
=============================================================================
