--------------------- MODULE ProviderCredentials_proofs ---------------------
(***************************************************************************)
(* Proofs about ProviderCredentials: its safety invariants hold for any    *)
(* number of keys, slots, commands, readers and crashes.  None of them is  *)
(* inductive; IInv is, and implies them.                                   *)
(***************************************************************************)
EXTENDS ProviderCredentials, FiniteSetTheorems, TLAPS

\* A slot name belongs to one key for ever, and nothing refers to a slot that
\* has not been issued.
IssuedInv ==
    /\ \A k \in Keys : keyRow[k].slot # None => issued[keyRow[k].slot] = k
    /\ \A u \in Uuids : journal[u].status = "none" => journal[u] = NoRow
    /\ \A u \in Entries : /\ journal[u].key \in Keys
                          /\ issued[u] = journal[u].key
                          /\ journal[u].kind \in Kinds
                          /\ journal[u].gen > 0
                          /\ (journal[u].previous # None =>
                                issued[journal[u].previous] = journal[u].key)
    /\ \A u \in Fresh : store[u] = None /\ journal[u] = NoRow
    /\ \A d \in detached : issued[d.slot] # None

\* Who is where, and who holds the lock.
NoOpLabels == {"idle", "pass", "reserve", "view", "deleteRow"}

LockInv ==
    /\ pc[Reconciler] # "idle" => Sharers = {} /\ PutsInFlight = {}
    /\ pc[Reconciler] \notin {"reserve", "put", "publish", "view", "deleteRow"}
    /\ req[Reconciler].command = "none"
    /\ \A p \in Procs : pc[p] # "pass"
    /\ \A a \in Actors : req[a].op = None <=> pc[a] \in NoOpLabels
    /\ \A p, q \in Procs : p # q /\ req[p].op # None => req[p].op # req[q].op

\* What an actor's next step takes for granted about its operation.
Own(a) ==
    LET r == req[a]
        row == journal[r.op]
    IN /\ pc[a] \notin {"idle", "pass"} => r.key \in Keys
       /\ pc[a] = "reserve" => r.kind \in Kinds
       /\ pc[a] \in {"reserve", "put", "publish"} => (r.kind = "clear" <=> r.secret = None)
       /\ pc[a] \in {"put", "publish", "claim", "dropPending"} =>
            /\ row.status = "pending"
            /\ row.key = r.key
            /\ row.gen = r.expected + 1
            /\ row.kind = r.kind
            /\ row.previous = r.previous
       /\ pc[a] \in {"put", "claim"} => r.kind # "clear"
       /\ pc[a] = "dropPending" => r.kind = "clear"
       /\ pc[a] = "publish" /\ r.kind # "clear" => store[r.op] = r.secret
       /\ pc[a] \in {"checkPrevious", "deletePrevious"} =>
            /\ row.status = "cleanup"
            /\ row.previous = r.previous
            /\ r.previous # None
       /\ pc[a] = "finish" =>
            /\ row.status \in {"committed", "cleanup"}
            /\ row.previous = r.previous
            /\ r.previous # None => row.status = "cleanup" /\ store[r.previous] = None
       /\ pc[a] \in {"recheck", "deleteStaging", "finishClaim"} =>
            /\ row.status = "cleanup"
            /\ row.previous = r.op
       /\ pc[a] = "finishClaim" => store[r.op] = None

OwnInv == \A a \in Actors : Own(a)

\* A pending row freezes its key: the row still is what the operation saw.
PendingInv ==
    /\ \A u \in Entries : journal[u].status = "pending" =>
         /\ keyRow[journal[u].key].state = "live"
         /\ keyRow[journal[u].key].version + 1 = journal[u].gen
         /\ keyRow[journal[u].key].slot = journal[u].previous
    /\ \A u, w \in Entries :
         journal[u].status = "pending" /\ journal[w].status = "pending"
           => (journal[u].key = journal[w].key => u = w)
    /\ \A u \in Uuids : StagedBy(u) => ~ Active(u)
    /\ \A u \in Uuids : journal[u].status = "committed" => journal[u].previous = None

\* A put left behind by a cancelled command still has its pending row, and no
\* command works on it any more.
DetachedPutInv ==
    \A d \in PutsInFlight :
        /\ StagedBy(d.slot)
        /\ \A a \in Actors : req[a].op # d.slot

\* A slot that is going to be deleted is neither in use nor about to be.
DeadInv ==
    /\ \A u \in Uuids : Condemned(u) => ~ Active(u) /\ ~ StagedBy(u)
    /\ \A d \in detached : d.io = "delete" => ~ Active(d.slot) /\ ~ StagedBy(d.slot)
    /\ \A d \in detached : d.io = "delete" => d.secret = None

\* What a resolution has read is what the key holds as long as the version is
\* the one it read.
ReaderInv ==
    \A r \in Readers : reader[r].pc # "idle" =>
        /\ reader[r].key \in Keys
        /\ reader[r].version > 0
        /\ reader[r].pc \in {"recheck", "resolved"} => reader[r].secret = reader[r].fp
        /\ keyRow[reader[r].key].state # "new"
        /\ keyRow[reader[r].key].state = "live" =>
             /\ reader[r].version <= keyRow[reader[r].key].version
             /\ reader[r].version = keyRow[reader[r].key].version =>
                  keyRow[reader[r].key].fp = reader[r].fp

\* The parts of the inductive invariant, by what they are about: the two
\* stores and the calls in flight, the actors, the resolutions.
StoreInv ==
    /\ IssuedInv
    /\ PendingInv
    /\ DeadInv
    /\ ActiveSecretPresent
    /\ NoStrandedSecret
    /\ DeletedKeyLeavesNothing

ActorInv ==
    /\ LockInv
    /\ OwnInv
    /\ DetachedPutInv

ReadInv ==
    /\ ReaderInv
    /\ UsageMatchesCredential

IInv == TypeOK /\ StoreInv /\ ActorInv /\ ReadInv

-----------------------------------------------------------------------------
USE ReconcilerAssumption, NoneAssumption, MaxCrashesAssumption

(* What a step leaves alone keeps its part of the invariant.               *)

LEMMA StoreFrame ==
    ASSUME StoreInv, UNCHANGED <<keyRow, journal, store, issued, detached>>
    PROVE  StoreInv'
BY DEF StoreInv, IssuedInv, PendingInv, DeadInv, ActiveSecretPresent, NoStrandedSecret,
       DeletedKeyLeavesNothing, Entries, Fresh, Active, StagedBy, Condemned

LEMMA ActorFrame ==
    ASSUME ActorInv, UNCHANGED <<journal, store, detached, pc, req>>
    PROVE  ActorInv'
BY DEF ActorInv, LockInv, OwnInv, Own, DetachedPutInv, Sharers, PutsInFlight, StagedBy

LEMMA ReadFrame ==
    ASSUME ReadInv, UNCHANGED <<keyRow, usage, reader>>
    PROVE  ReadInv'
BY DEF ReadInv, ReaderInv, UsageMatchesCredential

\* No two actors work on the same operation.
LEMMA OperationsDiffer ==
    ASSUME IInv, NEW a \in Actors, NEW b \in Actors, a # b, req[a].op # None
    PROVE  req[a].op # req[b].op
BY DEF IInv, ActorInv, LockInv, Actors, Sharers, NoOpLabels

\* The operation of an actor that is past its reservation.
LEMMA OperationOwned ==
    ASSUME IInv, NEW a \in Actors, pc[a] \notin NoOpLabels
    PROVE  /\ req[a].op \in Uuids
           /\ req[a].op # None
           /\ req[a].op \in Entries
           /\ journal[req[a].op].key \in Keys
           /\ issued[req[a].op] = journal[req[a].op].key
BY DEF IInv, StoreInv, ActorInv, TypeOK, LockInv, OwnInv, Own, IssuedInv, Entries, Requests,
       NoOpLabels, Labels, Actors

-----------------------------------------------------------------------------
(* The three ways the steps change the two stores without publishing.      *)

\* Deleting a slot that is neither in use nor staged.
LEMMA ErasedSlot ==
    ASSUME IInv, NEW u \in Uuids, ~ Active(u), ~ StagedBy(u),
           store' \in {store, [store EXCEPT ![u] = None]},
           detached' \subseteq detached, UNCHANGED <<keyRow, journal, issued>>
    PROVE  StoreInv'
<1>1. IssuedInv' /\ PendingInv' /\ DeadInv'
  BY DEF IInv, StoreInv, TypeOK, IssuedInv, PendingInv, DeadInv, Entries, Fresh, Active,
         StagedBy, Condemned
<1>2. ActiveSecretPresent'
  BY DEF IInv, StoreInv, TypeOK, KeyRows, ActiveSecretPresent, Active
<1>3. NoStrandedSecret' /\ DeletedKeyLeavesNothing'
  BY DEF IInv, StoreInv, TypeOK, NoStrandedSecret, DeletedKeyLeavesNothing, Entries, Active,
         StagedBy, Condemned
<1> QED BY <1>1, <1>2, <1>3 DEF StoreInv

\* Writing a slot that is staged, with whatever the call was given.
LEMMA WrittenSlot ==
    ASSUME IInv, NEW u \in Uuids, StagedBy(u), NEW s \in Secrets \cup {None},
           store' \in {store, [store EXCEPT ![u] = s]},
           detached' \subseteq detached, UNCHANGED <<keyRow, journal, issued>>
    PROVE  StoreInv'
<1>0. /\ u \in Entries
      /\ ~ Active(u)
      /\ issued[u] \in Keys
      /\ keyRow[issued[u]].state = "live"
  BY DEF IInv, StoreInv, IssuedInv, PendingInv, Entries, StagedBy
<1>1. IssuedInv' /\ PendingInv' /\ DeadInv'
  BY <1>0 DEF IInv, StoreInv, TypeOK, IssuedInv, PendingInv, DeadInv, Entries, Fresh, Active,
              StagedBy, Condemned
<1>2. ActiveSecretPresent'
  BY <1>0 DEF IInv, StoreInv, TypeOK, KeyRows, ActiveSecretPresent, Active
<1>3. NoStrandedSecret' /\ DeletedKeyLeavesNothing'
  BY <1>0 DEF IInv, StoreInv, TypeOK, NoStrandedSecret, DeletedKeyLeavesNothing, Entries,
              Active, StagedBy, Condemned
<1> QED BY <1>1, <1>2, <1>3 DEF StoreInv

\* Removing a journal row that no longer stands for a stored secret.
LEMMA RemovedRow ==
    ASSUME IInv, NEW u \in Uuids, ~ StagedBy(u),
           journal[u].status = "cleanup" /\ journal[u].previous # None
             => store[journal[u].previous] = None,
           journal' \in {journal, [journal EXCEPT ![u] = NoRow]},
           UNCHANGED <<keyRow, store, issued, detached>>
    PROVE  StoreInv'
<1>0. CASE UNCHANGED journal
  BY <1>0, StoreFrame DEF IInv
<1>1. CASE journal' = [journal EXCEPT ![u] = NoRow]
  <2>0. /\ journal'[u] = NoRow
        /\ \A w \in Uuids \ {u} : journal'[w] = journal[w]
        /\ NoRow.status = "none"
    BY <1>1 DEF IInv, TypeOK, NoRow
  <2>1. /\ Entries' = Entries \ {u}
        /\ \A w \in Uuids : Active(w)' <=> Active(w)
        /\ \A w \in Uuids : StagedBy(w)' <=> StagedBy(w)
    BY <2>0 DEF IInv, TypeOK, Entries, Active, StagedBy
  <2>2. \A w \in Uuids : /\ Condemned(w)' => Condemned(w)
                        /\ Condemned(w) => Condemned(w)' \/ store[w] = None
    BY <2>0, <2>1, NoneAssumption DEF Condemned, Entries
  <2>3. IssuedInv'
    BY <2>0, <2>1 DEF IInv, StoreInv, TypeOK, IssuedInv, Fresh, Entries
  <2>4. PendingInv'
    BY <2>0, <2>1 DEF IInv, StoreInv, TypeOK, PendingInv, NoRow, Entries
  <2>5. DeadInv'
    <3>1. ASSUME NEW w \in Uuids, Condemned(w)'
          PROVE  ~ Active(w)' /\ ~ StagedBy(w)'
      <4>1. Condemned(w)
        BY <2>0, <2>1, <3>1 DEF Condemned, Entries
      <4>2. ~ Active(w) /\ ~ StagedBy(w)
        BY <4>1 DEF IInv, StoreInv, DeadInv
      <4> QED BY <2>1, <4>2
    <3>2. \A d \in detached : d.slot \in Uuids
      BY DEF IInv, TypeOK
    <3>3. \A d \in detached : d.io = "delete" => ~ Active(d.slot)' /\ ~ StagedBy(d.slot)'
      BY <2>1, <3>2 DEF IInv, StoreInv, DeadInv
    <3> QED BY <3>1, <3>3 DEF IInv, StoreInv, DeadInv
  <2>5a. NoStrandedSecret'
    BY <2>1, <2>2 DEF IInv, StoreInv, TypeOK, NoStrandedSecret
  <2>6. ActiveSecretPresent' /\ DeletedKeyLeavesNothing'
    BY <2>0 DEF IInv, StoreInv, TypeOK, ActiveSecretPresent, DeletedKeyLeavesNothing
  <2> QED BY <2>3, <2>4, <2>5, <2>5a, <2>6 DEF StoreInv
<1> QED BY <1>0, <1>1

-----------------------------------------------------------------------------
(* Actors that are not moving, and the two ways one moves.                 *)

\* A step of someone else: the journal row of b's operation stays, and a slot
\* is only deleted when it is not staged, or written when it is not b's.
Spares(b) ==
    /\ journal'[req[b].op] = journal[req[b].op] \/ req[b].op = None
    /\ \A u \in Uuids : \/ store'[u] = store[u]
                        \/ store'[u] = None /\ ~ StagedBy(u)
                        \/ StagedBy(u) /\ req[b].op # u

LEMMA OwnFrame ==
    ASSUME IInv, NEW b \in Actors, pc'[b] = pc[b], req'[b] = req[b], Spares(b)
    PROVE  Own(b)'
<1>1. CASE pc[b] \in NoOpLabels
  BY <1>1 DEF IInv, ActorInv, OwnInv, Own, NoOpLabels
<1>2. CASE pc[b] \notin NoOpLabels
  <2>1. req[b].op \in Uuids /\ journal'[req[b].op] = journal[req[b].op]
    BY <1>2, OperationOwned DEF Spares
  <2>2. pc[b] = "publish" /\ req[b].kind # "clear" => store'[req[b].op] = store[req[b].op]
    BY <2>1 DEF IInv, ActorInv, OwnInv, Own, Spares, StagedBy
  <2>3. pc[b] = "finish" /\ req[b].previous # None => store'[req[b].previous] = None
    <3> SUFFICES ASSUME pc[b] = "finish", req[b].previous # None
                 PROVE  store'[req[b].previous] = None
      OBVIOUS
    <3>1. /\ req[b].previous \in Uuids
          /\ Condemned(req[b].previous)
          /\ store[req[b].previous] = None
      BY <2>1 DEF IInv, ActorInv, OwnInv, Own, TypeOK, Requests, Condemned, Entries
    <3>2. ~ StagedBy(req[b].previous)
      BY <3>1 DEF IInv, StoreInv, DeadInv
    <3> QED BY <3>1, <3>2 DEF Spares
  <2>4. pc[b] = "finishClaim" => store'[req[b].op] = None
    BY <2>1 DEF IInv, ActorInv, OwnInv, Own, Spares, StagedBy
  <2> QED BY <2>1, <2>2, <2>3, <2>4 DEF IInv, ActorInv, OwnInv, Own
<1> QED BY <1>1, <1>2

\* An actor that returns, or is dropped, has no operation any more.
LEMMA ActorReturns ==
    ASSUME IInv, NEW a \in Actors,
           pc[a] # "idle", Return(a) \/ Dropped(a),
           \A b \in Actors \ {a} : Spares(b),
           \A u \in Uuids : u # req[a].op => journal'[u] = journal[u],
           PutsInFlight' = PutsInFlight
    PROVE  ActorInv'
<1>1. /\ req'[a] = NoReq
      /\ \A b \in Actors \ {a} : pc'[b] = pc[b] /\ req'[b] = req[b]
  BY DEF IInv, TypeOK, Return, Dropped
<1>2. pc'[a] = "idle" \/ (a = Reconciler /\ pc'[a] = "pass")
  BY DEF IInv, TypeOK, Return, Dropped
<1>3. LockInv'
  <2>1. \A p \in Procs : pc'[p] = pc[p] \/ pc'[p] = "idle"
    BY <1>1, <1>2 DEF Actors
  <2>2. pc'[Reconciler] # "idle" => pc[Reconciler] # "idle"
    BY <1>1, <1>2 DEF Actors
  <2>3. pc'[Reconciler] # "idle" => Sharers' = {} /\ PutsInFlight' = {}
    BY <2>1, <2>2 DEF IInv, ActorInv, LockInv, Sharers
  <2>4. \A b \in Actors : req'[b].op = None <=> pc'[b] \in NoOpLabels
    BY <1>1, <1>2 DEF IInv, ActorInv, LockInv, Actors, NoReq, Request, NoOpLabels
  <2>5. \A p, q \in Procs : p # q /\ req'[p].op # None => req'[p].op # req'[q].op
    BY <1>1 DEF IInv, ActorInv, LockInv, Actors, NoReq, Request
  <2>6. /\ pc'[Reconciler] \notin {"reserve", "put", "publish", "view", "deleteRow"}
        /\ req'[Reconciler].command = "none"
        /\ \A p \in Procs : pc'[p] # "pass"
    BY <1>1, <1>2, <2>1 DEF IInv, ActorInv, LockInv, Actors, NoReq, Request
  <2> QED BY <2>3, <2>4, <2>5, <2>6 DEF LockInv
<1>4. OwnInv'
  BY <1>1, <1>2, OwnFrame DEF OwnInv, Own
<1>5. DetachedPutInv'
  <2> SUFFICES ASSUME NEW d \in PutsInFlight
               PROVE  StagedBy(d.slot)' /\ \A b \in Actors : req'[b].op # d.slot
    BY DEF DetachedPutInv
  <2>1. d.slot \in Uuids /\ StagedBy(d.slot) /\ \A b \in Actors : req[b].op # d.slot
    BY DEF IInv, ActorInv, DetachedPutInv, TypeOK, PutsInFlight
  <2> QED BY <1>1, <2>1 DEF StagedBy, NoReq, Request
<1> QED BY <1>3, <1>4, <1>5 DEF ActorInv

\* So does one that returns from a published operation, a delete command with
\* its share of the lock.
LEMMA ActorReturnsPublished ==
    ASSUME IInv, NEW a \in Actors,
           pc[a] \notin NoOpLabels, ReturnPublished(a),
           \A b \in Actors \ {a} : Spares(b),
           \A u \in Uuids : u # req[a].op => journal'[u] = journal[u],
           PutsInFlight' = PutsInFlight
    PROVE  ActorInv'
<1>1. CASE req[a].command # "delete"
  BY <1>1, ActorReturns DEF ReturnPublished, NoOpLabels
<1>2. CASE req[a].command = "delete"
  <2>1. /\ pc'[a] = "view"
        /\ req'[a] = Request("none", "delete", req[a].key, 0, None)
        /\ \A b \in Actors \ {a} : pc'[b] = pc[b] /\ req'[b] = req[b]
    BY <1>2 DEF IInv, TypeOK, ReturnPublished
  <2>2. req'[a].op = None /\ req'[a].key = req[a].key /\ a \in Procs
    BY <1>2, <2>1 DEF IInv, ActorInv, LockInv, Actors, Request
  <2>3. LockInv'
    <3>1. pc'[Reconciler] = "idle" /\ pc[Reconciler] = "idle"
      BY <2>1, <2>2 DEF IInv, ActorInv, LockInv, Sharers, Actors, NoOpLabels
    <3>2. \A b \in Actors : req'[b].op = None <=> pc'[b] \in NoOpLabels
      BY <2>1, <2>2 DEF IInv, ActorInv, LockInv, Actors, NoOpLabels
    <3>3. \A q, o \in Procs : q # o /\ req'[q].op # None => req'[q].op # req'[o].op
      <4>1. \A q \in Procs : req'[q].op = req[q].op \/ req'[q].op = None
        BY <2>1, <2>2 DEF Actors
      <4> QED BY <4>1 DEF IInv, ActorInv, LockInv
    <3> QED BY <2>1, <2>2, <3>1, <3>2, <3>3 DEF IInv, ActorInv, LockInv, Actors
  <2>4. Own(a)'
    BY <2>1, <2>2 DEF IInv, ActorInv, OwnInv, Own, NoOpLabels
  <2>5. OwnInv'
    BY <2>1, <2>4, OwnFrame DEF OwnInv
  <2>6. DetachedPutInv'
    <3> SUFFICES ASSUME NEW d \in PutsInFlight
                 PROVE  StagedBy(d.slot)' /\ \A b \in Actors : req'[b].op # d.slot
      BY DEF DetachedPutInv
    <3>1. d.slot \in Uuids /\ StagedBy(d.slot) /\ \A b \in Actors : req[b].op # d.slot
      BY DEF IInv, ActorInv, DetachedPutInv, TypeOK, PutsInFlight
    <3> QED BY <2>1, <2>2, <3>1 DEF StagedBy
  <2> QED BY <2>3, <2>5, <2>6 DEF ActorInv
<1> QED BY <1>1, <1>2

\* An actor that goes on with its operation.
LEMMA ActorGoesOn ==
    ASSUME IInv, NEW a \in Actors, NEW label,
           Goto(a, label), pc[a] \notin NoOpLabels, label \notin NoOpLabels,
           a \in Procs \/ label \notin {"put", "publish"},
           Own(a)',
           \A b \in Actors \ {a} : Spares(b),
           \A u \in Uuids : u # req[a].op => journal'[u] = journal[u],
           PutsInFlight' = PutsInFlight
    PROVE  ActorInv'
<1>1. /\ pc'[a] = label
      /\ req' = req
      /\ \A b \in Actors \ {a} : pc'[b] = pc[b]
  BY DEF IInv, TypeOK, Goto
<1>2. LockInv'
  BY <1>1 DEF IInv, ActorInv, LockInv, Actors, NoOpLabels, Sharers, PutsInFlight
<1>3. OwnInv'
  BY <1>1, OwnFrame DEF OwnInv
<1>4. DetachedPutInv'
  BY <1>1 DEF IInv, ActorInv, DetachedPutInv, TypeOK, PutsInFlight, StagedBy
<1> QED BY <1>2, <1>3, <1>4 DEF ActorInv

\* The control variables keep their types.
LEMMA ControlTypes ==
    ASSUME TypeOK, NEW a \in Actors, NEW label \in Labels,
           \/ Return(a)
           \/ ReturnPublished(a)
           \/ Dropped(a)
           \/ Goto(a, label)
    PROVE  /\ pc' \in [Actors -> Labels]
           /\ req' \in [Actors -> Requests]
           /\ pass' \in [todo : SUBSET Uuids, before : Nat]
<1>1. /\ NoReq \in Requests
      /\ Request("none", "delete", req[a].key, 0, None) \in Requests
      /\ NoPass \in [todo : SUBSET Uuids, before : Nat]
  BY DEF TypeOK, NoReq, Request, Requests, Commands, NoPass
<1>2. CASE Goto(a, label)
  BY <1>2 DEF TypeOK, Goto
<1>3. CASE Return(a)
  BY <1>1, <1>3 DEF TypeOK, Return, Labels
<1>4. CASE ReturnPublished(a)
  BY <1>1, <1>3, <1>4 DEF TypeOK, ReturnPublished, Labels
<1>5. CASE Dropped(a)
  BY <1>1, <1>5 DEF TypeOK, Dropped, Labels
<1> QED BY <1>2, <1>3, <1>4, <1>5

\* A step that touches neither store nor what is in flight spares everybody.
LEMMA SparesFrame ==
    ASSUME NEW b \in Actors, UNCHANGED <<journal, store>>
    PROVE  Spares(b)
BY DEF Spares

-----------------------------------------------------------------------------
(* The commands.                                                           *)

\* A new key row owns nothing and nothing refers to it.
LEMMA CreateKeyStep ==
    ASSUME IInv, NEW k \in Keys, CreateKey(k)
    PROVE  IInv'
<1>1. /\ keyRow' = [keyRow EXCEPT ![k].state = "live"]
      /\ \A u \in Uuids : Active(u)' <=> Active(u)
  BY DEF IInv, TypeOK, KeyRows, CreateKey, Active
<1>2. TypeOK'
  BY <1>1 DEF IInv, TypeOK, KeyRows, CreateKey, actorVars
<1>3. StoreInv'
  <2>1. IssuedInv' /\ ActiveSecretPresent' /\ DeletedKeyLeavesNothing'
    BY <1>1 DEF IInv, StoreInv, TypeOK, KeyRows, CreateKey, actorVars, IssuedInv,
                ActiveSecretPresent, DeletedKeyLeavesNothing, Entries, Fresh
  <2>2. PendingInv' /\ DeadInv' /\ NoStrandedSecret'
    BY <1>1 DEF IInv, StoreInv, TypeOK, KeyRows, CreateKey, actorVars, PendingInv, DeadInv,
                NoStrandedSecret, Entries, Active, StagedBy, Condemned
  <2> QED BY <2>1, <2>2 DEF StoreInv
<1>4. ActorInv'
  BY ActorFrame DEF IInv, CreateKey, actorVars
<1>5. ReadInv'
  BY <1>1 DEF IInv, ReadInv, TypeOK, KeyRows, CreateKey, ReaderInv, UsageMatchesCredential
<1> QED BY <1>2, <1>3, <1>4, <1>5 DEF IInv

\* A command begins only when the reconciler does not hold the lock.
LEMMA BeginStep ==
    ASSUME IInv, NEW p \in Procs, NEW k \in Keys, NEW kind \in Kinds,
           NEW s \in Secrets \cup {None}, NEW c \in Commands, Begin(p, k, kind, s, c)
    PROVE  IInv'
<1> USE DEF Begin, dbVars
<1>1. /\ pc'[p] = "reserve"
      /\ req'[p] = Request(kind, c, k, keyRow[k].version, s)
      /\ \A b \in Actors \ {p} : pc'[b] = pc[b] /\ req'[b] = req[b]
      /\ p # Reconciler
  BY DEF IInv, TypeOK, Actors
<1>1a. /\ req'[p].op = None /\ req'[p].key = k /\ req'[p].kind = kind /\ req'[p].secret = s
       /\ kind = "clear" <=> s = None
       /\ pc'[p] = "reserve"
  BY <1>1 DEF Request
<1>2. TypeOK'
  BY DEF IInv, TypeOK, KeyRows, Requests, Request, Labels, Actors
<1>3. LockInv'
  BY <1>1 DEF IInv, ActorInv, LockInv, Actors, NoOpLabels, Request
<1>4. Own(p)'
  BY <1>1a DEF Own
<1>5. OwnInv'
  BY <1>1, <1>4, OwnFrame DEF OwnInv, Spares
<1>6. DetachedPutInv'
  BY <1>1 DEF IInv, ActorInv, DetachedPutInv, TypeOK, PutsInFlight, StagedBy, Request
<1> QED BY <1>2, <1>3, <1>5, <1>6, StoreFrame, ReadFrame DEF IInv, ActorInv

\* A delete of a key without a secret holds no operation and no lock.
LEMMA BeginDeleteStep ==
    ASSUME IInv, NEW p \in Procs, NEW k \in Keys, BeginDelete(p, k)
    PROVE  IInv'
<1> USE DEF BeginDelete, dbVars
<1>1. /\ pc'[p] = "deleteRow"
      /\ req'[p] = Request("none", "delete", k, keyRow[k].version, None)
      /\ \A b \in Actors \ {p} : pc'[b] = pc[b] /\ req'[b] = req[b]
      /\ p # Reconciler
  BY DEF IInv, TypeOK, Actors
<1>1a. req'[p].op = None /\ req'[p].key = k /\ pc'[p] = "deleteRow"
  BY <1>1 DEF Request
<1>2. TypeOK'
  <2>1. req'[p] \in Requests
    <3>1. keyRow[k].version \in Nat
      BY DEF IInv, TypeOK, KeyRows
    <3> QED BY <1>1, <3>1 DEF Requests, Commands, Request
  <2> QED BY <1>1, <2>1 DEF IInv, TypeOK, Labels
<1>3. LockInv'
  BY <1>1 DEF IInv, ActorInv, LockInv, Actors, NoOpLabels, Request, Sharers, PutsInFlight
<1>4. Own(p)'
  BY <1>1a DEF Own
<1>5. OwnInv'
  BY <1>1, <1>4, OwnFrame DEF OwnInv, Spares
<1>6. DetachedPutInv'
  BY <1>1 DEF IInv, ActorInv, DetachedPutInv, TypeOK, PutsInFlight, StagedBy, Request
<1> QED BY <1>2, <1>3, <1>5, <1>6, StoreFrame, ReadFrame DEF IInv, ActorInv

\* The reserved slot is fresh, and its row the only pending one of the key.
LEMMA ReserveStep ==
    ASSUME IInv, NEW p \in Procs, Reserve(p)
    PROVE  IInv'
<1> DEFINE k == req[p].key
           kind == req[p].kind
           gen == req[p].expected + 1
           row == [status |-> "pending", key |-> k, gen |-> gen, kind |-> kind,
                   previous |-> keyRow[k].slot]
           label == IF kind = "clear" THEN "publish" ELSE "put"
<1>1. PICK u \in Fresh : /\ issued' = [issued EXCEPT ![u] = k]
                         /\ journal' = [journal EXCEPT ![u] = row]
                         /\ req' = [req EXCEPT ![p].op = u, ![p].previous = keyRow[k].slot,
                                               ![p].previousFp = keyRow[k].fp]
                         /\ pc' = [pc EXCEPT ![p] = label]
  BY DEF Reserve
<1>2. /\ k \in Keys /\ kind \in Kinds /\ gen \in Nat \ {0} /\ u \in Uuids /\ u # None
      /\ kind = "clear" <=> req[p].secret = None
      /\ keyRow[k] \in KeyRows /\ keyRow[k].state = "live"
      /\ keyRow[k].version + 1 = gen
      /\ issued[u] = None /\ store[u] = None /\ journal[u] = NoRow
      /\ \A w \in Entries : journal[w].key = k => journal[w].status # "pending"
  BY DEF IInv, StoreInv, ActorInv, TypeOK, Requests, Actors, OwnInv, Own, IssuedInv, Reserve,
         MayReserve, Fresh
<1>3. /\ keyRow' = keyRow /\ store' = store /\ detached' = detached
      /\ usage' = usage /\ pass' = pass /\ reader' = reader /\ crashes' = crashes
  BY DEF Reserve
<1>4. /\ journal'[u] = row
      /\ issued'[u] = k
      /\ \A w \in Uuids \ {u} : journal'[w] = journal[w] /\ issued'[w] = issued[w]
  BY <1>1, <1>2 DEF IInv, TypeOK
<1>5. /\ pc'[p] = label
      /\ req'[p] = [req[p] EXCEPT !.op = u, !.previous = keyRow[k].slot,
                                  !.previousFp = keyRow[k].fp]
      /\ \A b \in Actors \ {p} : pc'[b] = pc[b] /\ req'[b] = req[b]
      /\ p # Reconciler /\ pc[p] = "reserve"
  BY <1>1 DEF IInv, TypeOK, Actors, Reserve
<1>6. /\ req'[p].op = u /\ req'[p].previous = keyRow[k].slot /\ req'[p].key = k
      /\ req'[p].kind = kind /\ req'[p].secret = req[p].secret
      /\ req'[p].expected = req[p].expected
      /\ req'[p] \in Requests
  BY <1>2, <1>5, ZenonT(60) DEF IInv, TypeOK, Requests, KeyRows, Actors
<1>7. TypeOK'
  <2>1. journal' \in [Uuids -> JournalRows] /\ issued' \in [Uuids -> Keys \cup {None}]
    BY <1>1, <1>2 DEF IInv, TypeOK, JournalRows, KeyRows, Kinds
  <2>2. pc' \in [Actors -> Labels]
    BY <1>1 DEF IInv, TypeOK, Labels
  <2>3. req' \in [Actors -> Requests]
    BY <1>1, <1>5, <1>6 DEF IInv, TypeOK
  <2> QED BY <1>3, <2>1, <2>2, <2>3 DEF IInv, TypeOK
<1>8. StoreInv'
  <2>1. /\ u \notin Entries /\ Entries' = Entries \cup {u} /\ Fresh' = Fresh \ {u}
        /\ keyRow[k].slot # u
        /\ keyRow[k].slot # None => issued[keyRow[k].slot] = k
    BY <1>2, <1>4 DEF IInv, StoreInv, IssuedInv, TypeOK, Entries, Fresh, NoRow, KeyRows
  <2>2. IssuedInv'
    <3>1. \A x \in Keys : keyRow[x].slot # None => issued'[keyRow[x].slot] = x
      BY <1>2, <1>4 DEF IInv, StoreInv, IssuedInv, TypeOK, KeyRows
    <3>2. \A w \in Uuids : journal'[w].status = "none" => journal'[w] = NoRow
      BY <1>4 DEF IInv, StoreInv, IssuedInv
    <3>3. ASSUME NEW w \in Entries'
          PROVE  /\ journal'[w].key \in Keys
                 /\ issued'[w] = journal'[w].key
                 /\ journal'[w].kind \in Kinds
                 /\ journal'[w].gen > 0
                 /\ journal'[w].previous # None =>
                      issued'[journal'[w].previous] = journal'[w].key
      <4>1. CASE w = u
        BY <4>1, <1>2, <1>4, <2>1 DEF IInv, TypeOK, KeyRows
      <4>2. CASE w # u
        <5>1. w \in Entries
          BY <4>2, <2>1
        <5>2. journal[w].previous # None => journal[w].previous \in Uuids \ {u}
          BY <5>1, <1>2 DEF IInv, StoreInv, IssuedInv, TypeOK, Entries, JournalRows
        <5> QED BY <4>2, <5>1, <5>2, <1>4 DEF IInv, StoreInv, IssuedInv, Entries
      <4> QED BY <4>1, <4>2
    <3>4. \A w \in Fresh' : store[w] = None /\ journal'[w] = NoRow
      BY <1>4, <2>1 DEF IInv, StoreInv, IssuedInv, Fresh
    <3>5. \A d \in detached : issued'[d.slot] # None
      BY <1>2, <1>4 DEF IInv, StoreInv, IssuedInv, TypeOK
    <3> QED BY <1>3, <3>1, <3>2, <3>3, <3>4, <3>5 DEF IssuedInv
  <2>3. \A x \in Keys : keyRow[x].slot # u
    BY <1>2 DEF IInv, StoreInv, IssuedInv, TypeOK
  <2>4. PendingInv'
    <3>1. \A w \in Entries' : journal'[w].status = "pending" =>
            /\ keyRow[journal'[w].key].state = "live"
            /\ keyRow[journal'[w].key].version + 1 = journal'[w].gen
            /\ keyRow[journal'[w].key].slot = journal'[w].previous
      BY <1>2, <1>4, <2>1 DEF IInv, StoreInv, PendingInv, Entries
    <3>2. \A v, w \in Entries' :
            journal'[v].status = "pending" /\ journal'[w].status = "pending"
              => (journal'[v].key = journal'[w].key => v = w)
      BY <1>2, <1>4, <2>1 DEF IInv, StoreInv, PendingInv, Entries
    <3>3. \A w \in Uuids : StagedBy(w)' => ~ Active(w)'
      BY <1>3, <1>4, <2>3 DEF IInv, StoreInv, PendingInv, Active, StagedBy
    <3>4. \A w \in Uuids : journal'[w].status = "committed" => journal'[w].previous = None
      BY <1>4 DEF IInv, StoreInv, PendingInv
    <3> QED BY <1>3, <3>1, <3>2, <3>3, <3>4 DEF PendingInv
  <2>5. DeadInv'
    <3>1. ASSUME NEW w \in Uuids, Condemned(w)'
          PROVE  ~ Active(w)' /\ ~ StagedBy(w)'
      <4>1. PICK v \in Entries' : journal'[v].status = "cleanup" /\ journal'[v].previous = w
        BY <3>1 DEF Condemned
      <4>2. v # u /\ v \in Entries /\ journal[v].status = "cleanup" /\ journal[v].previous = w
        BY <4>1, <1>4, <2>1 DEF Entries
      <4>3. Condemned(w)
        BY <4>2 DEF Condemned
      <4>4. w # u
        BY <4>2, <1>2 DEF IInv, StoreInv, IssuedInv
      <4> QED BY <1>3, <1>4, <4>3, <4>4 DEF IInv, StoreInv, DeadInv, Active, StagedBy
    <3>2. ASSUME NEW d \in detached, d.io = "delete"
          PROVE  ~ Active(d.slot)' /\ ~ StagedBy(d.slot)'
      <4>1. d.slot \in Uuids /\ d.slot # u
        BY <1>2 DEF IInv, StoreInv, IssuedInv, TypeOK
      <4> QED BY <1>3, <1>4, <3>2, <4>1 DEF IInv, StoreInv, DeadInv, Active, StagedBy
    <3> QED BY <1>3, <3>1, <3>2 DEF IInv, StoreInv, DeadInv
  <2>6. ActiveSecretPresent'
    BY <1>3 DEF IInv, StoreInv, ActiveSecretPresent
  <2>7. NoStrandedSecret'
    <3> SUFFICES ASSUME NEW w \in Uuids, store[w] # None
                 PROVE  Active(w)' \/ StagedBy(w)' \/ Condemned(w)'
      BY <1>3 DEF NoStrandedSecret
    <3>1. w # u
      BY <1>2
    <3>2. CASE Active(w)
      BY <3>2, <1>3 DEF Active
    <3>3. CASE StagedBy(w)
      BY <3>1, <3>3, <1>4 DEF StagedBy
    <3>4. CASE Condemned(w)
      BY <3>4, <1>4, <2>1 DEF Condemned, Entries
    <3> QED BY <3>2, <3>3, <3>4 DEF IInv, StoreInv, NoStrandedSecret
  <2>8. DeletedKeyLeavesNothing'
    BY <1>2, <1>3, <1>4 DEF IInv, StoreInv, TypeOK, DeletedKeyLeavesNothing
  <2> QED BY <2>2, <2>4, <2>5, <2>6, <2>7, <2>8 DEF StoreInv
<1>9. \A b \in Actors : req[b].op # u
  <2>1. ASSUME NEW b \in Actors, pc[b] \notin NoOpLabels PROVE req[b].op # u
    BY <2>1, <1>2, OperationOwned DEF Entries, NoRow
  <2>2. ASSUME NEW b \in Actors, pc[b] \in NoOpLabels PROVE req[b].op # u
    BY <2>2, <1>2 DEF IInv, ActorInv, LockInv
  <2> QED BY <2>1, <2>2
<1>10. ActorInv'
  <2>1. LockInv'
    <3>1. pc'[Reconciler] = "idle"
      BY <1>5 DEF IInv, ActorInv, LockInv, Sharers, Actors
    <3>2. \A b \in Actors : req'[b].op = None <=> pc'[b] \in NoOpLabels
      <4>1. req'[p].op # None /\ pc'[p] \notin NoOpLabels
        BY <1>2, <1>5, <1>6 DEF NoOpLabels
      <4> QED BY <4>1, <1>5 DEF IInv, ActorInv, LockInv
    <3>3. \A q \in Procs : pc'[q] # "pass"
      BY <1>5 DEF IInv, ActorInv, LockInv, Actors
    <3>4. \A q, o \in Procs : q # o /\ req'[q].op # None => req'[q].op # req'[o].op
      <4>1. \A q \in Procs \ {p} : req'[q].op = req[q].op /\ req'[q].op # u
        BY <1>5, <1>9 DEF Actors
      <4> QED BY <4>1, <1>6 DEF IInv, ActorInv, LockInv
    <3> QED BY <1>5, <3>1, <3>2, <3>3, <3>4 DEF IInv, ActorInv, LockInv, Actors
  <2>2. Own(p)'
    BY <1>2, <1>4, <1>5, <1>6 DEF IInv, ActorInv, OwnInv, Own, Actors
  <2>3. ASSUME NEW b \in Actors \ {p} PROVE Own(b)'
    <3>1. Spares(b)
      BY <1>3, <1>4, <1>9 DEF Spares, IInv, TypeOK, Requests
    <3> QED BY <1>5, <3>1, OwnFrame
  <2>4. DetachedPutInv'
    <3>1. \A d \in PutsInFlight : d.slot \in Uuids \ {u}
      BY <1>2 DEF IInv, StoreInv, IssuedInv, TypeOK, PutsInFlight
    <3>2. \A d \in PutsInFlight : journal'[d.slot] = journal[d.slot]
      BY <3>1, <1>4
    <3>3. ASSUME NEW d \in PutsInFlight, NEW b \in Actors
          PROVE  req'[b].op # d.slot
      <4>1. CASE b = p
        BY <3>1, <4>1, <1>6
      <4>2. CASE b # p
        <5>1. req'[b] = req[b]
          BY <4>2, <1>5
        <5> QED BY <5>1 DEF IInv, ActorInv, DetachedPutInv
      <4> QED BY <4>1, <4>2
    <3>4. PutsInFlight' = PutsInFlight
      BY <1>3 DEF PutsInFlight
    <3>5. \A d \in PutsInFlight : StagedBy(d.slot)'
      BY <3>2 DEF IInv, ActorInv, DetachedPutInv, StagedBy
    <3> QED BY <3>3, <3>4, <3>5 DEF DetachedPutInv
  <2> QED BY <2>1, <2>2, <2>3, <2>4 DEF ActorInv, OwnInv
<1> QED BY <1>3, <1>7, <1>8, <1>10, ReadFrame DEF IInv

\* A refused reservation leaves no operation.
LEMMA ReserveFailsStep ==
    ASSUME IInv, NEW p \in Procs, ReserveFails(p)
    PROVE  IInv'
<1>1. TypeOK'
  BY ControlTypes DEF IInv, TypeOK, ReserveFails, dbVars, Actors, Labels
<1>2. ActorInv'
  BY ActorReturns, SparesFrame DEF ReserveFails, dbVars, Actors, PutsInFlight
<1> QED BY <1>1, <1>2, StoreFrame, ReadFrame DEF IInv, ReserveFails, dbVars

\* The staged slot is in no key row, is aimed at by no deletion, and no other
\* actor works on it.
LEMMA StagedFacts ==
    ASSUME IInv, NEW p \in Procs, pc[p] = "put"
    PROVE  /\ req[p].op \in Uuids
           /\ StagedBy(req[p].op)
           /\ req[p].secret \in Secrets
           /\ \A b \in Actors \ {p} : req[b].op # req[p].op
<1>1. p \in Actors /\ pc[p] \notin NoOpLabels
  BY DEF Actors, NoOpLabels
<1>2. req[p].op \in Uuids /\ req[p].op # None
  BY <1>1, OperationOwned
<1>3. StagedBy(req[p].op) /\ req[p].secret \in Secrets
  BY <1>1 DEF IInv, ActorInv, OwnInv, Own, StagedBy, TypeOK, Requests
<1> QED BY <1>1, <1>2, <1>3, OperationsDiffer

LEMMA PutStep ==
    ASSUME IInv, NEW p \in Procs, Put(p)
    PROVE  IInv'
<1>1. /\ p \in Actors /\ pc[p] = "put" /\ Goto(p, "publish")
      /\ store' = [store EXCEPT ![req[p].op] = req[p].secret]
      /\ UNCHANGED <<dbVars, issued, detached, reader, crashes>>
  BY DEF Put, Actors
<1>2. TypeOK'
  BY <1>1, StagedFacts, ControlTypes DEF IInv, TypeOK, dbVars, Labels
<1>3. StoreInv'
  BY <1>1, StagedFacts, WrittenSlot DEF dbVars
<1>4. Own(p)'
  BY <1>1, StagedFacts DEF IInv, ActorInv, OwnInv, Own, TypeOK, Goto, dbVars
<1>5. \A b \in Actors \ {p} : Spares(b)
  BY <1>1, StagedFacts DEF Spares, IInv, TypeOK, dbVars
<1>6. ActorInv'
  BY <1>1, <1>4, <1>5, ActorGoesOn DEF dbVars, PutsInFlight, NoOpLabels
<1> QED BY <1>1, <1>2, <1>3, <1>6, ReadFrame DEF IInv, dbVars

LEMMA PutFailsStep ==
    ASSUME IInv, NEW p \in Procs, PutFails(p)
    PROVE  IInv'
<1>1. /\ p \in Actors /\ pc[p] = "put" /\ Goto(p, "claim")
      /\ store' \in {store, [store EXCEPT ![req[p].op] = req[p].secret]}
      /\ UNCHANGED <<dbVars, issued, detached, reader, crashes>>
  BY DEF PutFails, Actors
<1>2. TypeOK'
  BY <1>1, StagedFacts, ControlTypes DEF IInv, TypeOK, dbVars, Labels
<1>3. StoreInv'
  BY <1>1, StagedFacts, WrittenSlot DEF dbVars
<1>4. Own(p)'
  BY <1>1 DEF IInv, ActorInv, OwnInv, Own, TypeOK, Goto, dbVars
<1>5. \A b \in Actors \ {p} : Spares(b)
  BY <1>1, StagedFacts DEF Spares, IInv, TypeOK, dbVars
<1>6. ActorInv'
  BY <1>1, <1>4, <1>5, ActorGoesOn DEF dbVars, PutsInFlight, NoOpLabels
<1> QED BY <1>1, <1>2, <1>3, <1>6, ReadFrame DEF IInv, dbVars

\* The put in flight keeps the reconciler out, and its pending row with it.
LEMMA PutCancelledStep ==
    ASSUME IInv, NEW p \in Procs, PutCancelled(p)
    PROVE  IInv'
<1> DEFINE put == [io |-> "put", slot |-> req[p].op, secret |-> req[p].secret]
<1>1. /\ p \in Actors /\ p # Reconciler /\ pc[p] = "put" /\ Dropped(p)
      /\ detached' = detached \cup {put}
      /\ UNCHANGED <<dbVars, store, issued, reader, crashes>>
  BY DEF PutCancelled, Actors
<1>2. /\ req[p].op \in Uuids /\ StagedBy(req[p].op) /\ req[p].secret \in Secrets
      /\ \A b \in Actors \ {p} : req[b].op # req[p].op
      /\ issued[req[p].op] # None
  BY <1>1, StagedFacts, OperationOwned DEF NoOpLabels
<1>3. TypeOK'
  BY <1>1, <1>2, ControlTypes DEF IInv, TypeOK, dbVars, Labels
<1>4. StoreInv'
  BY <1>1, <1>2 DEF IInv, StoreInv, TypeOK, IssuedInv, PendingInv, DeadInv, dbVars,
         ActiveSecretPresent, NoStrandedSecret, DeletedKeyLeavesNothing, Entries, Fresh,
         Active, StagedBy, Condemned
<1>5. /\ req'[p] = NoReq /\ pc'[p] = "idle"
      /\ \A b \in Actors \ {p} : pc'[b] = pc[b] /\ req'[b] = req[b]
  BY <1>1 DEF IInv, TypeOK, Dropped
<1>6. LockInv'
  <2>1. pc'[Reconciler] = "idle"
    BY <1>1, <1>5 DEF IInv, ActorInv, LockInv, Sharers, Actors
  <2>2. \A b \in Actors : req'[b].op = None \/ req'[b].op = req[b].op
    BY <1>5 DEF NoReq, Request
  <2>3. \A b \in Actors : req'[b].op = None <=> pc'[b] \in NoOpLabels
    BY <1>5 DEF IInv, ActorInv, LockInv, NoReq, Request, NoOpLabels
  <2>4. \A q, o \in Procs : q # o /\ req'[q].op # None => req'[q].op # req'[o].op
    BY <2>2 DEF IInv, ActorInv, LockInv, Actors
  <2> QED BY <1>1, <1>5, <2>1, <2>3, <2>4 DEF IInv, ActorInv, LockInv, Actors
<1>7. OwnInv'
  BY <1>1, <1>5, OwnFrame, SparesFrame DEF OwnInv, Own, dbVars
<1>8. DetachedPutInv'
  <2> SUFFICES ASSUME NEW d \in PutsInFlight'
               PROVE  StagedBy(d.slot)' /\ \A b \in Actors : req'[b].op # d.slot
    BY DEF DetachedPutInv
  <2>1. StagedBy(d.slot) /\ d.slot \in Uuids /\ \A b \in Actors \ {p} : req[b].op # d.slot
    BY <1>1, <1>2 DEF IInv, ActorInv, DetachedPutInv, PutsInFlight, TypeOK
  <2> QED BY <1>1, <1>5, <2>1 DEF StagedBy, dbVars, NoReq, Request
<1> QED BY <1>1, <1>3, <1>4, <1>6, <1>7, <1>8, ReadFrame DEF IInv, ActorInv, dbVars

\* The slot that becomes active is staged and holds the secret; the slot it
\* replaces becomes condemned.
LEMMA PublishStep ==
    ASSUME IInv, NEW p \in Procs, Publish(p)
    PROVE  IInv'
<1> DEFINE r == req[p]
           u == r.op
           slot == Staging(u, r.kind)
           status == IF r.previous = None THEN "committed" ELSE "cleanup"
           label == IF r.previous = None THEN "finish" ELSE "checkPrevious"
           row == [journal[u] EXCEPT !.status = status]
           key == [state |-> "live", version |-> r.expected + 1, slot |-> slot,
                   fp |-> r.secret]
<1>1. /\ p \in Actors /\ pc[p] = "publish" /\ Goto(p, label)
      /\ keyRow' = [keyRow EXCEPT ![r.key] = key]
      /\ usage' = [usage EXCEPT ![r.key] = NoUsage]
      /\ journal' = [journal EXCEPT ![u] = row]
      /\ UNCHANGED <<store, issued, detached, reader, crashes>>
      /\ keyRow[r.key].state = "live" /\ keyRow[r.key].version = r.expected
      /\ keyRow[r.key].slot = r.previous
  BY DEF Publish, MayPublish, Actors
<1>2. /\ u \in Uuids /\ u # None /\ r.key \in Keys /\ r \in Requests
      /\ \A b \in Actors \ {p} : req[b].op # u
  BY <1>1, OperationOwned, OperationsDiffer DEF IInv, ActorInv, OwnInv, Own, NoOpLabels, TypeOK
<1>3. /\ journal[u].status = "pending" /\ journal[u].key = r.key /\ journal[u].kind = r.kind
      /\ journal[u].gen = r.expected + 1 /\ journal[u].previous = r.previous
      /\ r.kind \in Kinds /\ (r.kind = "clear" <=> r.secret = None)
      /\ r.kind # "clear" => store[u] = r.secret
      /\ issued[u] = r.key /\ u \in Entries /\ journal[u] \in JournalRows
  BY <1>1, <1>2, OperationOwned
     DEF IInv, StoreInv, ActorInv, OwnInv, Own, IssuedInv, NoOpLabels, TypeOK
<1>4. /\ slot \in Uuids \cup {None}
      /\ slot = None <=> r.secret = None
      /\ slot # None => slot = u /\ StagedBy(u) /\ store[u] = r.secret
  BY <1>2, <1>3 DEF Staging, StagedBy
<1>5. /\ journal'[u].status = status /\ journal'[u].key = r.key /\ journal'[u].kind = r.kind
      /\ journal'[u].gen = r.expected + 1 /\ journal'[u].previous = r.previous
      /\ row \in JournalRows
      /\ \A w \in Uuids \ {u} : journal'[w] = journal[w]
      /\ Entries' = Entries
  BY <1>1, <1>2, <1>3, ZenonT(60) DEF IInv, TypeOK, JournalRows, Entries
<1>6. /\ keyRow'[r.key] = key
      /\ key \in KeyRows
      /\ \A k \in Keys \ {r.key} : keyRow'[k] = keyRow[k]
  BY <1>1, <1>2, <1>4 DEF IInv, TypeOK, KeyRows, Requests
<1>7. TypeOK'
  <2>1. keyRow' \in [Keys -> KeyRows] /\ journal' \in [Uuids -> JournalRows]
    BY <1>1, <1>5, <1>6 DEF IInv, TypeOK
  <2>2. \A k \in Keys : /\ keyRow'[k].slot = None <=> keyRow'[k].fp = None
                        /\ keyRow'[k].slot # None => keyRow'[k].version > 0
    BY <1>2, <1>4, <1>6 DEF IInv, TypeOK, Requests
  <2>3. usage' \in [Keys -> [version : Nat, secret : Secrets \cup {None}]]
    BY <1>1 DEF IInv, TypeOK, NoUsage
  <2> QED BY <1>1, <2>1, <2>2, <2>3, ControlTypes DEF IInv, TypeOK, Labels
<1>8. StoreInv'
  <2>1. ASSUME r.previous # None
        PROVE  /\ Active(r.previous) /\ r.previous \in Uuids
               /\ \A k \in Keys : keyRow'[k].slot # r.previous
    <3>1. Active(r.previous) /\ r.previous \in Uuids
      BY <1>1, <1>2, <2>1 DEF Active, IInv, TypeOK, KeyRows
    <3>2. slot # r.previous
      BY <1>4, <2>1, <3>1 DEF IInv, StoreInv, PendingInv
    <3>3. \A k \in Keys \ {r.key} : keyRow[k].slot # r.previous
      BY <1>1, <1>2, <2>1 DEF IInv, StoreInv, IssuedInv
    <3>4. keyRow'[r.key].slot = slot
      BY <1>6
    <3>5. \A k \in Keys \ {r.key} : keyRow'[k].slot # r.previous
      BY <1>6, <3>3
    <3> QED BY <3>1, <3>2, <3>4, <3>5, SMTT(30)
  <2>7. IssuedInv'
    <3>1. ASSUME NEW k \in Keys, keyRow'[k].slot # None PROVE issued[keyRow'[k].slot] = k
      BY <1>3, <1>4, <1>6, <3>1 DEF IInv, StoreInv, IssuedInv
    <3>2. ASSUME NEW w \in Entries
          PROVE  /\ journal'[w].key \in Keys
                 /\ issued[w] = journal'[w].key
                 /\ journal'[w].kind \in Kinds
                 /\ journal'[w].gen > 0
                 /\ journal'[w].previous # None => issued[journal'[w].previous] = journal'[w].key
      BY <1>3, <1>5 DEF IInv, StoreInv, IssuedInv, Entries
    <3>3. \A w \in Uuids : journal'[w].status = "none" => journal'[w] = NoRow
      BY <1>5 DEF IInv, StoreInv, IssuedInv
    <3>4. \A w \in Fresh : store[w] = None /\ journal'[w] = NoRow
      BY <1>2, <1>3, <1>5 DEF IInv, StoreInv, IssuedInv, Fresh
    <3> QED BY <1>1, <1>5, <3>1, <3>2, <3>3, <3>4 DEF IInv, StoreInv, IssuedInv, Fresh
  <2>8. PendingInv'
    <3>1. ASSUME NEW w \in Entries, journal'[w].status = "pending"
          PROVE  /\ w # u /\ journal[w].status = "pending" /\ journal'[w] = journal[w]
                 /\ journal[w].key # r.key
      BY <1>3, <1>5, <3>1 DEF IInv, StoreInv, PendingInv, Entries
    <3>2. ASSUME NEW w \in Entries, journal'[w].status = "pending"
          PROVE  /\ keyRow'[journal'[w].key].state = "live"
                 /\ keyRow'[journal'[w].key].version + 1 = journal'[w].gen
                 /\ keyRow'[journal'[w].key].slot = journal'[w].previous
      BY <1>6, <3>1, <3>2 DEF IInv, StoreInv, PendingInv, IssuedInv
    <3>3. \A v, w \in Entries :
            journal'[v].status = "pending" /\ journal'[w].status = "pending"
              => (journal'[v].key = journal'[w].key => v = w)
      BY <3>1 DEF IInv, StoreInv, PendingInv
    <3>4. ASSUME NEW w \in Uuids, StagedBy(w)' PROVE ~ Active(w)'
      <4>1. w # u /\ StagedBy(w)
        BY <1>5, <3>4 DEF StagedBy
      <4> QED BY <1>4, <1>6, <4>1 DEF IInv, StoreInv, PendingInv, Active
    <3>5. \A w \in Uuids : journal'[w].status = "committed" => journal'[w].previous = None
      BY <1>5 DEF IInv, StoreInv, PendingInv
    <3> QED BY <1>5, <3>2, <3>3, <3>4, <3>5 DEF PendingInv
  <2>9. DeadInv'
    <3>1. ASSUME NEW w \in Uuids, Active(w)' PROVE w = slot \/ Active(w)
      BY <1>6, <3>1 DEF Active
    <3>2. ASSUME NEW w \in Uuids, StagedBy(w)' PROVE StagedBy(w)
      BY <1>5, <3>2 DEF StagedBy
    <3>3. ASSUME NEW w \in Uuids, Condemned(w)'
          PROVE  ~ Active(w)' /\ ~ StagedBy(w)'
      <4>1. CASE Condemned(w)
        BY <1>4, <3>1, <3>2, <4>1 DEF IInv, StoreInv, DeadInv
      <4>2. CASE w = r.previous
        BY <2>1, <3>2, <4>2, NoneAssumption DEF IInv, StoreInv, PendingInv, Active
      <4> QED BY <1>5, <3>3, <4>1, <4>2 DEF Condemned, Entries
    <3>4. ASSUME NEW d \in detached, d.io = "delete"
          PROVE  ~ Active(d.slot)' /\ ~ StagedBy(d.slot)'
      <4>1. d.slot \in Uuids
        BY DEF IInv, TypeOK
      <4> QED BY <1>4, <3>1, <3>2, <3>4, <4>1 DEF IInv, StoreInv, DeadInv
    <3> QED BY <1>1, <3>3, <3>4 DEF IInv, StoreInv, DeadInv
  <2>10. ActiveSecretPresent'
    BY <1>1, <1>2, <1>4, <1>6 DEF IInv, StoreInv, ActiveSecretPresent
  <2>11. NoStrandedSecret'
    <3> SUFFICES ASSUME NEW w \in Uuids, store[w] # None
                 PROVE  Active(w)' \/ StagedBy(w)' \/ Condemned(w)'
      BY <1>1 DEF NoStrandedSecret
    <3>1. CASE w = slot
      BY <1>2, <1>6, <3>1 DEF Active, IInv, TypeOK
    <3>2. CASE Active(w) /\ w # slot
      <4>1. CASE w = r.previous
        <5>1. journal'[u].status = "cleanup" /\ journal'[u].previous = w /\ u \in Entries'
          BY <1>3, <1>5, <3>2, <4>1 DEF Active
        <5> QED BY <5>1 DEF Condemned
      <4>2. CASE w # r.previous
        BY <1>1, <1>6, <3>2, <4>2 DEF Active
      <4> QED BY <4>1, <4>2
    <3>3. CASE StagedBy(w) /\ w # slot
      <4>1. w # u
        BY <1>3, <3>3 DEF StagedBy, Staging
      <4> QED BY <1>5, <3>3, <4>1 DEF StagedBy
    <3>4. CASE Condemned(w)
      BY <1>3, <1>5, <3>4 DEF Condemned, Entries
    <3> QED BY <3>1, <3>2, <3>3, <3>4 DEF IInv, StoreInv, NoStrandedSecret
  <2>12. DeletedKeyLeavesNothing'
    BY <1>1, <1>2, <1>3, <1>5, <1>6 DEF IInv, StoreInv, TypeOK, DeletedKeyLeavesNothing
  <2> QED BY <2>7, <2>8, <2>9, <2>10, <2>11, <2>12 DEF StoreInv
<1>9. Own(p)'
  BY <1>1, <1>2, <1>3, <1>5 DEF IInv, ActorInv, OwnInv, Own, TypeOK, Goto
<1>10. ActorInv'
  <2>1. \A b \in Actors \ {p} : Spares(b)
    BY <1>1, <1>2, <1>5 DEF Spares, IInv, TypeOK, Requests
  <2> QED BY <1>1, <1>5, <1>9, <2>1, ActorGoesOn DEF PutsInFlight, NoOpLabels
<1>11. ReadInv'
  <2>1. ReaderInv'
    <3> SUFFICES ASSUME NEW s \in Readers, reader[s].pc # "idle", reader[s].key = r.key
                 PROVE  /\ reader[s].version <= r.expected + 1
                        /\ reader[s].version # r.expected + 1
      BY <1>1, <1>2, <1>6 DEF IInv, ReadInv, ReaderInv
    <3>1. reader[s].version <= r.expected /\ reader[s].version \in Nat /\ r.expected \in Nat
      BY <1>1, <1>2 DEF IInv, ReadInv, ReaderInv, TypeOK, Readings, Requests
    <3> QED BY <3>1
  <2>2. UsageMatchesCredential'
    BY <1>1, <1>2, <1>6 DEF IInv, ReadInv, TypeOK, UsageMatchesCredential
  <2> QED BY <2>1, <2>2 DEF ReadInv
<1> QED BY <1>7, <1>8, <1>10, <1>11 DEF IInv

\* The operation of a failed publication is still pending.
LEMMA PublishFailsStep ==
    ASSUME IInv, NEW p \in Procs, PublishFails(p)
    PROVE  IInv'
<1> DEFINE label == IF req[p].kind = "clear" THEN "dropPending" ELSE "claim"
<1>1. /\ p \in Actors /\ pc[p] = "publish" /\ Goto(p, label)
      /\ UNCHANGED <<dbVars, store, issued, detached, reader, crashes>>
  BY DEF PublishFails, Actors
<1>2. TypeOK'
  BY <1>1, ControlTypes DEF IInv, TypeOK, dbVars, Labels
<1>3. Own(p)'
  BY <1>1 DEF IInv, ActorInv, OwnInv, Own, TypeOK, Goto, dbVars
<1>4. ActorInv'
  BY <1>1, <1>3, ActorGoesOn, SparesFrame DEF dbVars, PutsInFlight, NoOpLabels
<1> QED BY <1>1, <1>2, <1>4, StoreFrame, ReadFrame DEF IInv, dbVars

\* The delete command learns the version and gives its share of the lock back.
LEMMA ViewStep ==
    ASSUME IInv, NEW p \in Procs, View(p)
    PROVE  IInv'
<1>1. /\ p \in Actors /\ p # Reconciler /\ pc[p] = "view"
      /\ UNCHANGED <<dbVars, store, issued, detached, reader, crashes>>
  BY DEF View, Actors
<1>2. CASE Return(p)
  <2>1. TypeOK'
    BY <1>1, <1>2, ControlTypes DEF IInv, TypeOK, dbVars, Labels
  <2>2. ActorInv'
    BY <1>1, <1>2, ActorReturns, SparesFrame DEF dbVars, PutsInFlight
  <2> QED BY <1>1, <2>1, <2>2, StoreFrame, ReadFrame DEF IInv, dbVars
<1>3. CASE /\ pc' = [pc EXCEPT ![p] = "deleteRow"]
           /\ req' = [req EXCEPT ![p].expected = keyRow[req[p].key].version]
           /\ pass' = pass
  <2>1. /\ pc'[p] = "deleteRow"
        /\ req[p].key \in Keys
        /\ req'[p].op = req[p].op /\ req'[p].key = req[p].key /\ req'[p].command = req[p].command
        /\ req'[p] \in Requests
        /\ \A b \in Actors \ {p} : pc'[b] = pc[b] /\ req'[b] = req[b]
    <3>1. req[p].key \in Keys /\ req[p] \in Requests
      BY <1>1 DEF IInv, ActorInv, OwnInv, Own, TypeOK
    <3>2. keyRow[req[p].key].version \in Nat
      BY <3>1 DEF IInv, TypeOK, KeyRows
    <3>3. req'[p] = [req[p] EXCEPT !.expected = keyRow[req[p].key].version]
      BY <1>1, <1>3 DEF IInv, TypeOK
    <3> QED BY <1>1, <1>3, <3>1, <3>2, <3>3 DEF IInv, TypeOK, Requests
  <2>2. TypeOK'
    BY <1>1, <1>3, <2>1 DEF IInv, TypeOK, dbVars, Labels
  <2>3. LockInv'
    BY <1>1, <2>1 DEF IInv, ActorInv, LockInv, NoOpLabels, Actors, Sharers, PutsInFlight
  <2>4. Own(p)'
    BY <2>1 DEF Own
  <2>5. OwnInv'
    BY <1>1, <2>1, <2>4, OwnFrame, SparesFrame DEF OwnInv, dbVars
  <2>6. DetachedPutInv'
    BY <1>1, <2>1 DEF IInv, ActorInv, DetachedPutInv, PutsInFlight, StagedBy, dbVars
  <2> QED BY <1>1, <2>2, <2>3, <2>5, <2>6, StoreFrame, ReadFrame DEF IInv, ActorInv, dbVars
<1> QED BY <1>2, <1>3 DEF View

LEMMA ViewFailsStep ==
    ASSUME IInv, NEW p \in Procs, ViewFails(p)
    PROVE  IInv'
<1>1. TypeOK'
  BY ControlTypes DEF IInv, TypeOK, ViewFails, dbVars, Actors, Labels
<1>2. ActorInv'
  BY ActorReturns, SparesFrame DEF ViewFails, dbVars, Actors, PutsInFlight
<1> QED BY <1>1, <1>2, StoreFrame, ReadFrame DEF IInv, ViewFails, dbVars

\* No journal row names the key and its row has no slot, so none of the slots
\* ever issued to it is staged, condemned or in use: none holds a secret.
LEMMA DeleteRowStep ==
    ASSUME IInv, NEW p \in Procs, DeleteRow(p)
    PROVE  IInv'
<1> DEFINE k == req[p].key
           gone == [state |-> "gone", version |-> 0, slot |-> None, fp |-> None]
<1>1. /\ p \in Actors /\ pc[p] = "deleteRow" /\ Return(p)
      /\ keyRow' = [keyRow EXCEPT ![k] = gone]
      /\ usage' = [usage EXCEPT ![k] = NoUsage]
      /\ UNCHANGED <<journal, store, issued, detached, reader, crashes>>
      /\ keyRow[k].state = "live" /\ keyRow[k].slot = None
      /\ \A u \in Entries : journal[u].key # k
  BY DEF DeleteRow, MayDeleteRow, Actors
<1>2. /\ k \in Keys /\ gone \in KeyRows
      /\ keyRow'[k] = gone
      /\ \A x \in Keys \ {k} : keyRow'[x] = keyRow[x]
  BY <1>1 DEF IInv, ActorInv, OwnInv, Own, TypeOK, KeyRows
<1>3. TypeOK'
  BY <1>1, <1>2, ControlTypes DEF IInv, TypeOK, Labels, NoUsage
<1>4. StoreInv'
  <2>1. \A u \in Uuids : issued[u] = k => store[u] = None /\ journal[u] = NoRow
    <3> SUFFICES ASSUME NEW u \in Uuids, issued[u] = k
                 PROVE  store[u] = None /\ journal[u] = NoRow
      OBVIOUS
    <3>1. u \notin Entries /\ journal[u] = NoRow
      BY <1>1 DEF IInv, StoreInv, IssuedInv, Entries
    <3>2. ~ Active(u)
      BY <1>1, <1>2 DEF IInv, StoreInv, IssuedInv, Active
    <3>3. ~ StagedBy(u)
      BY <3>1 DEF StagedBy, NoRow
    <3>4. ~ Condemned(u)
      BY <1>1, <1>2 DEF IInv, StoreInv, IssuedInv, Condemned
    <3> QED BY <3>1, <3>2, <3>3, <3>4 DEF IInv, StoreInv, NoStrandedSecret
  <2>2. IssuedInv'
    BY <1>1, <1>2 DEF IInv, StoreInv, IssuedInv, Entries, Fresh
  <2>3. PendingInv'
    BY <1>1, <1>2 DEF IInv, StoreInv, IssuedInv, PendingInv, Entries, Active, StagedBy
  <2>4. DeadInv'
    BY <1>1, <1>2 DEF IInv, StoreInv, DeadInv, Entries, Active, StagedBy, Condemned
  <2>5. ActiveSecretPresent'
    BY <1>1, <1>2 DEF IInv, StoreInv, ActiveSecretPresent
  <2>6. NoStrandedSecret'
    BY <1>1, <1>2 DEF IInv, StoreInv, NoStrandedSecret, Entries, Active, StagedBy, Condemned
  <2>7. DeletedKeyLeavesNothing'
    BY <1>1, <1>2, <2>1 DEF IInv, StoreInv, DeletedKeyLeavesNothing
  <2> QED BY <2>2, <2>3, <2>4, <2>5, <2>6, <2>7 DEF StoreInv
<1>5. ActorInv'
  BY <1>1, ActorReturns, SparesFrame DEF PutsInFlight
<1>6. ReadInv'
  BY <1>1, <1>2 DEF IInv, ReadInv, ReaderInv, UsageMatchesCredential, TypeOK
<1> QED BY <1>3, <1>4, <1>5, <1>6 DEF IInv

LEMMA DeleteRowFailsStep ==
    ASSUME IInv, NEW p \in Procs, DeleteRowFails(p)
    PROVE  IInv'
<1>1. TypeOK'
  BY ControlTypes DEF IInv, TypeOK, DeleteRowFails, dbVars, Actors, Labels
<1>2. ActorInv'
  BY ActorReturns, SparesFrame DEF DeleteRowFails, dbVars, Actors, PutsInFlight
<1> QED BY <1>1, <1>2, StoreFrame, ReadFrame DEF IInv, DeleteRowFails, dbVars

-----------------------------------------------------------------------------
(* Cleanup.                                                                *)

\* A deletion is only ever aimed at a condemned slot.
LEMMA TargetFacts ==
    ASSUME IInv, NEW a \in Actors, pc[a] \in {"deletePrevious", "deleteStaging"}
    PROVE  /\ Target(a) \in Uuids
           /\ ~ Active(Target(a))
           /\ ~ StagedBy(Target(a))
           /\ issued[Target(a)] # None
<1>1. /\ req[a].op \in Uuids /\ req[a].op # None /\ req[a].op \in Entries
      /\ journal[req[a].op].key \in Keys
  BY OperationOwned DEF NoOpLabels
<1>2. /\ journal[req[a].op].status = "cleanup"
      /\ journal[req[a].op].previous = Target(a)
      /\ Target(a) # None
      /\ Target(a) \in Uuids
  BY <1>1 DEF IInv, ActorInv, OwnInv, Own, Target, TypeOK, Requests
<1>3. Condemned(Target(a))
  BY <1>1, <1>2 DEF Condemned
<1>4. ~ Active(Target(a)) /\ ~ StagedBy(Target(a))
  BY <1>2, <1>3 DEF IInv, StoreInv, DeadInv
<1>5. issued[Target(a)] # None
  BY <1>1, <1>2 DEF IInv, StoreInv, IssuedInv
<1> QED BY <1>2, <1>4, <1>5

\* So an erased target is nobody's concern.
LEMMA TargetErased ==
    ASSUME IInv, NEW a \in Actors, pc[a] \in {"deletePrevious", "deleteStaging"},
           store' \in {store, [store EXCEPT ![Target(a)] = None]},
           UNCHANGED <<dbVars, issued, detached>>
    PROVE  /\ store' \in [Uuids -> Secrets \cup {None}]
           /\ StoreInv'
           /\ \A b \in Actors : Spares(b)
<1>1. StoreInv'
  BY TargetFacts, ErasedSlot DEF dbVars
<1>2. store' \in [Uuids -> Secrets \cup {None}]
  BY DEF IInv, TypeOK
<1>3. \A b \in Actors : Spares(b)
  BY TargetFacts DEF Spares, dbVars, IInv, TypeOK
<1> QED BY <1>1, <1>2, <1>3

LEMMA CheckPreviousStep ==
    ASSUME IInv, NEW a \in Actors, CheckPrevious(a)
    PROVE  IInv'
<1>1. /\ pc[a] = "checkPrevious"
      /\ ReturnPublished(a) \/ Goto(a, "deletePrevious")
      /\ UNCHANGED <<dbVars, store, issued, detached, reader, crashes>>
  BY DEF CheckPrevious
<1>2. TypeOK'
  BY <1>1, ControlTypes DEF IInv, TypeOK, dbVars, Labels
<1>3. CASE ReturnPublished(a)
  <2>1. ActorInv'
    BY <1>1, <1>3, ActorReturnsPublished, SparesFrame DEF dbVars, PutsInFlight, NoOpLabels
  <2> QED BY <1>1, <1>2, <2>1, StoreFrame, ReadFrame DEF IInv, dbVars
<1>4. CASE Goto(a, "deletePrevious")
  <2>1. Own(a)'
    BY <1>1, <1>4 DEF IInv, ActorInv, OwnInv, Own, TypeOK, Goto, dbVars
  <2>2. ActorInv'
    BY <1>1, <1>4, <2>1, ActorGoesOn, SparesFrame DEF dbVars, PutsInFlight, NoOpLabels
  <2> QED BY <1>1, <1>2, <2>2, StoreFrame, ReadFrame DEF IInv, dbVars
<1> QED BY <1>1, <1>3, <1>4

LEMMA DeleteSlotStep ==
    ASSUME IInv, NEW a \in Actors, DeleteSlot(a)
    PROVE  IInv'
<1> DEFINE label == IF pc[a] = "deletePrevious" THEN "finish" ELSE "finishClaim"
<1>1. /\ pc[a] \in {"deletePrevious", "deleteStaging"} /\ Goto(a, label)
      /\ store' = [store EXCEPT ![Target(a)] = None]
      /\ UNCHANGED <<dbVars, issued, detached, reader, crashes>>
  BY DEF DeleteSlot
<1>2. /\ store' \in [Uuids -> Secrets \cup {None}]
      /\ StoreInv'
      /\ \A b \in Actors : Spares(b)
  BY <1>1, TargetErased
<1>3. TypeOK'
  BY <1>1, <1>2, ControlTypes DEF IInv, TypeOK, dbVars, Labels
<1>4. Own(a)'
  <2>1. store'[Target(a)] = None /\ pc'[a] = label /\ req'[a] = req[a] /\ journal' = journal
    BY <1>1, TargetFacts DEF IInv, TypeOK, Goto, dbVars
  <2> QED BY <1>1, <2>1 DEF IInv, ActorInv, OwnInv, Own, Target
<1>5. ActorInv'
  BY <1>1, <1>2, <1>4, ActorGoesOn DEF dbVars, PutsInFlight, NoOpLabels
<1> QED BY <1>1, <1>2, <1>3, <1>5, ReadFrame DEF IInv, dbVars

LEMMA DeleteSlotFailsStep ==
    ASSUME IInv, NEW a \in Actors, DeleteSlotFails(a)
    PROVE  IInv'
<1>1. /\ pc[a] \in {"deletePrevious", "deleteStaging"} /\ (Return(a) \/ ReturnPublished(a))
      /\ store' \in {store, [store EXCEPT ![Target(a)] = None]}
      /\ UNCHANGED <<dbVars, issued, detached, reader, crashes>>
  BY DEF DeleteSlotFails
<1>2. /\ store' \in [Uuids -> Secrets \cup {None}]
      /\ StoreInv'
      /\ \A b \in Actors : Spares(b)
  BY <1>1, TargetErased
<1>3. TypeOK'
  BY <1>1, <1>2, ControlTypes DEF IInv, TypeOK, dbVars, Labels
<1>4. ActorInv'
  BY <1>1, <1>2, ActorReturns, ActorReturnsPublished DEF dbVars, PutsInFlight, NoOpLabels
<1> QED BY <1>1, <1>2, <1>3, <1>4, ReadFrame DEF IInv, dbVars

\* A delete left behind is aimed at a slot nobody will use again.
LEMMA DeleteSlotCancelledStep ==
    ASSUME IInv, NEW a \in Actors, DeleteSlotCancelled(a)
    PROVE  IInv'
<1> DEFINE delete == [io |-> "delete", slot |-> Target(a), secret |-> None]
<1>1. /\ pc[a] \in {"deletePrevious", "deleteStaging"} /\ Dropped(a)
      /\ detached' = detached \cup {delete}
      /\ UNCHANGED <<dbVars, store, issued, reader, crashes>>
  BY DEF DeleteSlotCancelled
<1>2. TypeOK'
  BY <1>1, TargetFacts, ControlTypes DEF IInv, TypeOK, dbVars, Labels
<1>3. StoreInv'
  BY <1>1, TargetFacts DEF IInv, StoreInv, TypeOK, IssuedInv, PendingInv, DeadInv, dbVars,
         ActiveSecretPresent, NoStrandedSecret, DeletedKeyLeavesNothing, Entries, Fresh,
         Active, StagedBy, Condemned
<1>4. ActorInv'
  <2>1. PutsInFlight' = PutsInFlight
    BY <1>1 DEF PutsInFlight
  <2> QED BY <1>1, <2>1, ActorReturns, SparesFrame DEF dbVars
<1> QED BY <1>1, <1>2, <1>3, <1>4, ReadFrame DEF IInv, dbVars

\* Removing the row of one's own operation, once nothing is stored for it.
LEMMA OwnRowRemoved ==
    ASSUME IInv, NEW a \in Actors, pc[a] \notin NoOpLabels,
           ~ StagedBy(req[a].op),
           journal[req[a].op].status = "cleanup" /\ journal[req[a].op].previous # None
             => store[journal[req[a].op].previous] = None,
           journal' \in {journal, [journal EXCEPT ![req[a].op] = NoRow]},
           UNCHANGED <<keyRow, usage, store, issued, detached, reader, crashes>>
    PROVE  /\ StoreInv'
           /\ ReadInv'
           /\ journal' \in [Uuids -> JournalRows]
           /\ \A u \in Uuids : u # req[a].op => journal'[u] = journal[u]
           /\ \A b \in Actors \ {a} : Spares(b)
<1>1. req[a].op \in Uuids /\ req[a].op # None
  BY OperationOwned
<1>2. StoreInv' /\ ReadInv'
  BY <1>1, RemovedRow, ReadFrame DEF IInv
<1>3. /\ journal' \in [Uuids -> JournalRows]
      /\ \A u \in Uuids : u # req[a].op => journal'[u] = journal[u]
  BY <1>1 DEF IInv, TypeOK, NoRow, JournalRows
<1>4. ASSUME NEW b \in Actors \ {a} PROVE Spares(b)
  <2>1. req[b].op # req[a].op /\ req[b].op \in Uuids \cup {None}
    BY <1>1, OperationsDiffer DEF IInv, TypeOK, Requests
  <2> QED BY <1>3, <2>1 DEF Spares
<1> QED BY <1>2, <1>3, <1>4

LEMMA FinishStep ==
    ASSUME IInv, NEW a \in Actors, Finish(a)
    PROVE  IInv'
<1>1. /\ pc[a] = "finish" /\ pc[a] \notin NoOpLabels /\ ReturnPublished(a)
      /\ journal' \in {journal, [journal EXCEPT ![req[a].op] = NoRow]}
      /\ UNCHANGED <<keyRow, usage, store, issued, detached, reader, crashes>>
  BY DEF Finish, NoOpLabels
<1>2. /\ ~ StagedBy(req[a].op)
      /\ journal[req[a].op].previous # None => store[journal[req[a].op].previous] = None
  BY <1>1 DEF IInv, ActorInv, OwnInv, Own, StagedBy
<1>3. TypeOK'
  BY <1>1, <1>2, OwnRowRemoved, ControlTypes DEF IInv, TypeOK, Labels
<1>4. ActorInv'
  BY <1>1, <1>2, OwnRowRemoved, ActorReturnsPublished DEF PutsInFlight
<1> QED BY <1>1, <1>2, <1>3, <1>4, OwnRowRemoved DEF IInv

\* The row comes to name the staging slot as the one to delete.
LEMMA ClaimStep ==
    ASSUME IInv, NEW a \in Actors, Claim(a)
    PROVE  IInv'
<1> DEFINE u == req[a].op
           row == [journal[u] EXCEPT !.status = "cleanup", !.previous = u]
<1>1. /\ pc[a] = "claim" /\ pc[a] \notin NoOpLabels
      /\ UNCHANGED <<keyRow, usage, store, issued, detached, reader, crashes>>
  BY DEF Claim, NoOpLabels
<1>2. CASE journal' = journal /\ Return(a)
  <2>1. TypeOK'
    BY <1>1, <1>2, ControlTypes DEF IInv, TypeOK, Labels
  <2>2. ActorInv'
    BY <1>1, <1>2, ActorReturns, SparesFrame DEF PutsInFlight
  <2> QED BY <1>1, <1>2, <2>1, <2>2, StoreFrame, ReadFrame DEF IInv
<1>3. CASE journal' = [journal EXCEPT ![u].status = "cleanup", ![u].previous = u]
             /\ Goto(a, "recheck")
  <2>1. /\ u \in Uuids /\ u # None /\ u \in Entries /\ StagedBy(u) /\ ~ Active(u)
        /\ journal[u] \in JournalRows /\ journal[u].key \in Keys
        /\ issued[u] = journal[u].key
    BY <1>1, OperationOwned
       DEF IInv, StoreInv, ActorInv, OwnInv, Own, PendingInv, StagedBy, TypeOK
  <2>2. /\ journal'[u].status = "cleanup" /\ journal'[u].previous = u
        /\ journal'[u].key = journal[u].key /\ journal'[u].kind = journal[u].kind
        /\ journal'[u].gen = journal[u].gen
        /\ row \in JournalRows
        /\ \A w \in Uuids \ {u} : journal'[w] = journal[w]
        /\ Entries' = Entries
    <3>1. /\ journal'[u].status = "cleanup" /\ journal'[u].previous = u
          /\ journal'[u].key = journal[u].key /\ journal'[u].kind = journal[u].kind
          /\ journal'[u].gen = journal[u].gen
          /\ \A w \in Uuids \ {u} : journal'[w] = journal[w]
      BY <1>3, <2>1 DEF IInv, TypeOK, JournalRows
    <3>2. row \in JournalRows
      BY <2>1 DEF JournalRows
    <3>3. journal[u].status # "none"
      BY <2>1 DEF StagedBy
    <3>4. Entries' = Entries
      BY <3>1, <3>3 DEF Entries
    <3> QED BY <3>1, <3>2, <3>4
  <2>3. TypeOK'
    <3>1. journal' \in [Uuids -> JournalRows]
      BY <1>3, <2>1, <2>2 DEF IInv, TypeOK
    <3> QED BY <1>1, <1>3, <3>1, ControlTypes DEF IInv, TypeOK, Labels
  <2>4. StoreInv'
    <3>1. IssuedInv'
      BY <1>1, <2>1, <2>2 DEF IInv, StoreInv, IssuedInv, Entries, Fresh
    <3>2. PendingInv'
      BY <1>1, <2>1, <2>2 DEF IInv, StoreInv, PendingInv, Entries, Active, StagedBy
    <3>3. DeadInv'
      <4>1. ASSUME NEW w \in Uuids, Condemned(w)'
            PROVE  ~ Active(w)' /\ ~ StagedBy(w)'
        <5>1. CASE w = u
          BY <1>1, <2>1, <2>2, <5>1 DEF Active, StagedBy
        <5>2. CASE w # u
          BY <1>1, <2>1, <2>2, <4>1, <5>2
             DEF IInv, StoreInv, DeadInv, Active, StagedBy, Condemned, Entries
        <5> QED BY <5>1, <5>2
      <4>2. ASSUME NEW d \in detached, d.io = "delete"
            PROVE  ~ Active(d.slot)' /\ ~ StagedBy(d.slot)'
        <5>1. d.slot \in Uuids /\ d.slot # u
          BY <2>1, <4>2 DEF IInv, StoreInv, DeadInv, TypeOK
        <5> QED BY <1>1, <2>2, <4>2, <5>1 DEF IInv, StoreInv, DeadInv, Active, StagedBy
      <4> QED BY <1>1, <4>1, <4>2 DEF IInv, StoreInv, DeadInv
    <3>4. NoStrandedSecret'
      <4> SUFFICES ASSUME NEW w \in Uuids, store[w] # None
                   PROVE  Active(w)' \/ StagedBy(w)' \/ Condemned(w)'
        BY <1>1 DEF NoStrandedSecret
      <4>1. CASE w = u
        BY <2>1, <2>2, <4>1 DEF Condemned
      <4>2. CASE Active(w)
        BY <1>1, <4>2 DEF Active
      <4>3. CASE StagedBy(w) /\ w # u
        BY <2>2, <4>3 DEF StagedBy
      <4>4. CASE Condemned(w)
        BY <2>1, <2>2, <4>4 DEF Condemned, Entries, StagedBy
      <4> QED BY <4>1, <4>2, <4>3, <4>4 DEF IInv, StoreInv, NoStrandedSecret
    <3>5. ActiveSecretPresent'
      BY <1>1 DEF IInv, StoreInv, ActiveSecretPresent
    <3>6. DeletedKeyLeavesNothing'
      BY <1>1, <2>1, <2>2 DEF IInv, StoreInv, DeletedKeyLeavesNothing, StagedBy, NoRow
    <3> QED BY <3>1, <3>2, <3>3, <3>4, <3>5, <3>6 DEF StoreInv
  <2>5. Own(a)'
    BY <1>1, <1>3, <2>2 DEF IInv, ActorInv, OwnInv, Own, TypeOK, Goto
  <2>6. ASSUME NEW b \in Actors \ {a} PROVE Spares(b)
    <3>1. req[b].op # u /\ req[b].op \in Uuids \cup {None}
      BY <2>1, OperationsDiffer DEF IInv, TypeOK, Requests
    <3> QED BY <1>1, <2>2, <3>1 DEF Spares
  <2>7. ActorInv'
    BY <1>1, <1>3, <2>2, <2>5, <2>6, ActorGoesOn DEF PutsInFlight, NoOpLabels
  <2> QED BY <1>1, <2>3, <2>4, <2>7, ReadFrame DEF IInv
<1> QED BY <1>2, <1>3 DEF Claim

LEMMA RecheckStep ==
    ASSUME IInv, NEW a \in Actors, Recheck(a)
    PROVE  IInv'
<1>1. /\ pc[a] = "recheck"
      /\ Return(a) \/ Goto(a, "deleteStaging")
      /\ UNCHANGED <<dbVars, store, issued, detached, reader, crashes>>
  BY DEF Recheck
<1>2. TypeOK'
  BY <1>1, ControlTypes DEF IInv, TypeOK, dbVars, Labels
<1>3. CASE Return(a)
  <2>1. ActorInv'
    BY <1>1, <1>3, ActorReturns, SparesFrame DEF dbVars, PutsInFlight
  <2> QED BY <1>1, <1>2, <2>1, StoreFrame, ReadFrame DEF IInv, dbVars
<1>4. CASE Goto(a, "deleteStaging")
  <2>1. Own(a)'
    BY <1>1, <1>4 DEF IInv, ActorInv, OwnInv, Own, TypeOK, Goto, dbVars
  <2>2. ActorInv'
    BY <1>1, <1>4, <2>1, ActorGoesOn, SparesFrame DEF dbVars, PutsInFlight, NoOpLabels
  <2> QED BY <1>1, <1>2, <2>2, StoreFrame, ReadFrame DEF IInv, dbVars
<1> QED BY <1>1, <1>3, <1>4

LEMMA FinishClaimStep ==
    ASSUME IInv, NEW a \in Actors, FinishClaim(a)
    PROVE  IInv'
<1>1. /\ pc[a] = "finishClaim" /\ pc[a] \notin NoOpLabels /\ pc[a] # "idle" /\ Return(a)
      /\ journal' \in {journal, [journal EXCEPT ![req[a].op] = NoRow]}
      /\ UNCHANGED <<keyRow, usage, store, issued, detached, reader, crashes>>
  BY DEF FinishClaim, NoOpLabels
<1>2. ~ StagedBy(req[a].op) /\ store[journal[req[a].op].previous] = None
  BY <1>1 DEF IInv, ActorInv, OwnInv, Own, StagedBy
<1>3. TypeOK'
  BY <1>1, <1>2, OwnRowRemoved, ControlTypes DEF IInv, TypeOK, Labels
<1>4. ActorInv'
  BY <1>1, <1>2, OwnRowRemoved, ActorReturns DEF PutsInFlight
<1> QED BY <1>1, <1>2, <1>3, <1>4, OwnRowRemoved DEF IInv

LEMMA DropPendingStep ==
    ASSUME IInv, NEW a \in Actors, DropPending(a)
    PROVE  IInv'
<1>1. /\ pc[a] = "dropPending" /\ pc[a] \notin NoOpLabels /\ pc[a] # "idle" /\ Return(a)
      /\ journal' \in {journal, [journal EXCEPT ![req[a].op] = NoRow]}
      /\ UNCHANGED <<keyRow, usage, store, issued, detached, reader, crashes>>
  BY DEF DropPending, NoOpLabels
<1>2. ~ StagedBy(req[a].op) /\ journal[req[a].op].status = "pending"
  BY <1>1 DEF IInv, ActorInv, OwnInv, Own, StagedBy
<1>3. TypeOK'
  BY <1>1, <1>2, OwnRowRemoved, ControlTypes DEF IInv, TypeOK, Labels
<1>4. ActorInv'
  BY <1>1, <1>2, OwnRowRemoved, ActorReturns DEF PutsInFlight
<1> QED BY <1>1, <1>2, <1>3, <1>4, OwnRowRemoved DEF IInv

LEMMA CleanupDatabaseFailsStep ==
    ASSUME IInv, NEW a \in Actors, CleanupDatabaseFails(a)
    PROVE  IInv'
<1>1. /\ pc[a] \notin NoOpLabels /\ pc[a] # "idle" /\ (Return(a) \/ ReturnPublished(a))
      /\ UNCHANGED <<dbVars, store, issued, detached, reader, crashes>>
  BY DEF CleanupDatabaseFails, NoOpLabels
<1>2. TypeOK'
  BY <1>1, ControlTypes DEF IInv, TypeOK, dbVars, Labels
<1>3. ActorInv'
  BY <1>1, ActorReturns, ActorReturnsPublished, SparesFrame DEF dbVars, PutsInFlight
<1> QED BY <1>1, <1>2, <1>3, StoreFrame, ReadFrame DEF IInv, dbVars

\* A put in flight writes a slot that is staged and nobody works on, a delete
\* in flight erases one that is neither staged nor in use.
LEMMA DetachedEndsStep ==
    ASSUME IInv, NEW d \in detached, DetachedEnds(d)
    PROVE  IInv'
<1>1. /\ detached' = detached \ {d}
      /\ store' \in {store, [store EXCEPT ![d.slot] = d.secret]}
      /\ UNCHANGED <<dbVars, issued, actorVars, reader, crashes>>
      /\ d.slot \in Uuids /\ d.secret \in Secrets \cup {None} /\ d.io \in {"put", "delete"}
  BY DEF IInv, TypeOK, DetachedEnds
<1>2. TypeOK'
  BY <1>1 DEF IInv, TypeOK, dbVars, actorVars
<1>3. StoreInv' /\ \A b \in Actors : Spares(b)
  <2>1. CASE d.io = "put"
    <3>1. StagedBy(d.slot) /\ \A b \in Actors : req[b].op # d.slot
      BY <2>1 DEF IInv, ActorInv, DetachedPutInv, PutsInFlight
    <3>2. StoreInv'
      BY <1>1, <3>1, WrittenSlot DEF dbVars
    <3> QED BY <1>1, <3>1, <3>2 DEF Spares, dbVars, IInv, TypeOK
  <2>2. CASE d.io = "delete"
    <3>1. ~ Active(d.slot) /\ ~ StagedBy(d.slot) /\ d.secret = None
      BY <2>2 DEF IInv, StoreInv, DeadInv
    <3>2. StoreInv'
      BY <1>1, <3>1, ErasedSlot DEF dbVars
    <3> QED BY <1>1, <3>1, <3>2 DEF Spares, dbVars, IInv, TypeOK
  <2> QED BY <1>1, <2>1, <2>2
<1>4. ActorInv'
  <2>1. PutsInFlight' \subseteq PutsInFlight
    BY <1>1 DEF PutsInFlight
  <2>2. LockInv'
    BY <1>1, <2>1 DEF IInv, ActorInv, LockInv, actorVars, Sharers
  <2>3. OwnInv'
    BY <1>1, <1>3, OwnFrame DEF OwnInv, actorVars
  <2>4. DetachedPutInv'
    BY <1>1, <2>1 DEF IInv, ActorInv, DetachedPutInv, actorVars, dbVars, StagedBy
  <2> QED BY <2>2, <2>3, <2>4 DEF ActorInv
<1> QED BY <1>1, <1>2, <1>3, <1>4, ReadFrame DEF IInv, dbVars

-----------------------------------------------------------------------------
(* The reconciler.                                                         *)

\* Only rows of the journal are still to be visited, and none of them is the
\* one being worked on.  This needs the lock, and IInv does not need it
\* except where a row is taken up.
PassInv ==
    /\ pass.todo \subseteq Entries
    /\ pc[Reconciler] = "idle" => pass.todo = {}
    /\ req[Reconciler].op \notin pass.todo

LEMMA BeginReconcileStep ==
    ASSUME IInv, BeginReconcile
    PROVE  IInv'
<1>1. /\ pc[Reconciler] = "idle" /\ pc' = [pc EXCEPT ![Reconciler] = "pass"]
      /\ Sharers = {} /\ PutsInFlight = {}
      /\ pass' = [todo |-> Entries, before |-> Cardinality(Entries)]
      /\ UNCHANGED <<dbVars, store, issued, detached, req, reader, crashes>>
  BY DEF BeginReconcile
<1>2. /\ pc'[Reconciler] = "pass"
      /\ \A p \in Procs : pc'[p] = pc[p]
  BY <1>1 DEF IInv, TypeOK, Actors
<1>3. TypeOK'
  <2>1. Entries \subseteq Uuids
    BY DEF Entries
  <2>2. Cardinality(Entries) \in Nat
    BY <2>1, UuidsAssumption, FS_Subset, FS_CardinalityType
  <2>3. pc' \in [Actors -> Labels]
    BY <1>1 DEF IInv, TypeOK, Labels
  <2> QED BY <1>1, <2>1, <2>2, <2>3 DEF IInv, TypeOK, dbVars
<1>4. LockInv'
  BY <1>1, <1>2 DEF IInv, ActorInv, LockInv, Sharers, PutsInFlight, Actors, NoOpLabels
<1>5. OwnInv'
  <2>1. Own(Reconciler)'
    BY <1>2 DEF Own
  <2>2. ASSUME NEW p \in Procs PROVE Own(p)'
    BY <1>1, <1>2, <2>2, OwnFrame, SparesFrame DEF Actors, dbVars
  <2> QED BY <2>1, <2>2 DEF OwnInv, Actors
<1>6. DetachedPutInv'
  BY <1>1 DEF IInv, ActorInv, DetachedPutInv, PutsInFlight, StagedBy, dbVars
<1> QED BY <1>1, <1>3, <1>4, <1>5, <1>6, StoreFrame, ReadFrame DEF IInv, ActorInv, dbVars

\* A pending row is ahead of its key row, so it is never taken for a
\* published one, and the reconciler leaves the journal as it finds it.
LEMMA NotPublishedAlready ==
    ASSUME IInv, NEW u \in Entries, journal[u].status = "pending"
    PROVE  ~ PublishedAlready(u)
<1>1. /\ journal[u].key \in Keys
      /\ keyRow[journal[u].key].version + 1 = journal[u].gen
  BY DEF IInv, StoreInv, IssuedInv, PendingInv
<1>2. keyRow[journal[u].key].version \in Nat
  BY <1>1 DEF IInv, TypeOK, KeyRows
<1> QED BY <1>1, <1>2 DEF PublishedAlready

LEMMA ReconcileEntryStep ==
    ASSUME IInv, PassInv, NEW u \in Uuids, ReconcileEntry(u)
    PROVE  IInv'
<1> DEFINE row == journal[u]
           taken == [kind |-> row.kind, command |-> "none", key |-> row.key,
                     expected |-> row.gen - 1, op |-> u, previous |-> row.previous,
                     previousFp |-> None, secret |-> None]
           label == EntryStep(u, row.status)
<1>1. /\ pc[Reconciler] = "pass" /\ u \in Entries /\ u # None
      /\ row \in JournalRows /\ row.key \in Keys /\ row.gen > 0 /\ row.kind \in Kinds
      /\ issued[u] = row.key
  BY DEF ReconcileEntry, PassInv, IInv, StoreInv, IssuedInv, TypeOK, Entries
<1>2. /\ journal' = [journal EXCEPT ![u].status = row.status]
      /\ req' = [req EXCEPT ![Reconciler] = taken]
      /\ pc' = [pc EXCEPT ![Reconciler] = label]
      /\ pass' = [pass EXCEPT !.todo = @ \ {u}]
      /\ UNCHANGED <<keyRow, usage, store, issued, detached, reader, crashes>>
  BY <1>1, NotPublishedAlready DEF ReconcileEntry
<1>3. journal' = journal
  <2>1. [row EXCEPT !.status = row.status] = row
    BY <1>1 DEF JournalRows
  <2> QED BY <1>2, <2>1 DEF IInv, TypeOK
<1>4. /\ taken \in Requests
      /\ taken.op = u /\ taken.command = "none" /\ taken.key = row.key
      /\ taken.kind = row.kind /\ taken.previous = row.previous /\ taken.expected + 1 = row.gen
  BY <1>1 DEF Requests, JournalRows
<1>5. \/ label = "dropPending" /\ row.status = "pending" /\ row.kind = "clear"
      \/ label = "claim" /\ row.status = "pending" /\ row.kind # "clear"
      \/ label = "checkPrevious" /\ row.status = "cleanup" /\ row.previous # None
      \/ label = "finish" /\ row.status \in {"committed", "cleanup"} /\ row.previous = None
  BY <1>1 DEF EntryStep, Entries, JournalRows, IInv, StoreInv, PendingInv
<1>6. /\ pc'[Reconciler] = label /\ req'[Reconciler] = taken
      /\ \A p \in Procs : pc'[p] = pc[p] /\ req'[p] = req[p] /\ p \in Actors
      /\ Reconciler \in Actors
  BY <1>2 DEF IInv, TypeOK, Actors
<1>7. TypeOK'
  <2>1. pc' \in [Actors -> Labels] /\ req' \in [Actors -> Requests]
    BY <1>2, <1>4, <1>5 DEF IInv, TypeOK, Labels
  <2>2. pass' \in [todo : SUBSET Uuids, before : Nat]
    BY <1>2 DEF IInv, TypeOK
  <2> QED BY <1>2, <1>3, <2>1, <2>2 DEF IInv, TypeOK
<1>8. LockInv'
  <2>1. Sharers' = {} /\ PutsInFlight' = {}
    BY <1>1, <1>2, <1>6 DEF IInv, ActorInv, LockInv, Sharers, PutsInFlight
  <2>2. label \notin NoOpLabels /\ label \notin {"put", "publish"}
    BY <1>5 DEF NoOpLabels
  <2>3. \A p \in Procs : req'[p].op = None <=> pc'[p] \in NoOpLabels
    BY <1>6 DEF IInv, ActorInv, LockInv
  <2> QED BY <1>1, <1>4, <1>6, <2>1, <2>2, <2>3 DEF IInv, ActorInv, LockInv, Actors, NoOpLabels
<1>9. OwnInv'
  <2>1. Own(Reconciler)'
    BY <1>1, <1>3, <1>4, <1>5, <1>6 DEF Own
  <2>2. ASSUME NEW p \in Procs PROVE Own(p)'
    BY <1>2, <1>3, <1>6, <2>2, OwnFrame, SparesFrame
  <2> QED BY <2>1, <2>2 DEF OwnInv, Actors
<1>10. DetachedPutInv'
  BY <1>1, <1>2 DEF IInv, ActorInv, LockInv, DetachedPutInv, PutsInFlight
<1> QED BY <1>2, <1>3, <1>7, <1>8, <1>9, <1>10, StoreFrame, ReadFrame DEF IInv, ActorInv

LEMMA EndPassStep ==
    ASSUME IInv, EndPass
    PROVE  IInv'
<1>1. /\ pc[Reconciler] = "pass"
      /\ UNCHANGED <<dbVars, store, issued, detached, reader, crashes>>
      /\ Reconciler \in Actors
  BY DEF EndPass, Actors
<1>2. CASE Dropped(Reconciler)
  <2>1. TypeOK'
    BY <1>1, <1>2, ControlTypes DEF IInv, TypeOK, dbVars, Labels
  <2>2. ActorInv'
    BY <1>1, <1>2, ActorReturns, SparesFrame DEF dbVars, PutsInFlight
  <2> QED BY <1>1, <2>1, <2>2, StoreFrame, ReadFrame DEF IInv, dbVars
<1>3. CASE /\ pass' = [todo |-> Entries, before |-> Cardinality(Entries)]
           /\ UNCHANGED <<pc, req>>
  <2>1. Entries \subseteq Uuids
    BY DEF Entries
  <2>2. Cardinality(Entries) \in Nat
    BY <2>1, UuidsAssumption, FS_Subset, FS_CardinalityType
  <2>3. TypeOK'
    BY <1>1, <1>3, <2>1, <2>2 DEF IInv, TypeOK, dbVars
  <2> QED BY <1>1, <1>3, <2>3, StoreFrame, ActorFrame, ReadFrame DEF IInv, dbVars
<1> QED BY <1>2, <1>3 DEF EndPass

LEMMA ReconcileStopsStep ==
    ASSUME IInv, ReconcileStops
    PROVE  IInv'
<1>1. TypeOK'
  BY ControlTypes DEF IInv, TypeOK, ReconcileStops, dbVars, Actors, Labels
<1>2. ActorInv'
  BY ActorReturns, SparesFrame DEF ReconcileStops, dbVars, Actors, PutsInFlight
<1> QED BY <1>1, <1>2, StoreFrame, ReadFrame DEF IInv, ReconcileStops, dbVars

-----------------------------------------------------------------------------
(* Resolutions and crashes.                                                *)

LEMMA ResolveStartStep ==
    ASSUME IInv, NEW r \in Readers, NEW k \in Keys, ResolveStart(r, k)
    PROVE  IInv'
<1> DEFINE started == [pc |-> "get", key |-> k, version |-> keyRow[k].version,
                       slot |-> keyRow[k].slot, fp |-> keyRow[k].fp, secret |-> None]
<1>1. /\ keyRow[k] \in KeyRows /\ keyRow[k].state = "live" /\ keyRow[k].version > 0
      /\ reader' = [reader EXCEPT ![r] = started]
      /\ UNCHANGED <<dbVars, store, issued, detached, actorVars, crashes>>
  BY DEF IInv, TypeOK, ResolveStart
<1>2. /\ reader'[r] = started
      /\ \A s \in Readers \ {r} : reader'[s] = reader[s]
  BY <1>1 DEF IInv, TypeOK
<1>3. TypeOK'
  BY <1>1 DEF IInv, TypeOK, Readings, KeyRows, dbVars, actorVars
<1>4. ReadInv'
  BY <1>1, <1>2 DEF IInv, ReadInv, ReaderInv, UsageMatchesCredential, TypeOK, KeyRows, dbVars
<1> QED BY <1>1, <1>3, <1>4, StoreFrame, ActorFrame DEF IInv, dbVars, actorVars

LEMMA ResolveGetStep ==
    ASSUME IInv, NEW r \in Readers, ResolveGet(r)
    PROVE  IInv'
<1>1. /\ reader[r].pc = "get" /\ store[reader[r].slot] = reader[r].fp
      /\ reader' = [reader EXCEPT ![r].pc = "recheck", ![r].secret = reader[r].fp]
      /\ UNCHANGED <<dbVars, store, issued, detached, actorVars, crashes>>
  BY DEF ResolveGet
<1>2. TypeOK'
  <2> DEFINE got == [reader[r] EXCEPT !.pc = "recheck", !.secret = reader[r].fp]
  <2>1. reader[r] \in Readings
    BY DEF IInv, TypeOK
  <2>2. got \in Readings
    BY <2>1 DEF Readings
  <2>3. reader' = [reader EXCEPT ![r] = got]
    BY <1>1 DEF IInv, TypeOK
  <2> QED BY <1>1, <2>2, <2>3 DEF IInv, TypeOK, dbVars, actorVars
<1>3. ReadInv'
  BY <1>1 DEF IInv, ReadInv, ReaderInv, UsageMatchesCredential, TypeOK, dbVars
<1> QED BY <1>1, <1>2, <1>3, StoreFrame, ActorFrame DEF IInv, dbVars, actorVars

LEMMA ResolveRecheckStep ==
    ASSUME IInv, NEW r \in Readers, ResolveRecheck(r)
    PROVE  IInv'
<1>1. /\ reader[r].pc = "recheck"
      /\ reader' = [reader EXCEPT ![r].pc = "resolved"]
      /\ UNCHANGED <<dbVars, store, issued, detached, actorVars, crashes>>
  BY DEF ResolveRecheck
<1>2. TypeOK'
  BY <1>1, SMTT(30) DEF IInv, TypeOK, Readings, dbVars, actorVars
<1>3. ReadInv'
  BY <1>1, SMTT(30) DEF IInv, ReadInv, ReaderInv, UsageMatchesCredential, TypeOK, dbVars
<1> QED BY <1>1, <1>2, <1>3, StoreFrame, ActorFrame DEF IInv, dbVars, actorVars

\* The version is the one resolved, so the secret is the one the key has.
LEMMA StoreUsageStep ==
    ASSUME IInv, NEW r \in Readers, StoreUsage(r)
    PROVE  IInv'
<1> DEFINE k == reader[r].key
           report == [version |-> reader[r].version, secret |-> reader[r].secret]
<1>1. /\ reader[r].pc = "resolved"
      /\ keyRow[k].state = "live" /\ keyRow[k].version = reader[r].version
      /\ usage' = [usage EXCEPT ![k] = report]
      /\ reader' = [reader EXCEPT ![r] = NoRead]
      /\ UNCHANGED <<keyRow, journal, store, issued, detached, actorVars, crashes>>
  BY DEF StoreUsage, MayStoreUsage
<1>2. TypeOK'
  BY <1>1 DEF IInv, TypeOK, Readings, NoRead, actorVars
<1>3. ReadInv'
  <2>1. k \in Keys /\ report = [version |-> keyRow[k].version, secret |-> keyRow[k].fp]
    BY <1>1 DEF IInv, ReadInv, ReaderInv
  <2>2. UsageMatchesCredential'
    BY <1>1, <2>1 DEF IInv, ReadInv, UsageMatchesCredential, TypeOK
  <2>3. ReaderInv'
    BY <1>1 DEF IInv, ReadInv, ReaderInv, TypeOK, NoRead
  <2> QED BY <2>2, <2>3 DEF ReadInv
<1> QED BY <1>1, <1>2, <1>3, StoreFrame, ActorFrame DEF IInv, actorVars

LEMMA ReadEndsStep ==
    ASSUME IInv, NEW r \in Readers, ReadEnds(r)
    PROVE  IInv'
<1>1. /\ reader' = [reader EXCEPT ![r] = NoRead]
      /\ UNCHANGED <<dbVars, store, issued, detached, actorVars, crashes>>
  BY DEF ReadEnds
<1>2. TypeOK'
  BY <1>1 DEF IInv, TypeOK, Readings, NoRead, dbVars, actorVars
<1>3. ReadInv'
  BY <1>1 DEF IInv, ReadInv, ReaderInv, UsageMatchesCredential, TypeOK, NoRead, dbVars
<1> QED BY <1>1, <1>2, <1>3, StoreFrame, ActorFrame DEF IInv, dbVars, actorVars

\* Nothing the stores' part of the invariant says is about the process.
LEMMA CrashStep ==
    ASSUME IInv, Crash
    PROVE  IInv'
<1>1. /\ detached' = {}
      /\ \A a \in Actors : pc'[a] = "idle" /\ req'[a] = NoReq
      /\ \A r \in Readers : reader'[r] = NoRead
      /\ UNCHANGED <<dbVars, store, issued>>
  BY DEF Crash
<1>2. NoReq \in Requests /\ NoReq.op = None /\ NoReq.command = "none"
  BY DEF NoReq, Request, Requests
<1>3. TypeOK'
  BY <1>2 DEF IInv, TypeOK, Readings, Crash, dbVars, NoRead, NoPass, Labels
<1>4. StoreInv'
  BY <1>1 DEF IInv, StoreInv, IssuedInv, PendingInv, DeadInv, ActiveSecretPresent,
     NoStrandedSecret, DeletedKeyLeavesNothing, Entries, Fresh, Active, StagedBy, Condemned, dbVars
<1>5. ActorInv'
  <2>1. \A a \in Actors : Own(a)'
    BY <1>1 DEF Own
  <2> QED BY <1>1, <1>2, <2>1
          DEF ActorInv, LockInv, OwnInv, DetachedPutInv, PutsInFlight, Actors, NoOpLabels
<1>6. ReadInv'
  BY <1>1 DEF IInv, ReadInv, ReaderInv, UsageMatchesCredential, NoRead, dbVars
<1> QED BY <1>3, <1>4, <1>5, <1>6 DEF IInv

-----------------------------------------------------------------------------
(* The inductive invariant.                                                *)

LEMMA CleanupStepKeeps ==
    ASSUME IInv, NEW a \in Actors, CleanupStep(a)
    PROVE  IInv'
BY CheckPreviousStep, DeleteSlotStep, DeleteSlotFailsStep, DeleteSlotCancelledStep, FinishStep,
   ClaimStep, RecheckStep, FinishClaimStep, DropPendingStep, CleanupDatabaseFailsStep
   DEF CleanupStep

LEMMA CommandStepKeeps ==
    ASSUME IInv, NEW p \in Procs, CommandStep(p)
    PROVE  IInv'
BY ReserveStep, ReserveFailsStep, PutStep, PutFailsStep, PutCancelledStep, PublishStep,
   PublishFailsStep, ViewStep, ViewFailsStep, DeleteRowStep, DeleteRowFailsStep,
   CleanupStepKeeps DEF CommandStep, Actors

LEMMA ReconcileStepKeeps ==
    ASSUME IInv, PassInv, ReconcileStep
    PROVE  IInv'
BY ReconcileEntryStep, EndPassStep, ReconcileStopsStep, CleanupStepKeeps
   DEF ReconcileStep, Actors

LEMMA ReaderStepKeeps ==
    ASSUME IInv, NEW r \in Readers, ReaderStep(r)
    PROVE  IInv'
BY ResolveGetStep, ResolveRecheckStep, StoreUsageStep, ReadEndsStep DEF ReaderStep

LEMMA InitIInv == Init => IInv /\ PassInv
<1> SUFFICES ASSUME Init PROVE IInv /\ PassInv
  OBVIOUS
<1>0. /\ NoReq \in Requests /\ NoReq.op = None /\ NoReq.command = "none"
      /\ NoRow.status = "none"
      /\ Entries = {} /\ Fresh = Uuids
  BY DEF Init, NoReq, Request, Requests, NoRow, Entries, Fresh
<1>1. TypeOK
  BY <1>0 DEF Init, TypeOK, KeyRows, JournalRows, Readings, NoRow, NoUsage, NoPass, NoRead, Labels
<1>2. StoreInv
  BY <1>0 DEF Init, StoreInv, IssuedInv, PendingInv, DeadInv, ActiveSecretPresent,
     NoStrandedSecret, DeletedKeyLeavesNothing, Active, StagedBy, Condemned
<1>3. ActorInv
  <2>1. \A a \in Actors : Own(a)
    BY DEF Init, Own
  <2> QED BY <1>0, <2>1
          DEF Init, ActorInv, LockInv, OwnInv, DetachedPutInv, PutsInFlight, Actors, NoOpLabels
<1>4. ReadInv
  BY DEF Init, ReadInv, ReaderInv, UsageMatchesCredential, NoRead
<1>5. PassInv
  BY <1>0 DEF Init, PassInv, NoPass, Actors
<1> QED BY <1>1, <1>2, <1>3, <1>4, <1>5 DEF IInv

LEMMA StepIInv == IInv /\ PassInv /\ [Next]_vars => IInv'
<1> SUFFICES ASSUME IInv, PassInv, [Next]_vars PROVE IInv'
  OBVIOUS
<1>1. ASSUME NEW k \in Keys, CreateKey(k) PROVE IInv'
  BY <1>1, CreateKeyStep
<1>2. ASSUME NEW p \in Procs, NEW k \in Keys, NEW kind \in Kinds, NEW s \in Secrets \cup {None},
             NEW c \in Commands, Begin(p, k, kind, s, c)
      PROVE  IInv'
  BY <1>2, BeginStep
<1>3. ASSUME NEW p \in Procs, NEW k \in Keys, BeginDelete(p, k) PROVE IInv'
  BY <1>3, BeginDeleteStep
<1>4. ASSUME NEW p \in Procs, CommandStep(p) PROVE IInv'
  BY <1>4, CommandStepKeeps
<1>5. CASE BeginReconcile
  BY <1>5, BeginReconcileStep
<1>6. CASE ReconcileStep
  BY <1>6, ReconcileStepKeeps
<1>7. ASSUME NEW d \in detached, DetachedEnds(d) PROVE IInv'
  BY <1>7, DetachedEndsStep
<1>8. ASSUME NEW r \in Readers, NEW k \in Keys, ResolveStart(r, k) PROVE IInv'
  BY <1>8, ResolveStartStep
<1>9. ASSUME NEW r \in Readers, ReaderStep(r) PROVE IInv'
  BY <1>9, ReaderStepKeeps
<1>10. CASE Crash
  BY <1>10, CrashStep
<1>11. CASE UNCHANGED vars
  <2>1. UNCHANGED <<dbVars, store, issued, detached, actorVars, reader, crashes>>
    BY <1>11 DEF vars, dbVars, actorVars
  <2>2. TypeOK'
    BY <2>1 DEF IInv, TypeOK, dbVars, actorVars
  <2> QED BY <2>1, <2>2, StoreFrame, ActorFrame, ReadFrame DEF IInv, dbVars, actorVars
<1> QED BY <1>1, <1>2, <1>3, <1>4, <1>5, <1>6, <1>7, <1>8, <1>9, <1>10, <1>11 DEF Next

\* While a pass is going on nobody else touches the journal.
LEMMA PassAlone ==
    ASSUME PassInv, pass' = pass,
           pc[Reconciler] # "idle" =>
             /\ pc'[Reconciler] = "idle" => FALSE
             /\ req'[Reconciler].op = req[Reconciler].op
             /\ \A u \in pass.todo : journal'[u] = journal[u]
    PROVE  PassInv'
BY DEF PassInv, Entries

LEMMA StepPassInv == IInv /\ PassInv /\ [Next]_vars => PassInv'
<1> SUFFICES ASSUME IInv, PassInv, [Next]_vars PROVE PassInv'
  OBVIOUS
<1> USE DEF dbVars, actorVars
<1>0. /\ \A p \in Procs : p \in Actors /\ p # Reconciler
      /\ Reconciler \in Actors
      /\ NoPass.todo = {} /\ NoReq.op = None
      /\ pass.todo \subseteq Uuids
      /\ None \notin Uuids
  BY DEF Actors, NoPass, NoReq, Request, IInv, TypeOK
\* what the control operators do to the reconciler and its pass
<1>1. ASSUME NEW p \in Procs, Return(p) \/ ReturnPublished(p) \/ Dropped(p) \/ \E l : Goto(p, l)
      PROVE  /\ pass' = pass
             /\ pc'[Reconciler] = pc[Reconciler]
             /\ req'[Reconciler] = req[Reconciler]
  BY <1>0, <1>1 DEF IInv, TypeOK, Return, ReturnPublished, Dropped, Goto
<1>2. ASSUME Dropped(Reconciler) PROVE PassInv'
  BY <1>0, <1>2 DEF PassInv, Dropped, IInv, TypeOK
<1>3. ASSUME NEW p \in Procs, CommandStep(p) PROVE PassInv'
  <2>1. /\ pass' = pass
        /\ pc'[Reconciler] = pc[Reconciler]
        /\ req'[Reconciler] = req[Reconciler]
    <3>1. CASE CleanupStep(p)
      BY <1>1, <3>1
         DEF CleanupStep, CheckPrevious, DeleteSlot, DeleteSlotFails, DeleteSlotCancelled, Finish,
             Claim, Recheck, FinishClaim, DropPending, CleanupDatabaseFails
    <3>2. CASE Reserve(p)
      BY <1>0, <3>2 DEF Reserve, IInv, TypeOK
    <3>4. CASE View(p)
      BY <1>0, <1>1, <3>4 DEF View, IInv, TypeOK
    <3>3. CASE \/ ReserveFails(p) \/ Put(p) \/ PutFails(p) \/ PutCancelled(p)
               \/ Publish(p) \/ PublishFails(p) \/ ViewFails(p)
               \/ DeleteRow(p) \/ DeleteRowFails(p)
      BY <1>1, <3>3
         DEF ReserveFails, Put, PutFails, PutCancelled, Publish, PublishFails, ViewFails,
             DeleteRow, DeleteRowFails
    <3> QED BY <1>3, <3>1, <3>2, <3>3, <3>4 DEF CommandStep
  <2>2. pc[Reconciler] # "idle" => journal' = journal
    <3>1. ASSUME pc[Reconciler] # "idle" PROVE pc[p] \in {"idle", "deleteRow"}
      BY <3>1 DEF IInv, ActorInv, LockInv, Sharers
    <3>2. CleanupStep(p) => pc[p] \notin {"idle", "deleteRow"}
      BY DEF CleanupStep, CheckPrevious, DeleteSlot, DeleteSlotFails, DeleteSlotCancelled, Finish,
             Claim, Recheck, FinishClaim, DropPending, CleanupDatabaseFails
    <3>3. \/ Reserve(p) \/ ReserveFails(p) \/ Put(p) \/ PutFails(p) \/ PutCancelled(p)
          \/ Publish(p) \/ PublishFails(p) \/ View(p) \/ ViewFails(p)
          => pc[p] \notin {"idle", "deleteRow"}
      BY DEF Reserve, ReserveFails, Put, PutFails, PutCancelled, Publish, PublishFails, View,
             ViewFails
    <3>4. DeleteRow(p) \/ DeleteRowFails(p) => journal' = journal
      BY DEF DeleteRow, DeleteRowFails
    <3> QED BY <1>3, <3>1, <3>2, <3>3, <3>4 DEF CommandStep
  <2>3. ASSUME pc[Reconciler] # "idle"
        PROVE  /\ pc'[Reconciler] = "idle" => FALSE
               /\ req'[Reconciler].op = req[Reconciler].op
               /\ \A u \in pass.todo : journal'[u] = journal[u]
    BY <2>1, <2>2, <2>3
  <2>4. pass' = pass
    BY <2>1
  <2> QED BY <2>3, <2>4, PassAlone
<1>4. ASSUME CleanupStep(Reconciler) PROVE PassInv'
  <2>1. CASE Dropped(Reconciler)
    BY <1>2, <2>1
  <2>2. ASSUME \/ Return(Reconciler)
               \/ ReturnPublished(Reconciler)
               \/ \E l \in Labels \ {"idle"} : Goto(Reconciler, l)
        PROVE  /\ pass' = pass
               /\ pc'[Reconciler] # "idle"
               /\ req'[Reconciler].op \in {None, req[Reconciler].op}
    BY <1>0, <2>2 DEF IInv, ActorInv, LockInv, TypeOK, Return, ReturnPublished, Goto
  <2>3. ASSUME ~ Dropped(Reconciler)
        PROVE  \/ Return(Reconciler)
               \/ ReturnPublished(Reconciler)
               \/ \E l \in Labels \ {"idle"} : Goto(Reconciler, l)
    BY <1>4, <2>3
       DEF CleanupStep, CheckPrevious, DeleteSlot, DeleteSlotFails, DeleteSlotCancelled, Finish,
           Claim, Recheck, FinishClaim, DropPending, CleanupDatabaseFails, Labels
  <2>4. \A u \in Uuids : u # req[Reconciler].op => journal'[u] = journal[u]
    BY <1>4 DEF CleanupStep, CheckPrevious, DeleteSlot, DeleteSlotFails, DeleteSlotCancelled,
                Finish, Claim, Recheck, FinishClaim, DropPending, CleanupDatabaseFails, IInv, TypeOK
  <2> QED BY <1>0, <2>1, <2>2, <2>3, <2>4 DEF PassInv, Entries
<1>5. ASSUME NEW u \in Uuids, ReconcileEntry(u) PROVE PassInv'
  <2>1. /\ pass'.todo = pass.todo \ {u} /\ u \in pass.todo
        /\ req'[Reconciler].op = u
        /\ \A w \in Uuids \ {u} : journal'[w] = journal[w]
    BY <1>0, <1>5 DEF ReconcileEntry, IInv, TypeOK
  <2>2. pc'[Reconciler] # "idle"
    BY <1>0, <1>5 DEF ReconcileEntry, EntryStep, IInv, TypeOK
  <2> QED BY <1>0, <2>1, <2>2 DEF PassInv, Entries
<1>6. CASE EndPass \/ ReconcileStops
  <2>1. CASE Dropped(Reconciler)
    BY <1>2, <2>1
  <2>2. CASE /\ pass' = [todo |-> Entries, before |-> Cardinality(Entries)]
             /\ UNCHANGED <<pc, req, journal>> /\ pc[Reconciler] = "pass"
    BY <1>0, <2>2 DEF PassInv, Entries, IInv, ActorInv, LockInv, NoOpLabels
  <2> QED BY <1>6, <2>1, <2>2 DEF EndPass, ReconcileStops
<1>7. CASE BeginReconcile
  <2>1. /\ pass' = [todo |-> Entries, before |-> Cardinality(Entries)]
        /\ pc'[Reconciler] = "pass"
        /\ req[Reconciler].op = None
        /\ UNCHANGED <<req, journal>>
    BY <1>0, <1>7 DEF BeginReconcile, IInv, ActorInv, LockInv, TypeOK, NoOpLabels
  <2> QED BY <1>0, <2>1 DEF PassInv, Entries
<1>8. CASE Crash
  BY <1>0, <1>8 DEF Crash, PassInv
<1>9. ASSUME NEW p \in Procs, NEW k \in Keys,
             \/ \E kind \in Kinds, s \in Secrets \cup {None}, c \in Commands : Begin(p, k, kind, s, c)
             \/ BeginDelete(p, k)
      PROVE  PassInv'
  BY <1>0, <1>9, PassAlone DEF Begin, BeginDelete, IInv, TypeOK
<1>10. CASE \/ \E k \in Keys : CreateKey(k)
            \/ \E d \in detached : DetachedEnds(d)
            \/ \E r \in Readers, k \in Keys : ResolveStart(r, k)
            \/ \E r \in Readers : ReaderStep(r)
            \/ UNCHANGED vars
  <2>1. UNCHANGED <<pass, pc, req, journal>>
    BY <1>10 DEF CreateKey, DetachedEnds, ResolveStart, ReaderStep, ResolveGet, ResolveRecheck,
                 StoreUsage, ReadEnds, vars
  <2> QED BY <2>1, PassAlone
<1> QED BY <1>3, <1>4, <1>5, <1>6, <1>7, <1>8, <1>9, <1>10 DEF Next, ReconcileStep

\* The inductive invariant holds in every reachable state.
THEOREM Invariance == Spec => [](IInv /\ PassInv)
<1>1. IInv /\ PassInv /\ [Next]_vars => (IInv /\ PassInv)'
  BY StepIInv, StepPassInv
<1> QED BY <1>1, InitIInv, PTL DEF Spec

-----------------------------------------------------------------------------
(* The properties.                                                         *)

\* Every variable keeps its type, and slot and fingerprint of a key row are
\* null together, as the CHECK of provider_api_keys demands: no statement of
\* the protocol is refused by it.
THEOREM Typed == Spec => []TypeOK
BY Invariance, PTL DEF IInv

\* The slot a key row points at holds the secret its fingerprint is the hash
\* of, whatever failed, was cancelled or died (secrets/service.rs,
\* mutate_provider_api_key and reconcile_provider_entry).
THEOREM ActivePresent == Spec => []ActiveSecretPresent
BY Invariance, PTL DEF IInv, StoreInv

\* A secret in the keychain is owned by a key row or named by a journal row
\* that has it deleted.
THEOREM NoneStranded == Spec => []NoStrandedSecret
BY Invariance, PTL DEF IInv, StoreInv

\* The journal never asks for the deletion of a slot in use.
THEOREM CleanupSpares == Spec => []NothingActiveIsCondemned
<1>1. IInv => NothingActiveIsCondemned
  BY DEF IInv, StoreInv, DeadInv, NothingActiveIsCondemned
<1> QED BY <1>1, Invariance, PTL

\* A deleted key has left no keychain item and no journal row behind.
THEOREM DeletionComplete == Spec => []DeletedKeyLeavesNothing
BY Invariance, PTL DEF IInv, StoreInv

\* A usage report belongs to the credential its key has now.
THEOREM UsageCurrent == Spec => []UsageMatchesCredential
BY Invariance, PTL DEF IInv, ReadInv
=============================================================================
