---------------------- MODULE LicensePublication_proofs ----------------------
(***************************************************************************)
(* The safety properties of LicensePublication for any callers, licenses   *)
(* and number of changes.                                                  *)
(***************************************************************************)
EXTENDS LicensePublication, TLAPS

Places == {"idle", "drain", "pop", "read", "compare", "call", "commit"}
Standings == [pc : Places, seen : Licenses \cup {None}, previous : Licenses \cup {None}]

TypeOK ==
    /\ license \in Licenses /\ ack \in Licenses \cup {None}
    /\ queue \in Nat /\ emitting \in BOOLEAN /\ due \in BOOLEAN
    /\ caller \in [All -> Standings]
    /\ told \subseteq Licenses

\* What a constant has to be.
Distinct == None \notin Licenses

\* The places of the one who is emitting.
Emits(c) == caller[c].pc \in {"pop", "read", "compare", "call", "commit"}

\* Whether the license as it is now is the one that c is about to deliver.
Delivers(c) ==
    \/ At(c, "read")
    \/ caller[c].pc \in {"compare", "call"} /\ caller[c].seen = license
    \/ At(c, "commit") /\ caller[c].seen = license /\ caller[c].previous = ack

\* Who is emitting is alone with it, and emitting tells that somebody is.
EmitterInv ==
    /\ \A c, d \in All : Emits(c) /\ Emits(d) => c = d
    /\ emitting <=> \E c \in All : Emits(c)

\* Somebody will look at the queue.
QueueInv == queue > 0 => emitting \/ \E c \in All : At(c, "drain")

\* What has been read is a license, and what is acknowledged has been delivered.
\* Nobody but the emitter changes the acknowledgement.
DeliveryInv ==
    /\ ack \in told \cup {None}
    /\ \A c \in All :
        /\ caller[c].pc \in {"compare", "call", "commit"} => caller[c].seen \in Licenses
        /\ caller[c].pc \in {"call", "commit"} => caller[c].previous = ack
        /\ At(c, "commit") => caller[c].seen \in told

\* A change that somebody has asked to be published is published, or on its way.
ChangeInv == ~ due => ack = license \/ queue > 0 \/ \E c \in All : Delivers(c)

IInv == TypeOK /\ EmitterInv /\ QueueInv /\ DeliveryInv /\ ChangeInv

-----------------------------------------------------------------------------

LEMMA Idleness == Idle \in Standings /\ [Idle EXCEPT !.pc = "drain"] \in Standings /\ Started \in [All -> Standings]
<1>1. Idle \in Standings
  BY DEF Idle, Standings, Places
<1>2. [Idle EXCEPT !.pc = "drain"] \in Standings
  BY DEF Idle, Standings, Places
<1> QED BY <1>1, <1>2 DEF Started

\* Right after the start only the first reconciliation is under way.
LEMMA Starting == \A c \in All : Started[c].pc = IF c = Startup THEN "drain" ELSE "idle"
  BY DEF Started, Idle

LEMMA InitIInv == ASSUME Distinct, Init PROVE IInv
<1>1. TypeOK
  BY Idleness DEF Distinct, Init, TypeOK
<1>2. EmitterInv
  BY Starting DEF Init, EmitterInv, Emits
<1>3. QueueInv
  BY Starting DEF Init, QueueInv, At, All
<1>4. DeliveryInv
  BY Starting DEF Init, DeliveryInv, At
<1>5. ChangeInv
  BY DEF Init, ChangeInv
<1> QED BY <1>1, <1>2, <1>3, <1>4, <1>5 DEF IInv

LEMMA NextIInv == ASSUME Distinct, IInv, [Next]_vars PROVE IInv'
<1> USE DEF All
<1>1. ASSUME NEW c \in Callers, Request(c) PROVE IInv'
  <2>1. TypeOK'
    <3>1. [caller[c] EXCEPT !.pc = "drain"] \in Standings
      BY c \in All DEF IInv, TypeOK, Standings, Places
    <3>2. caller' = [caller EXCEPT ![c] = [caller[c] EXCEPT !.pc = "drain"]]
      BY <1>1 DEF Request, Goto
    <3>3. caller' \in [All -> Standings]
      BY <3>1, <3>2 DEF IInv, TypeOK
    <3>4. queue' \in Nat
      BY <1>1 DEF Request, Enqueue, IInv, TypeOK
    <3>5. license' \in Licenses /\ UNCHANGED <<ack, emitting, told>> /\ due' \in BOOLEAN
      BY <1>1 DEF Request
    <3> QED BY <3>3, <3>4, <3>5 DEF IInv, TypeOK
  <2>2. EmitterInv'
    BY <1>1 DEF Request, Enqueue, IInv, TypeOK, EmitterInv, Emits, At, Goto, Standings
  <2>3. QueueInv'
    BY <1>1 DEF Request, Enqueue, IInv, TypeOK, EmitterInv, QueueInv, Emits, At, Goto, Standings
  <2>4. DeliveryInv'
    BY <1>1 DEF Request, Enqueue, IInv, TypeOK, EmitterInv, DeliveryInv, Emits, At, Goto, Standings
  <2>5. ChangeInv'
    BY <1>1 DEF Request, Enqueue, IInv, TypeOK, EmitterInv, DeliveryInv, ChangeInv, Emits, Delivers, At, Goto, Standings
  <2> QED BY <2>1, <2>2, <2>3, <2>4, <2>5 DEF IInv
<1>2. ASSUME NEW c \in All, Drain(c) PROVE IInv'
  <2>1. TypeOK'
    BY <1>2 DEF Drain, IInv, TypeOK, At, Goto, Standings, Places
  <2>2. EmitterInv'
    BY <1>2 DEF Drain, IInv, TypeOK, EmitterInv, Emits, At, Goto, Standings
  <2>3. QueueInv'
    BY <1>2 DEF Drain, IInv, TypeOK, EmitterInv, QueueInv, Emits, At, Goto, Standings
  <2>4. DeliveryInv'
    BY <1>2 DEF Drain, IInv, TypeOK, EmitterInv, DeliveryInv, Emits, At, Goto, Standings
  <2>5. ChangeInv'
    BY <1>2 DEF Drain, IInv, TypeOK, EmitterInv, DeliveryInv, ChangeInv, Emits, Delivers, At, Goto, Standings
  <2> QED BY <2>1, <2>2, <2>3, <2>4, <2>5 DEF IInv
<1>3. ASSUME NEW c \in All, Pop(c) PROVE IInv'
  <2>1. TypeOK'
    <3>1. [caller[c] EXCEPT !.pc = "read"] \in Standings
      BY DEF IInv, TypeOK, Standings, Places
    <3>2. caller' = [caller EXCEPT ![c] = Idle] \/ caller' = [caller EXCEPT ![c] = [caller[c] EXCEPT !.pc = "read"]]
      BY <1>3 DEF Pop, Goto
    <3>3. caller' \in [All -> Standings]
      BY <3>1, <3>2, Idleness DEF IInv, TypeOK
    <3>4. queue' \in Nat
      BY <1>3 DEF Pop, IInv, TypeOK
    <3>5. emitting' \in BOOLEAN /\ UNCHANGED <<license, ack, told, due>>
      BY <1>3 DEF Pop, IInv, TypeOK
    <3> QED BY <3>3, <3>4, <3>5 DEF IInv, TypeOK
  <2>2. EmitterInv'
    BY <1>3 DEF Pop, Idle, IInv, TypeOK, EmitterInv, Emits, At, Goto, Standings
  <2>3. QueueInv'
    BY <1>3 DEF Pop, Idle, IInv, TypeOK, EmitterInv, QueueInv, Emits, At, Goto, Standings
  <2>4. DeliveryInv'
    BY <1>3 DEF Pop, Idle, IInv, TypeOK, EmitterInv, DeliveryInv, Emits, At, Goto, Standings
  <2>5. ChangeInv'
    BY <1>3 DEF Pop, Idle, IInv, TypeOK, EmitterInv, DeliveryInv, ChangeInv, Emits, Delivers, At, Goto, Standings
  <2> QED BY <2>1, <2>2, <2>3, <2>4, <2>5 DEF IInv
<1>4. ASSUME NEW c \in All, ReadLicense(c) PROVE IInv'
  <2>1. TypeOK'
    BY <1>4 DEF ReadLicense, IInv, TypeOK, At, Goto, Standings, Places
  <2>2. EmitterInv'
    BY <1>4 DEF ReadLicense, IInv, TypeOK, EmitterInv, Emits, At, Goto, Standings
  <2>3. QueueInv'
    BY <1>4 DEF ReadLicense, IInv, TypeOK, EmitterInv, QueueInv, Emits, At, Goto, Standings
  <2>4. DeliveryInv'
    BY <1>4 DEF ReadLicense, IInv, TypeOK, EmitterInv, DeliveryInv, Emits, At, Goto, Standings
  <2>5. ChangeInv'
    BY <1>4 DEF ReadLicense, IInv, TypeOK, EmitterInv, DeliveryInv, ChangeInv, Emits, Delivers, At, Goto, Standings
  <2> QED BY <2>1, <2>2, <2>3, <2>4, <2>5 DEF IInv
<1>5. ASSUME NEW c \in All, Compare(c) PROVE IInv'
  <2>1. TypeOK'
    BY <1>5 DEF Compare, IInv, TypeOK, At, Goto, Standings, Places
  <2>2. EmitterInv'
    BY <1>5 DEF Compare, IInv, TypeOK, EmitterInv, Emits, At, Goto, Standings
  <2>3. QueueInv'
    BY <1>5 DEF Compare, IInv, TypeOK, EmitterInv, QueueInv, Emits, At, Goto, Standings
  <2>4. DeliveryInv'
    BY <1>5 DEF Compare, IInv, TypeOK, EmitterInv, DeliveryInv, Emits, At, Goto, Standings
  <2>5. ChangeInv'
    BY <1>5 DEF Compare, IInv, TypeOK, EmitterInv, DeliveryInv, ChangeInv, Emits, Delivers, At, Goto, Standings
  <2> QED BY <2>1, <2>2, <2>3, <2>4, <2>5 DEF IInv
<1>6. ASSUME NEW c \in All, CallPublisher(c) PROVE IInv'
  <2>1. TypeOK'
    BY <1>6 DEF CallPublisher, IInv, TypeOK, DeliveryInv, At, Goto, Standings, Places, Places
  <2>2. EmitterInv'
    BY <1>6 DEF CallPublisher, IInv, TypeOK, EmitterInv, Emits, At, Goto, Standings
  <2>3. QueueInv'
    BY <1>6 DEF CallPublisher, IInv, TypeOK, EmitterInv, QueueInv, Emits, At, Goto, Standings
  <2>4. DeliveryInv'
    BY <1>6 DEF CallPublisher, IInv, TypeOK, EmitterInv, DeliveryInv, Emits, At, Goto, Standings
  <2>5. ChangeInv'
    BY <1>6 DEF CallPublisher, IInv, TypeOK, EmitterInv, DeliveryInv, ChangeInv, Emits, Delivers, At, Goto, Standings
  <2> QED BY <2>1, <2>2, <2>3, <2>4, <2>5 DEF IInv
<1>7. ASSUME NEW c \in All, PublisherFails(c) PROVE IInv'
  <2>1. TypeOK'
    BY <1>7 DEF PublisherFails, IInv, TypeOK, At, Goto, Standings, Places
  <2>2. EmitterInv'
    BY <1>7 DEF PublisherFails, IInv, TypeOK, EmitterInv, Emits, At, Goto, Standings
  <2>3. QueueInv'
    BY <1>7 DEF PublisherFails, IInv, TypeOK, EmitterInv, QueueInv, Emits, At, Goto, Standings
  <2>4. DeliveryInv'
    BY <1>7 DEF PublisherFails, IInv, TypeOK, EmitterInv, DeliveryInv, Emits, At, Goto, Standings
  <2>5. ChangeInv'
    BY <1>7 DEF PublisherFails, IInv, TypeOK, EmitterInv, DeliveryInv, ChangeInv, Emits, Delivers, At, Goto, Standings
  <2> QED BY <2>1, <2>2, <2>3, <2>4, <2>5 DEF IInv
<1>13. ASSUME NEW c \in All, SettingsFail(c) PROVE IInv'
  <2>1. TypeOK'
    BY <1>13 DEF SettingsFail, IInv, TypeOK, At, Goto, Standings, Places
  <2>2. EmitterInv'
    BY <1>13 DEF SettingsFail, IInv, TypeOK, EmitterInv, Emits, At, Goto, Standings
  <2>3. QueueInv'
    BY <1>13 DEF SettingsFail, IInv, TypeOK, EmitterInv, QueueInv, Emits, At, Goto, Standings
  <2>4. DeliveryInv'
    BY <1>13 DEF SettingsFail, IInv, TypeOK, EmitterInv, DeliveryInv, Emits, At, Goto, Standings
  <2>5. ChangeInv'
    BY <1>13 DEF SettingsFail, IInv, TypeOK, EmitterInv, DeliveryInv, ChangeInv, Emits, Delivers, At, Goto, Standings
  <2> QED BY <2>1, <2>2, <2>3, <2>4, <2>5 DEF IInv
<1>8. ASSUME NEW c \in All, Commit(c) PROVE IInv'
  <2>1. TypeOK'
    BY <1>8 DEF Commit, IInv, TypeOK, At, Goto, Standings, Places
  <2>2. EmitterInv'
    BY <1>8 DEF Commit, IInv, TypeOK, EmitterInv, Emits, At, Goto, Standings
  <2>3. QueueInv'
    BY <1>8 DEF Commit, IInv, TypeOK, EmitterInv, QueueInv, Emits, At, Goto, Standings
  <2>4. DeliveryInv'
    BY <1>8 DEF Commit, IInv, TypeOK, EmitterInv, DeliveryInv, Emits, At, Goto, Standings
  <2>5. ChangeInv'
    BY <1>8 DEF Commit, IInv, TypeOK, EmitterInv, DeliveryInv, ChangeInv, Emits, Delivers, At, Goto, Standings
  <2> QED BY <2>1, <2>2, <2>3, <2>4, <2>5 DEF IInv
<1>9. ASSUME Expire PROVE IInv'
  BY <1>9 DEF Expire, IInv, TypeOK, EmitterInv, QueueInv, DeliveryInv, ChangeInv, Emits, At
<1>10. ASSUME Fetch PROVE IInv'
  BY <1>10 DEF Fetch, IInv, TypeOK, EmitterInv, QueueInv, DeliveryInv, ChangeInv, Emits, Delivers, At
<1>11. ASSUME Restart PROVE IInv'
  <2>1. TypeOK'
    BY <1>11, Idleness DEF Restart, IInv, TypeOK
  <2>2. EmitterInv'
    BY <1>11, Starting DEF Restart, EmitterInv, Emits
  <2>3. QueueInv'
    BY <1>11, Starting DEF Restart, QueueInv, At
  <2>4. DeliveryInv'
    BY <1>11, Starting DEF Restart, IInv, DeliveryInv, At
  <2>5. ChangeInv'
    BY <1>11 DEF Restart, ChangeInv
  <2> QED BY <2>1, <2>2, <2>3, <2>4, <2>5 DEF IInv
<1>12. ASSUME UNCHANGED vars PROVE IInv'
  BY <1>12 DEF vars, IInv, TypeOK, EmitterInv, QueueInv, DeliveryInv, ChangeInv, Emits, Delivers, At
<1> QED BY <1>1, <1>2, <1>3, <1>4, <1>5, <1>6, <1>7, <1>8, <1>9, <1>10, <1>11, <1>12, <1>13
        DEF Next, Publication

-----------------------------------------------------------------------------
(* Theorems.                                                               *)

LEMMA Invariance == ASSUME Distinct PROVE Spec => []IInv
<1>1. Init => IInv
  BY InitIInv
<1>2. IInv /\ [Next]_vars => IInv'
  BY NextIInv
<1> QED BY <1>1, <1>2, PTL DEF Spec

\* No change is lost between the one who asks for a publication and leaves and the
\* one who is emitting and stops.
THEOREM ChangesAreSettled == ASSUME Distinct PROVE Spec => []Settled
<1>1. IInv => Settled
  BY DEF IInv, ChangeInv, Settled, Quiet, Delivers, At
<1> QED BY <1>1, Invariance, PTL

\* A license that was never delivered is never acknowledged.
THEOREM AcksAreDelivered == ASSUME Distinct PROVE Spec => []AckIsDelivered
<1>1. IInv => AckIsDelivered
  BY DEF IInv, DeliveryInv, AckIsDelivered
<1> QED BY <1>1, Invariance, PTL
=============================================================================
