------------------------ MODULE CodexPointer_proofs ------------------------
(***************************************************************************)
(* What the user had in the configuration of Codex is kept, for any        *)
(* commands, selections and number of copies.                              *)
(***************************************************************************)
EXTENDS CodexPointer, SequenceTheorems, WellFoundedInduction, TLAPS

Contents == [state : {"toml", "broken", "missing"}, sel : Selections \cup {"none", "router"}, whole : BOOLEAN]
Places == {"idle", "read", "copy", "replace", "verify", "restore", "look", "leave", "unpoint"}
Standings == [pc : Places, doc : Contents, copy : Nat]

TypeOK ==
    /\ config \in Contents /\ backups \in Seq(Contents)
    /\ unrouted \in BOOLEAN /\ scripted \in BOOLEAN
    /\ cmd \in [Commands -> Standings]

\* Only the script makes the file one without all that the user had, and it makes a
\* copy that nothing takes the place of.
InFile == config.whole = TRUE \/ scripted = TRUE

\* What a command will write has all that the file had, unless the script has been
\* run meanwhile, and so has the backup it would restore.
Safe(c) ==
    /\ cmd[c].pc \in {"copy", "replace", "verify", "restore"} =>
          /\ cmd[c].copy \in 0..Len(backups)
          /\ cmd[c].doc.whole = TRUE \/ scripted = TRUE
          /\ cmd[c].copy # 0 => backups[cmd[c].copy].whole = TRUE \/ scripted = TRUE
    /\ cmd[c].pc \in {"leave", "unpoint"} => cmd[c].doc.whole = TRUE \/ scripted = TRUE
    /\ cmd[c].pc \in {"idle", "read"} => cmd[c].copy = 0

IInv == TypeOK /\ InFile /\ \A c \in Commands : Safe(c)

LEMMA FunctionsAreSequences == ASSUME NEW S, NEW n \in Nat, NEW f \in [1..n -> S] PROVE f \in Seq(S)
<1>1. f \in UNION {[1..m -> S] : m \in Nat}
  OBVIOUS
<1> QED BY <1>1, SeqDef, Zenon

\* A copy more.
LEMMA OneMore == ASSUME NEW S, NEW seq \in Seq(S), NEW file \in S
                 PROVE /\ Append(seq, file) \in Seq(S)
                       /\ Len(Append(seq, file)) = Len(seq) + 1
                       /\ \A i \in 1..Len(seq) : Append(seq, file)[i] = seq[i]
                       /\ Append(seq, file)[Len(seq) + 1] = file
  OBVIOUS

OnlyMoves(c) == \A d \in Commands \ {c} : cmd'[d] = cmd[d]

LEMMA Moves == ASSUME TypeOK, NEW c \in Commands, NEW place \in Places, Goto(c, place)
               PROVE /\ cmd' \in [Commands -> Standings] /\ OnlyMoves(c)
                     /\ cmd'[c].pc = place /\ cmd'[c].doc = cmd[c].doc /\ cmd'[c].copy = cmd[c].copy
<1>1. cmd[c] \in Standings
  BY DEF TypeOK
<1>2. [cmd[c] EXCEPT !.pc = place] \in Standings
  BY <1>1 DEF Standings
<1>3. cmd' = [cmd EXCEPT ![c] = [cmd[c] EXCEPT !.pc = place]]
  BY DEF Goto
<1>4. cmd' \in [Commands -> Standings] /\ cmd'[c] = [cmd[c] EXCEPT !.pc = place]
  BY <1>2, <1>3 DEF TypeOK
<1> QED BY <1>1, <1>3, <1>4 DEF Standings, TypeOK, OnlyMoves

LEMMA Idling == Idle \in Standings /\ Idle.pc = "idle" /\ Idle.copy = 0
<1>1. Missing(FALSE) \in Contents
  BY DEF Missing, File, Contents
<1> QED BY <1>1 DEF Idle, Standings, Places

LEMMA Returns == ASSUME TypeOK, NEW c \in Commands, Return(c)
                 PROVE cmd' \in [Commands -> Standings] /\ OnlyMoves(c) /\ Safe(c)'
<1>1. cmd' = [cmd EXCEPT ![c] = Idle]
  BY DEF Return
<1>2. cmd' \in [Commands -> Standings] /\ OnlyMoves(c) /\ cmd'[c] = Idle
  BY <1>1, Idling DEF TypeOK, OnlyMoves
<1>3. cmd'[c].pc = "idle" /\ cmd'[c].copy = 0
  BY <1>2, Idling
<1> QED BY <1>2, <1>3 DEF Safe

\* No copy but the one made when the file is pointed away goes or changes.
Keeps ==
    /\ backups' \in Seq(Contents) /\ Len(backups) \in Nat /\ Len(backups') \in Nat
    /\ Len(backups) <= Len(backups')
    /\ \A i \in 1..Len(backups) : backups'[i] = backups[i]
    /\ unrouted' \in BOOLEAN /\ scripted' \in BOOLEAN
    /\ scripted = TRUE => scripted' = TRUE

LEMMA NoCopy == ASSUME TypeOK, UNCHANGED <<backups, scripted>>, unrouted' \in BOOLEAN PROVE Keeps
  BY DEF TypeOK, Keeps

LEMMA NewCopy == ASSUME TypeOK, NEW file \in Contents, backups' = Append(backups, file),
                        UNCHANGED <<unrouted, scripted>>
                 PROVE Keeps /\ Len(backups') = Len(backups) + 1 /\ backups'[Len(backups')] = file
<1>1. /\ backups' \in Seq(Contents) /\ Len(backups') = Len(backups) + 1
      /\ \A i \in 1..Len(backups) : backups'[i] = backups[i]
      /\ backups'[Len(backups) + 1] = file
  BY OneMore DEF TypeOK
<1>2. Len(backups) \in Nat
  BY DEF TypeOK
<1> QED BY <1>1, <1>2 DEF TypeOK, Keeps

LEMMA NewestExists == ASSUME TypeOK, Others # {} PROVE Previous \in 1..Len(backups)
<1> DEFINE ages == {Len(backups) - i : i \in Others}
<1>1. Len(backups) \in Nat /\ Others \subseteq 1..Len(backups)
  BY DEF TypeOK, Others
<1>2. ages \in SUBSET Nat /\ ages # {}
  <2>1. ASSUME NEW i \in Others PROVE Len(backups) - i \in Nat
    <3>1. i \in 1..Len(backups)
      BY <1>1
    <3> QED BY <1>1, <3>1
  <2> QED BY <2>1
<1>3. PICK n \in ages : \A m \in ages : <<m, n>> \notin OpToRel(<, Nat)
  <2> HIDE DEF ages
  <2> QED BY <1>2, NatLessThanWellFounded, WFMin, Zenon
<1>4. \A m \in ages : ~ (m < n)
  <2> HIDE DEF ages
  <2> QED BY <1>2, <1>3, Zenon DEF OpToRel
<1>5. PICK i \in Others : n = Len(backups) - i
  BY <1>3
<1>6. \A j \in Others : j <= i
  <2>1. ASSUME NEW j \in Others PROVE j <= i
    <3>1. ~ (Len(backups) - j < Len(backups) - i)
      BY <1>4, <1>5
    <3> QED BY <1>1, <3>1
  <2> QED BY <2>1
<1>7. \E k \in Others : \A j \in Others : j <= k
  BY <1>6
<1>8. Previous \in Others
  BY <1>7, Zenon DEF Previous
<1> QED BY <1>1, <1>8

\* A step that keeps the copies keeps the invariant when it does so for the file and
\* for the one command that moves.
LEMMA OneCommand ==
  ASSUME IInv, Keeps, NEW c \in Commands, OnlyMoves(c), cmd' \in [Commands -> Standings],
         config' \in Contents, InFile', Safe(c)'
  PROVE  IInv'
<1>1. ASSUME NEW d \in Commands, d # c PROVE Safe(d)'
  <2>1. cmd'[d] = cmd[d] /\ Safe(d)
    BY <1>1 DEF OnlyMoves, IInv
  <2>2. cmd[d].copy \in 0..Len(backups) => cmd[d].copy \in 0..Len(backups')
    BY DEF Keeps
  <2>3. cmd[d].copy \in 0..Len(backups) /\ cmd[d].copy # 0 => backups'[cmd[d].copy] = backups[cmd[d].copy]
    BY DEF Keeps
  <2>4. scripted = TRUE => scripted' = TRUE
    BY DEF Keeps
  <2> QED BY <2>1, <2>2, <2>3, <2>4 DEF Safe
<1>2. TypeOK'
  BY DEF TypeOK, Keeps
<1> QED BY <1>1, <1>2 DEF IInv

\* The same, of a step that leaves the file and its copies alone.
LEMMA OnlyCommand ==
  ASSUME IInv, UNCHANGED <<config, backups, scripted>>, unrouted' \in BOOLEAN, NEW c \in Commands, OnlyMoves(c),
         cmd' \in [Commands -> Standings], Safe(c)'
  PROVE  IInv'
<1>1. Keeps
  BY NoCopy DEF IInv
<1>2. config' \in Contents /\ InFile'
  BY DEF IInv, TypeOK, InFile
<1> QED BY <1>1, <1>2, OneCommand

LEMMA NextIInv == ASSUME IInv, [Next]_vars PROVE IInv'
<1> TypeOK /\ Len(backups) \in Nat /\ InFile
  BY DEF IInv, TypeOK
<1> config \in Contents /\ backups \in Seq(Contents) /\ unrouted \in BOOLEAN /\ scripted \in BOOLEAN
  BY DEF TypeOK
<1>1. ASSUME NEW c \in Commands, Point(c) PROVE IInv'
  <2>1. UNCHANGED <<config, backups, unrouted, scripted>>
    BY <1>1 DEF Point
  <2>2. cmd' \in [Commands -> Standings] /\ OnlyMoves(c) /\ cmd'[c].pc = "read" /\ cmd'[c].copy = cmd[c].copy
    BY <1>1, Moves DEF Places, Point
  <2>3. cmd[c].copy = 0
    BY <1>1 DEF Point, At, IInv, Safe
  <2>4. Safe(c)'
    BY <2>2, <2>3 DEF Safe
  <2> QED BY <2>1, <2>2, <2>4, OnlyCommand
<1>2. ASSUME NEW c \in Commands, Disconnect(c) PROVE IInv'
  <2>1. UNCHANGED <<config, backups, unrouted, scripted>>
    BY <1>2 DEF Disconnect
  <2>2. cmd' \in [Commands -> Standings] /\ OnlyMoves(c) /\ cmd'[c].pc = "look"
    BY <1>2, Moves DEF Places, Disconnect
  <2>3. Safe(c)'
    BY <2>2 DEF Safe
  <2> QED BY <2>1, <2>2, <2>3, OnlyCommand
<1>3. ASSUME NEW c \in Commands, ReadConfig(c) PROVE IInv'
  <2>1. UNCHANGED <<config, backups, unrouted, scripted>>
    BY <1>3 DEF ReadConfig
  <2>2. CASE Return(c)
    BY <2>1, <2>2, Returns, OnlyCommand
  <2>3. CASE cmd' = [cmd EXCEPT ![c].pc = IF config.state = "toml" THEN "copy" ELSE "replace",
                                ![c].doc = File("toml", Router, config.whole)]
    <3> DEFINE doc == File("toml", Router, config.whole)
               new == [cmd[c] EXCEPT !.pc = IF config.state = "toml" THEN "copy" ELSE "replace", !.doc = doc]
    <3>1. doc \in Contents /\ doc.whole = config.whole
      BY DEF File, Router, Contents
    <3>2. new \in Standings /\ new.copy = cmd[c].copy /\ new.doc = doc /\ new.pc \in {"copy", "replace"}
      BY <3>1 DEF TypeOK, Standings, Places
    <3>3. cmd' \in [Commands -> Standings] /\ OnlyMoves(c) /\ cmd'[c] = new
      BY <2>3, <3>2 DEF TypeOK, OnlyMoves
    <3>4. cmd[c].copy = 0
      BY <1>3 DEF ReadConfig, At, IInv, Safe
    <3>5. doc.whole = TRUE \/ scripted' = TRUE
      BY <2>1, <3>1 DEF InFile
    <3>6. Safe(c)'
      <4> HIDE DEF doc, new
      <4>1. cmd'[c].pc \in {"copy", "replace"} /\ cmd'[c].copy = 0 /\ cmd'[c].doc = doc
        BY <3>2, <3>3, <3>4
      <4>2. 0 \in 0..Len(backups')
        BY <2>1
      <4> QED BY <3>5, <4>1, <4>2 DEF Safe
    <3> QED BY <2>1, <3>3, <3>6, OnlyCommand
  <2> QED BY <1>3, <2>2, <2>3 DEF ReadConfig
<1>4. ASSUME NEW c \in Commands, Copy(c) PROVE IInv'
  <2>1. UNCHANGED <<config, unrouted, scripted>> /\ cmd[c].pc = "copy" /\ Safe(c)
    BY <1>4 DEF Copy, At, IInv
  <2>2. config' \in Contents
    BY <2>1
  <2>3. CASE backups' = Append(backups, config) /\ cmd' = [cmd EXCEPT ![c].pc = "replace", ![c].copy = Len(backups')]
    <3>1. Keeps /\ Len(backups') = Len(backups) + 1 /\ backups'[Len(backups')] = config
      BY <2>1, <2>3, NewCopy
    <3>2. InFile'
      BY <2>1 DEF InFile
    <3> DEFINE new == [cmd[c] EXCEPT !.pc = "replace", !.copy = Len(backups')]
    <3>3. new \in Standings /\ new.copy = Len(backups') /\ new.pc = "replace" /\ new.doc = cmd[c].doc
      <4>1. Len(backups') \in Nat /\ cmd[c] \in Standings
        BY <3>1 DEF TypeOK
      <4>2. \A n \in Nat : /\ [cmd[c] EXCEPT !.pc = "replace", !.copy = n] \in Standings
                           /\ [cmd[c] EXCEPT !.pc = "replace", !.copy = n].copy = n
                           /\ [cmd[c] EXCEPT !.pc = "replace", !.copy = n].pc = "replace"
                           /\ [cmd[c] EXCEPT !.pc = "replace", !.copy = n].doc = cmd[c].doc
        BY <4>1 DEF Standings, Places
      <4> QED BY <4>1, <4>2
    <3>4. cmd' \in [Commands -> Standings] /\ OnlyMoves(c) /\ cmd'[c] = new
      BY <2>3, <3>3 DEF TypeOK, OnlyMoves
    <3>5. Len(backups') \in 0..Len(backups')
      BY <3>1
    <3>6. Safe(c)'
      <4> HIDE DEF new
      <4>1. cmd'[c].pc = "replace" /\ cmd'[c].copy = Len(backups') /\ cmd'[c].doc = cmd[c].doc
        BY <3>3, <3>4
      <4>2. cmd[c].doc.whole = TRUE \/ scripted' = TRUE
        BY <2>1 DEF Safe
      <4>3. backups'[Len(backups')].whole = TRUE \/ scripted' = TRUE
        BY <2>1, <3>1 DEF InFile
      <4> QED BY <3>5, <4>1, <4>2, <4>3 DEF Safe
    <3> QED BY <2>2, <3>1, <3>2, <3>4, <3>6, OneCommand
  <2>4. CASE backups' = Append(backups, Empty) /\ Return(c)
    <3>1. Empty \in Contents
      BY DEF Empty, File, Contents
    <3>2. Keeps
      BY <2>1, <2>4, <3>1, NewCopy
    <3>3. InFile'
      BY <2>1, <3>2 DEF InFile, Keeps
    <3> QED BY <2>2, <2>4, <3>2, <3>3, Returns, OneCommand
  <2>5. CASE UNCHANGED backups /\ Return(c)
    BY <2>1, <2>5, Returns, OnlyCommand
  <2> QED BY <1>4, <2>3, <2>4, <2>5 DEF Copy
<1>5. ASSUME NEW c \in Commands, Replace(c) PROVE IInv'
  <2>1. UNCHANGED <<backups, unrouted, scripted>> /\ cmd[c].pc = "replace" /\ Safe(c)
    BY <1>5 DEF Replace, At, IInv
  <2>2. CASE config' = cmd[c].doc /\ Goto(c, "verify")
    <3>1. config' \in Contents
      BY <2>2 DEF TypeOK, Standings
    <3>2. /\ cmd' \in [Commands -> Standings] /\ OnlyMoves(c)
          /\ cmd'[c].pc = "verify" /\ cmd'[c].doc = cmd[c].doc /\ cmd'[c].copy = cmd[c].copy
      BY <2>2, Moves DEF Places
    <3>4. InFile'
      BY <2>1, <2>2 DEF Safe, InFile
    <3>5. Safe(c)'
      BY <2>1, <3>2 DEF Safe
    <3>6. Keeps
      BY <2>1, NoCopy
    <3> QED BY <3>1, <3>2, <3>4, <3>5, <3>6, OneCommand
  <2>3. CASE UNCHANGED config /\ Return(c)
    BY <2>1, <2>3, Returns, OnlyCommand
  <2> QED BY <1>5, <2>2, <2>3 DEF Replace
<1>6. ASSUME NEW c \in Commands, Verify(c) PROVE IInv'
  <2>1. UNCHANGED <<config, backups, unrouted, scripted>> /\ cmd[c].pc = "verify" /\ Safe(c)
    BY <1>6 DEF Verify, At, IInv
  <2>2. CASE Goto(c, "restore")
    <3>1. /\ cmd' \in [Commands -> Standings] /\ OnlyMoves(c)
          /\ cmd'[c].pc = "restore" /\ cmd'[c].doc = cmd[c].doc /\ cmd'[c].copy = cmd[c].copy
      BY <2>2, Moves DEF Places
    <3>2. Safe(c)'
      BY <2>1, <3>1 DEF Safe
    <3> QED BY <2>1, <3>1, <3>2, OnlyCommand
  <2>3. CASE Return(c)
    BY <2>1, <2>3, Returns, OnlyCommand
  <2> QED BY <1>6, <2>2, <2>3 DEF Verify
<1>7. ASSUME NEW c \in Commands, Restore(c) PROVE IInv'
  <2>1. UNCHANGED <<backups, unrouted, scripted>> /\ cmd[c].pc = "restore" /\ Return(c) /\ Safe(c)
    BY <1>7 DEF Restore, At, IInv
  <2>2. cmd[c].copy \in 0..Len(backups) /\ cmd[c].doc \in Contents
    BY <2>1 DEF Safe, TypeOK, Standings
  <2>4. config' \in Contents /\ InFile'
    <3>1. CASE UNCHANGED config
      BY <2>1, <3>1 DEF InFile
    <3>2. CASE cmd[c].copy = 0 /\ config' = Missing(cmd[c].doc.whole)
      <4>1. config' \in Contents /\ config'.whole = cmd[c].doc.whole
        BY <2>2, <3>2 DEF Missing, File, Contents
      <4> QED BY <2>1, <4>1 DEF InFile, Safe
    <3>3. CASE cmd[c].copy # 0 /\ config' = backups[cmd[c].copy]
      <4>1. config' \in Contents
        BY <2>2, <3>3
      <4> QED BY <2>1, <3>3, <4>1 DEF InFile, Safe
    <3> QED BY <1>7, <3>1, <3>2, <3>3 DEF Restore
  <2>5. Keeps
    BY <2>1, NoCopy
  <2> QED BY <2>1, <2>4, <2>5, Returns, OneCommand
<1>8. ASSUME NEW c \in Commands, Look(c) PROVE IInv'
  <2>1. UNCHANGED <<config, backups, unrouted, scripted>>
    BY <1>8 DEF Look
  <2>2. CASE Return(c)
    BY <2>1, <2>2, Returns, OnlyCommand
  <2>3. CASE ~ Return(c)
    <3> DEFINE sel == IF Others = {} THEN "none" ELSE backups[Previous].sel
               doc == [config EXCEPT !.sel = sel]
               new == [cmd[c] EXCEPT !.pc = "leave", !.doc = doc]
    <3>1. doc \in Contents
      <4>1. sel \in Selections \cup {"none", "router"}
        <5>1. CASE Others # {}
          <6>1. Previous \in 1..Len(backups)
            BY <5>1, NewestExists
          <6>2. backups[Previous] \in Contents
            BY <6>1
          <6> QED BY <6>2, <5>1 DEF Contents
        <5> QED BY <5>1
      <4> HIDE DEF sel
      <4> QED BY <4>1 DEF Contents
    <3>2. new \in Standings /\ new.pc = "leave" /\ new.doc = doc
      <4> HIDE DEF doc
      <4> QED BY <3>1 DEF TypeOK, Standings, Places
    <3>3. cmd' = [cmd EXCEPT ![c] = new]
      BY <1>8, <2>3 DEF Look
    <3>4. cmd' \in [Commands -> Standings] /\ OnlyMoves(c) /\ cmd'[c].pc = "leave" /\ cmd'[c].doc = doc
      <4> HIDE DEF new, doc
      <4> QED BY <3>2, <3>3 DEF TypeOK, OnlyMoves
    <3>5. Safe(c)'
      <4>1. doc.whole = config.whole
        <5> HIDE DEF sel
        <5> QED BY DEF Contents
      <4> HIDE DEF doc
      <4> QED BY <2>1, <3>4, <4>1 DEF Safe, InFile
    <3> QED BY <2>1, <3>4, <3>5, OnlyCommand
  <2> QED BY <2>2, <2>3
<1>9. ASSUME NEW c \in Commands, Leave(c) PROVE IInv'
  <2>1. UNCHANGED <<config, backups, scripted>> /\ cmd[c].pc = "leave" /\ Safe(c)
    BY <1>9 DEF Leave, At, IInv
  <2>2. unrouted' \in BOOLEAN
    BY <1>9 DEF Leave, Contents
  <2>3. CASE Return(c)
    BY <2>1, <2>2, <2>3, Returns, OnlyCommand
  <2>4. CASE Goto(c, "unpoint")
    <3>1. /\ cmd' \in [Commands -> Standings] /\ OnlyMoves(c)
          /\ cmd'[c].pc = "unpoint" /\ cmd'[c].doc = cmd[c].doc
      BY <2>4, Moves DEF Places
    <3>2. Safe(c)'
      BY <2>1, <3>1 DEF Safe
    <3> QED BY <2>1, <2>2, <3>1, <3>2, OnlyCommand
  <2> QED BY <1>9, <2>3, <2>4 DEF Leave
<1>10. ASSUME NEW c \in Commands, Unpoint(c) PROVE IInv'
  <2>1. UNCHANGED <<backups, unrouted, scripted>> /\ cmd[c].pc = "unpoint" /\ Safe(c) /\ Return(c)
    BY <1>10 DEF Unpoint, At, IInv
  <2>2. config' \in {config, cmd[c].doc}
    BY <1>10 DEF Unpoint
  <2>3. config' \in Contents
    BY <2>2 DEF TypeOK, Standings
  <2>4. InFile'
    BY <2>1, <2>2 DEF InFile, Safe
  <2>5. Keeps
    BY <2>1, NoCopy
  <2> QED BY <2>1, <2>3, <2>4, <2>5, Returns, OneCommand
<1>11. ASSUME NEW sel \in Selections \cup {config.sel, "none"}, NEW state \in {"toml", "broken"},
              Edit(sel, state)
       PROVE IInv'
  <2>1. sel \in Selections \cup {"none", "router"}
    BY DEF Contents
  <2>2. CASE Quiet
    <3>1. UNCHANGED cmd /\ unrouted' = FALSE /\ scripted' = FALSE /\ config' = File(state, sel, TRUE)
          /\ backups' = [i \in 1..Len(backups) |-> [backups[i] EXCEPT !.whole = FALSE]]
      BY <1>11, <2>2 DEF Edit
    <3>2. config' \in Contents /\ config'.whole = TRUE
      BY <2>1, <3>1 DEF File, Contents
    <3>3. \A i \in 1..Len(backups) : [backups[i] EXCEPT !.whole = FALSE] \in Contents
      <4>1. \A f \in Contents : [f EXCEPT !.whole = FALSE] \in Contents
        BY DEF Contents
      <4>2. \A i \in 1..Len(backups) : backups[i] \in Contents
        OBVIOUS
      <4> QED BY <4>1, <4>2
    <3>4. backups' \in Seq(Contents)
      <4>1. backups' \in [1..Len(backups) -> Contents]
        BY <3>1, <3>3
      <4> QED BY <4>1, FunctionsAreSequences
    <3>5. TypeOK' /\ InFile'
      BY <3>1, <3>2, <3>4 DEF TypeOK, InFile
    <3>6. ASSUME NEW c \in Commands PROVE Safe(c)'
      <4>1. cmd'[c].pc = "idle" /\ cmd'[c].copy = 0
        BY <2>2, <3>1 DEF Quiet, IInv, Safe
      <4> QED BY <4>1 DEF Safe
    <3> QED BY <3>5, <3>6 DEF IInv
  <2>3. CASE ~ Quiet
    <3>1. UNCHANGED <<cmd, unrouted, scripted, backups>> /\ config' = File(state, sel, config.whole)
      BY <1>11, <2>3 DEF Edit
    <3>2. config' \in Contents /\ config'.whole = config.whole
      BY <2>1, <3>1 DEF File, Contents
    <3> QED BY <3>1, <3>2 DEF IInv, Safe, InFile, TypeOK
  <2> QED BY <2>2, <2>3
<1>12. CASE Delete
  <2>1. config' \in Contents /\ config'.whole = TRUE
    BY <1>12 DEF Delete, Missing, File, Contents
  <2> QED BY <1>12, <2>1 DEF Delete, IInv, Safe, InFile, TypeOK
<1>13. CASE UnrouteScript
  <2>1. UNCHANGED <<backups, unrouted, cmd>> /\ scripted' = (scripted \/ config.whole)
    BY <1>13 DEF UnrouteScript
  <2>2. scripted' = TRUE
    BY <2>1 DEF InFile
  <2>3. config' \in Contents
    <3>1. CASE backups # <<>> /\ config' = backups[Len(backups)]
      BY <3>1
    <3>2. CASE \E s \in Selections : config' = [config EXCEPT !.sel = s]
      BY <3>2 DEF Contents
    <3> QED BY <1>13, <3>1, <3>2 DEF UnrouteScript
  <2>4. \A c \in Commands : Safe(c)'
    BY <2>1, <2>2 DEF IInv, Safe
  <2> QED BY <2>1, <2>2, <2>3, <2>4 DEF IInv, TypeOK, InFile
<1>14. CASE Restart
  <2>1. UNCHANGED <<config, backups, unrouted, scripted>> /\ cmd' = [c \in Commands |-> Idle]
    BY <1>14 DEF Restart
  <2>2. ASSUME NEW c \in Commands PROVE Safe(c)'
    <3>1. cmd'[c].pc = "idle" /\ cmd'[c].copy = 0
      BY <2>1, Idling
    <3> QED BY <3>1 DEF Safe
  <2>3. TypeOK' /\ InFile'
    BY <2>1, Idling DEF TypeOK, InFile
  <2> QED BY <2>2, <2>3 DEF IInv
<1>15. CASE UNCHANGED vars
  BY <1>15 DEF vars, IInv, Safe, InFile, TypeOK
<1> QED BY <1>1, <1>2, <1>3, <1>4, <1>5, <1>6, <1>7, <1>8, <1>9, <1>10, <1>11, <1>12, <1>13, <1>14, <1>15
        DEF Next

LEMMA InitIInv == Init => IInv
<1> SUFFICES ASSUME Init PROVE IInv
  OBVIOUS
<1>1. config \in Contents /\ config.whole = TRUE
  <2>1. PICK s \in Selections \cup {"none"} : config = File("toml", s, TRUE)
    BY DEF Init
  <2> QED BY <2>1 DEF File, Contents
<1>2. backups \in Seq(Contents) /\ unrouted \in BOOLEAN /\ scripted \in BOOLEAN
  <2>1. backups = <<>> /\ unrouted = FALSE /\ scripted = FALSE
    BY DEF Init
  <2>2. backups \in [1..0 -> Contents]
    BY <2>1
  <2>3. backups \in Seq(Contents)
    BY <2>2, FunctionsAreSequences
  <2> QED BY <2>1, <2>3
<1>3. cmd \in [Commands -> Standings]
  BY Idling DEF Init
<1>4. TypeOK /\ InFile
  BY <1>1, <1>2, <1>3 DEF TypeOK, InFile
<1>5. ASSUME NEW c \in Commands PROVE Safe(c)
  <2>1. cmd[c].pc = "idle" /\ cmd[c].copy = 0
    BY Idling DEF Init
  <2> QED BY <2>1 DEF Safe
<1> QED BY <1>4, <1>5 DEF IInv

-----------------------------------------------------------------------------
(* The selection.                                                          *)

Newest(i) == i \in Others /\ \A j \in Others : j <= i

\* What was replaced is still the newest copy of a file not pointed at the router.
BackedInv ==
    /\ before \in [sel : Selections \cup {"none", "router"}, backed : BOOLEAN]
    /\ before.backed = TRUE => \E i : Newest(i) /\ backups[i].sel = before.sel

\* Copies of files that point at the router do not count.
LEMMA PointedCopy ==
  ASSUME TypeOK, BackedInv, backups' = Append(backups, config),
         before' = [before EXCEPT !.backed = @ /\ ~ Other(config)]
  PROVE  BackedInv'
<1>1. before' \in [sel : Selections \cup {"none", "router"}, backed : BOOLEAN]
      /\ before'.sel = before.sel /\ (before'.backed = TRUE => before.backed = TRUE /\ ~ Other(config))
  BY DEF BackedInv
<1>2. ASSUME before'.backed = TRUE PROVE \E i : Newest(i)' /\ backups'[i].sel = before'.sel
  <2>1. before.backed = TRUE /\ ~ Other(config)
    BY <1>1, <1>2
  <2>2. PICK i : Newest(i) /\ backups[i].sel = before.sel
    BY <2>1 DEF BackedInv
  <2>3. /\ Len(backups) \in Nat /\ Len(backups') = Len(backups) + 1 /\ backups'[Len(backups) + 1] = config
        /\ \A j \in 1..Len(backups) : backups'[j] = backups[j]
    BY DEF TypeOK
  <2>4. Others' = Others
    <3>1. ASSUME NEW j \in 1..(Len(backups) + 1) PROVE j \in Others' <=> j \in Others
      <4>1. CASE j = Len(backups) + 1
        BY <2>1, <2>3, <4>1 DEF Others, Other
      <4>2. CASE j # Len(backups) + 1
        BY <2>3, <3>1, <4>2 DEF Others, Other
      <4> QED BY <4>1, <4>2
    <3>2. Others' \subseteq 1..(Len(backups) + 1) /\ Others \subseteq 1..(Len(backups) + 1)
      BY <2>3 DEF Others
    <3> QED BY <3>1, <3>2
  <2>5. i \in 1..Len(backups)
    BY <2>2 DEF Newest, Others
  <2> QED BY <1>1, <2>2, <2>3, <2>4, <2>5 DEF Newest
<1> QED BY <1>1, <1>2 DEF BackedInv

\* The file that is replaced is the last copy.
LEMMA ReplacedIsNewest ==
  ASSUME TypeOK, config.sel # Router, NewestIs(config)
  PROVE  Newest(Len(backups)) /\ backups[Len(backups)].sel = config.sel
<1>1. Len(backups) \in 1..Len(backups) /\ backups[Len(backups)] = config
  BY DEF TypeOK, NewestIs
<1> QED BY <1>1 DEF Newest, Others, Other

LEMMA BackedSteps == ASSUME TypeOK, BackedInv, [Next]_vars PROVE BackedInv'
<1>1. ASSUME UNCHANGED <<backups, before>> PROVE BackedInv'
  BY <1>1 DEF BackedInv, Newest, Others
<1>2. ASSUME NEW c \in Commands, Copy(c) PROVE BackedInv'
  <2>1. CASE backups' = Append(backups, config) /\ before' = [before EXCEPT !.backed = @ /\ ~ Other(config)]
    BY <2>1, PointedCopy
  <2>2. CASE before' = [before EXCEPT !.backed = FALSE]
    <3>1. before' \in [sel : Selections \cup {"none", "router"}, backed : BOOLEAN] /\ before'.backed = FALSE
      BY <2>2 DEF BackedInv
    <3> QED BY <3>1 DEF BackedInv
  <2> QED BY <1>1, <1>2, <2>1, <2>2 DEF Copy
<1>3. ASSUME NEW c \in Commands, Replace(c) PROVE BackedInv'
  <2>1. UNCHANGED backups
    BY <1>3 DEF Replace
  <2>2. CASE config.sel # Router /\ before' = [sel |-> config.sel, backed |-> NewestIs(config)]
    <3>1. before' \in [sel : Selections \cup {"none", "router"}, backed : BOOLEAN] /\ before'.sel = config.sel
      BY <2>2 DEF TypeOK, Contents, NewestIs
    <3>2. before'.backed = TRUE => NewestIs(config)
      BY <2>2
    <3>3. ASSUME before'.backed = TRUE PROVE \E i : Newest(i)' /\ backups'[i].sel = before'.sel
      <4>1. PICK n : n = Len(backups)
        OBVIOUS
      <4>2. Newest(n) /\ backups[n].sel = config.sel
        BY <2>2, <3>2, <3>3, <4>1, ReplacedIsNewest
      <4> QED BY <2>1, <3>1, <4>2 DEF Newest, Others
    <3> QED BY <3>1, <3>3 DEF BackedInv
  <2> QED BY <1>1, <1>3, <2>1, <2>2 DEF Replace
<1>4. ASSUME NEW sel, NEW state, Edit(sel, state) PROVE BackedInv'
  <2>1. CASE backups' = [i \in 1..Len(backups) |-> [backups[i] EXCEPT !.whole = FALSE]]
    <3>1. Len(backups) \in Nat /\ Len(backups') = Len(backups)
      BY <2>1 DEF TypeOK
    <3>2. ASSUME NEW i \in 1..Len(backups) PROVE backups'[i].state = backups[i].state /\ backups'[i].sel = backups[i].sel
      <4>1. backups[i] \in Contents /\ backups'[i] = [backups[i] EXCEPT !.whole = FALSE]
        BY <2>1, <3>2 DEF TypeOK
      <4> QED BY <4>1 DEF Contents
    <3>3. Others' = Others /\ Others \subseteq 1..Len(backups)
      BY <3>1, <3>2 DEF Others, Other
    <3>4. before' = before
      BY <1>4 DEF Edit
    <3> QED BY <3>2, <3>3, <3>4 DEF BackedInv, Newest
  <2> QED BY <1>1, <1>4, <2>1 DEF Edit
<1> QED BY <1>1, <1>2, <1>3, <1>4 DEF Next, vars, Point, ReadConfig, Verify, Restore, Disconnect, Look, Leave,
                                      Unpoint, Delete, UnrouteScript, Restart

LEMMA LooksRight == ASSUME TypeOK, BackedInv, NEW c \in Commands, Look(c), cmd'[c].pc = "leave", before.backed = TRUE
                    PROVE  cmd'[c].doc.sel = before.sel
<1>1. PICK i : Newest(i) /\ backups[i].sel = before.sel
  BY DEF BackedInv
<1>2. Others # {} /\ Previous = i
  <2>1. Others \subseteq Nat
    BY DEF Others
  <2>2. Previous \in Others /\ \A j \in Others : j <= Previous
    BY <1>1, Zenon DEF Newest, Previous
  <2> QED BY <1>1, <2>1, <2>2 DEF Newest
<1>3. cmd[c] \in Standings /\ cmd \in [Commands -> Standings] /\ config \in Contents /\ cmd[c].pc = "look"
  BY DEF TypeOK, Look, At
<1>4. ~ Return(c)
  BY <1>3, Idling DEF Return
<1>5. cmd' = [cmd EXCEPT ![c].pc = "leave", ![c].doc = [config EXCEPT !.sel = before.sel]]
  BY <1>1, <1>2, <1>4 DEF Look
<1> QED BY <1>3, <1>5 DEF Standings, Contents

-----------------------------------------------------------------------------
(* Theorems.                                                               *)

\* Whatever is done to the configuration, and wherever it is interrupted, all that
\* the user had in it is in one file.
THEOREM SettingsAreKept == Spec => []UserSettingsKept
<1>1. IInv => UserSettingsKept
  BY DEF IInv, TypeOK, Contents, InFile, UserSettingsKept
<1>2. IInv /\ [Next]_vars => IInv'
  BY NextIInv
<1> QED BY <1>1, <1>2, InitIInv, PTL DEF Spec

\* Who was selected when the file was pointed at the router is selected again after
\* it was pointed away, unless a newer copy shows another choice.
THEOREM SelectionComesBack == Spec => SelectionRestored
<1> DEFINE Restored == \A c \in Commands :
                At(c, "look") /\ cmd'[c].pc = "leave" /\ before.backed => cmd'[c].doc.sel = before.sel
           Inv == IInv /\ BackedInv
<1>1. Init => Inv
  <2>1. Init => BackedInv
    BY DEF Init, BackedInv
  <2> QED BY <2>1, InitIInv
<1>2. Inv /\ [Next]_vars => Inv'
  BY NextIInv, BackedSteps DEF IInv
<1>3. Inv /\ [Next]_vars => [Restored]_vars
  <2> SUFFICES ASSUME Inv, Next, NEW c \in Commands, At(c, "look"), cmd'[c].pc = "leave", before.backed
               PROVE  cmd'[c].doc.sel = before.sel
    OBVIOUS
  <2>1. cmd[c].pc = "look" /\ TypeOK /\ before.backed = TRUE
    BY DEF At, IInv, BackedInv
  <2>2. Look(c)
    <3>1. ASSUME NEW d \in Commands \ {c},
                 Point(d) \/ ReadConfig(d) \/ Copy(d) \/ Replace(d) \/ Verify(d) \/ Restore(d)
                   \/ Disconnect(d) \/ Look(d) \/ Leave(d) \/ Unpoint(d)
          PROVE  cmd'[c] = cmd[c]
      BY <2>1, <3>1 DEF TypeOK, Point, ReadConfig, Copy, Replace, Verify, Restore, Disconnect, Look, Leave, Unpoint,
                        Goto, Return
    <3>2. ASSUME (\E sel \in Selections \cup {config.sel, "none"}, state \in {"toml", "broken"} : Edit(sel, state))
                   \/ Delete \/ UnrouteScript \/ Restart
          PROVE  cmd'[c].pc # "leave"
      <4>1. UNCHANGED cmd \/ cmd' = [d \in Commands |-> Idle]
        BY <3>2 DEF Edit, Delete, UnrouteScript, Restart
      <4> QED BY <2>1, <4>1, Idling
    <3> QED BY <2>1, <3>1, <3>2 DEF Next, At, Point, ReadConfig, Copy, Replace, Verify, Restore, Disconnect, Leave, Unpoint
  <2> QED BY <2>1, <2>2, LooksRight
<1>4. [][Restored]_vars <=> SelectionRestored
  BY DEF SelectionRestored
<1> QED BY <1>1, <1>2, <1>3, <1>4, PTL DEF Spec
=============================================================================
