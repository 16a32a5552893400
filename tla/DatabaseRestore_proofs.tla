----------------------- MODULE DatabaseRestore_proofs -----------------------
(***************************************************************************)
(* The safety properties of DatabaseRestore for any uses, keys and slots,  *)
(* however many backups are made.  That of the safety backup needs at      *)
(* least three to be kept.                                                 *)
(***************************************************************************)
EXTENDS DatabaseRestore, SequenceTheorems, TLAPS

Rows == [Keys -> Slots \cup {None, Blank}]
Contents == [redacted : BOOLEAN, uses : SUBSET Uses, hourly : SUBSET Uses, keys : Rows]
Files == [name : Nat, content : Contents]
Jobs == [pc : {"idle", "backup", "stage", "replace"}, kind : {"none", "restore", "import", "sync"},
         name : Nat, source : Contents, staged : Contents, kept : SUBSET Uses, began : SUBSET Uses,
         met : BOOLEAN]

TypeOK ==
    /\ db \in Contents
    /\ secrets \in SUBSET Slots /\ issued \in SUBSET Slots
    /\ files \in Seq(Files) /\ made \in Nat
    /\ writer \in [Writers -> Contents \cup {None}]
    /\ job \in Jobs
    /\ job.pc # "idle" => job.kind # "none"
    /\ writer["job"] # None => job.pc = "backup"

\* What a constant has to be.
Distinct == None \notin Slots /\ Blank \notin Slots

Running == ~ At("idle")

\* How many files may be newer than the one that is as good as the safety backup:
\* one that the timer has written, and one in place of the file that was chosen.
Newer == (IF job.met /\ writer["timer"] = None THEN 1 ELSE 0) + (IF At("replace") THEN 1 ELSE 0)

Holds(i) == job.began \subseteq Known(files[i].content)

\* Before the backup of the job is written nothing of the database has gone, and
\* nothing of the snapshot that will be written; after it, the backup is there, and
\* near the end of the list.
SafetyInv ==
    /\ writer["job"] # None => job.began \subseteq Known(writer["job"])
    /\ Running /\ writer["timer"] # None => job.met
    /\ At("backup") => job.began \subseteq Known(db)
    /\ At("stage") \/ At("replace") =>
         \E i \in 1..Len(files) : Holds(i) /\ Len(files) - i <= Newer

-----------------------------------------------------------------------------
(* Lemmas on the operators of the module.                                  *)

LEMMA EmptyType == Empty \in Contents /\ Redacted(Empty) \in Contents /\ Known(Redacted(Empty)) = {}
BY DEF Empty, Content, Contents, Rows, NoRows, Redacted, Known

\* Redaction takes secrets away and nothing that was counted.
LEMMA RedactedType ==
    ASSUME NEW c \in Contents
    PROVE  Redacted(c) \in Contents /\ Known(Redacted(c)) = Known(c)
BY DEF Contents, Rows, Redacted, Content, Known

\* What is kept of a list of files is its end.
LEMMA NewestOfKeepsEnd ==
    ASSUME NEW list \in Seq(Files), Retain \in Nat \ {0}
    PROVE  /\ NewestOf(list) \in Seq(Files)
           /\ \A i \in 1..Len(list) : Len(list) - i < Retain =>
                \E j \in 1..Len(NewestOf(list)) :
                    /\ NewestOf(list)[j] = list[i]
                    /\ Len(NewestOf(list)) - j = Len(list) - i
<1>1. CASE Len(list) <= Retain
  <2>1. NewestOf(list) = list
    BY <1>1 DEF NewestOf
  <2> QED BY <2>1
<1>2. CASE ~ (Len(list) <= Retain)
  <2> DEFINE m == Len(list) - Retain + 1
             new == SubSeq(list, m, Len(list))
  <2>1. NewestOf(list) = new
    BY <1>2 DEF NewestOf
  <2>2. m \in Int /\ Len(list) \in Int /\ m >= 1 /\ m <= Len(list)
    BY <1>2
  <2>3. \A i \in m..Len(list) : list[i] \in Files
    BY <2>2
  <2>4. /\ new \in Seq(Files) /\ Len(new) = Retain
        /\ \A i \in 1..Retain : new[i] = list[m + i - 1]
    <3> HIDE DEF m
    <3>1. /\ SubSeq(list, m, Len(list)) \in Seq(Files)
          /\ Len(SubSeq(list, m, Len(list))) = IF m <= Len(list) THEN Len(list) - m + 1 ELSE 0
          /\ \A i \in 1..Len(list) - m + 1 : SubSeq(list, m, Len(list))[i] = list[m + i - 1]
      BY <2>2, <2>3, SubSeqProperties
    <3>2. Len(list) - m + 1 = Retain
      BY DEF m
    <3> QED BY <3>1, <3>2, <2>2
  <2> HIDE DEF new
  <2>5. ASSUME NEW i \in 1..Len(list), Len(list) - i < Retain
        PROVE  \E j \in 1..Len(new) : new[j] = list[i] /\ Len(new) - j = Len(list) - i
    <3> DEFINE j == i - Len(list) + Retain
    <3>1. j \in 1..Retain /\ m + j - 1 = i /\ Retain - j = Len(list) - i
      BY <2>5
    <3>2. new[j] = list[i]
      BY <3>1, <2>4
    <3> QED BY <3>1, <3>2, <2>4
  <2> QED BY <2>1, <2>4, <2>5
<1> QED BY <1>1, <1>2

-----------------------------------------------------------------------------
(* Types.                                                                  *)

LEMMA InitType == ASSUME Retain \in Nat, Init PROVE TypeOK
<1> USE DEF Init
<1>1. files \in Seq(Files)
  <2>1. PICK n \in {0, Retain} : files = [i \in 1..n |-> [name |-> i, content |-> Redacted(Empty)]]
    OBVIOUS
  <2>2. n \in Nat /\ \A i \in 1..n : [name |-> i, content |-> Redacted(Empty)] \in Files
    BY EmptyType DEF Files
  <2> QED BY <2>1, <2>2
<1>2. job \in Jobs /\ job.pc = "idle"
  BY EmptyType DEF NoJob, Jobs
<1>3. writer \in [Writers -> Contents \cup {None}] /\ writer["job"] = None
  BY DEF Writers
<1> QED BY <1>1, <1>2, <1>3, EmptyType DEF TypeOK

LEMMA NextType == ASSUME Retain \in Nat \ {0}, TypeOK, [Next]_vars PROVE TypeOK'
<1> USE DEF TypeOK
<1>1. ASSUME NEW u \in Uses, RecordUse(u) PROVE TypeOK'
  BY <1>1 DEF RecordUse, Contents
<1>2. ASSUME NEW k \in Keys, CreateKey(k) \/ DeleteKey(k) PROVE TypeOK'
  BY <1>2 DEF CreateKey, DeleteKey, SetRow, Contents, Rows
<1>3. ASSUME NEW k \in Keys, NEW s \in Slots, PutSecret(k, s) PROVE TypeOK'
  BY <1>3 DEF PutSecret, SetRow, Contents, Rows
<1>4. ASSUME NEW k \in Keys, ClearSecret(k) PROVE TypeOK'
  BY <1>4 DEF ClearSecret, SetRow, Contents, Rows
<1>5. ASSUME NEW w \in Writers, TakeSnapshot(w) PROVE TypeOK'
  BY <1>5, RedactedType DEF TakeSnapshot, Jobs, At, Writers
<1>6. ASSUME NEW c \in Contents PROVE NewFile(c) \in Files /\ Append(files, NewFile(c)) \in Seq(Files)
  BY <1>6 DEF NewFile, Files
<1>7. ASSUME NEW w \in Writers, WriteBackup(w) PROVE TypeOK'
  <2>1. writer[w] \in Contents
    BY <1>7 DEF WriteBackup
  <2>2. files' \in Seq(Files)
    BY <2>1, <1>6, <1>7, NewestOfKeepsEnd DEF WriteBackup
  <2>3. job' \in Jobs
    BY <1>7 DEF WriteBackup, Jobs
  <2>4. job'.pc # "idle" => job'.kind # "none"
    BY <1>7 DEF WriteBackup, Jobs
  <2>5. writer' \in [Writers -> Contents \cup {None}] /\ (writer'["job"] # None => job'.pc = "backup")
    BY <1>7 DEF WriteBackup, Jobs, Writers
  <2> QED BY <1>7, <2>2, <2>3, <2>4, <2>5 DEF WriteBackup
<1>8. ASSUME NEW w \in Writers, WriteFails(w) PROVE TypeOK'
  <2>1. files' \in Seq(Files)
    BY <1>6, <1>8, EmptyType DEF WriteFails
  <2>2. job' \in Jobs
    BY <1>8, EmptyType DEF WriteFails, Jobs, NoJob
  <2>3. job'.pc # "idle" => job'.kind # "none"
    BY <1>8 DEF WriteFails, NoJob
  <2>4. writer' \in [Writers -> Contents \cup {None}] /\ (writer'["job"] # None => job'.pc = "backup")
    BY <1>8 DEF WriteFails, Jobs, Writers
  <2> QED BY <1>8, <2>1, <2>2, <2>3, <2>4 DEF WriteFails
<1>9. ASSUME NEW kind \in {"restore", "import", "sync"}, NEW name \in Nat, NEW source \in Contents,
             Begin(kind, name, source)
      PROVE  TypeOK'
  <2>1. Known(db) \in SUBSET Uses
    BY DEF Known, Contents
  <2> QED BY <1>9, <2>1, EmptyType DEF Begin, Jobs, NoJob, At, Writers
<1>10. ASSUME NEW i \in DOMAIN files, Restore(i) PROVE TypeOK'
  <2>1. files[i] \in Files
    OBVIOUS
  <2> QED BY <1>9, <1>10, <2>1 DEF Restore, Files
<1>11. ASSUME NEW c \in Exports, Import(c) PROVE TypeOK'
  <2>1. c \in Contents
    <3>1. CASE c = Redacted(Empty)
      BY <3>1, EmptyType
    <3>2. CASE \E keys \in [Keys -> {None} \cup issued] : c = Content(FALSE, {}, {}, keys)
      <4>1. PICK keys \in [Keys -> {None} \cup issued] : c = Content(FALSE, {}, {}, keys)
        BY <3>2
      <4>2. keys \in Rows
        BY DEF Rows
      <4> QED BY <4>1, <4>2 DEF Content, Contents
    <3> QED BY <3>1, <3>2 DEF Exports
  <2> QED BY <1>9, <1>11, <2>1 DEF Import
<1>12. ASSUME NEW redacted \in BOOLEAN, NEW hourly \in {{}, db.hourly}, Sync(redacted, hourly)
       PROVE  TypeOK'
  <2>1. Content(redacted, {}, hourly, NoRows) \in Contents
    BY DEF Content, Contents, NoRows, Rows
  <2> QED BY <1>9, <1>12, <2>1 DEF Sync
<1>13. ASSUME Stage PROVE TypeOK'
  <2>1. Opened \in Contents
    <3>1. CASE job.name \in Names
      <4>1. PICK i \in DOMAIN files : files[i].name = job.name
        BY <3>1 DEF Names
      <4>2. files[i] \in ToSet(files)
        BY DEF ToSet
      <4>3. (CHOOSE f \in ToSet(files) : f.name = job.name) \in ToSet(files)
        BY <4>1, <4>2
      <4>4. ToSet(files) \subseteq Files
        BY DEF ToSet
      <4> QED BY <3>1, <4>3, <4>4 DEF Opened, Files
    <3>2. CASE job.name \notin Names
      BY <3>2, EmptyType DEF Opened
    <3> QED BY <3>1, <3>2
  <2>2. WithLocal(job.source, db) \in Contents
    BY DEF WithLocal, Contents, Jobs
  <2>3. files' \in Seq(Files)
    <3>1. [name |-> job.name, content |-> Empty] \in Files
      BY EmptyType DEF Files, Jobs
    <3> QED BY <1>13, <3>1 DEF Stage
  <2>4. job' \in Jobs /\ job'.kind # "none"
    <3>1. db.hourly \in SUBSET Uses
      BY DEF Contents
    <3>2. CASE job.kind = "restore"
      BY <1>13, <2>1, <3>1, <3>2, EmptyType DEF Stage, At, Jobs
    <3>3. CASE job.kind = "import"
      BY <1>13, <3>1, <3>3, EmptyType DEF Stage, At, Jobs
    <3>4. CASE job.kind = "sync"
      BY <1>13, <2>2, <3>1, <3>4, EmptyType DEF Stage, At, Jobs
    <3> QED BY <1>13, <3>2, <3>3, <3>4 DEF Stage, At, Jobs
  <2> QED BY <1>13, <2>3, <2>4 DEF Stage, At
<1>14. ASSUME Replace PROVE TypeOK'
  <2>1. Incoming \in Contents
    BY DEF Incoming, Rehydrated, Contents, Rows, Jobs
  <2> QED BY <1>14, <2>1, EmptyType DEF Replace, NoJob, Jobs, At
<1>15. ASSUME Reject PROVE TypeOK'
  BY <1>15, EmptyType DEF Reject, NoJob, Jobs
<1>16. CASE UNCHANGED vars
  BY <1>16 DEF vars
<1> QED BY <1>1, <1>2, <1>3, <1>4, <1>5, <1>7, <1>8, <1>10, <1>11, <1>12, <1>13, <1>14, <1>15, <1>16 DEF Next

-----------------------------------------------------------------------------
(* Secrets keep their rows.                                                *)

\* Whatever touches the rows leaves those that own a secret alone, or moves the
\* secret with them; a replacement has to bring every row that is here.
LEMMA NextSecrets ==
    ASSUME Distinct, TypeOK, SecretsKeepTheirRow, [Next]_vars
    PROVE  SecretsKeepTheirRow'
<1> USE DEF SecretsKeepTheirRow
<1>0. db.keys \in Rows /\ secrets \subseteq Slots
  BY DEF TypeOK, Contents
<1>1. ASSUME secrets' = secrets, db'.keys = db.keys PROVE SecretsKeepTheirRow'
  BY <1>1
<1>2. ASSUME NEW k \in Keys, CreateKey(k) \/ DeleteKey(k) PROVE SecretsKeepTheirRow'
  <2>1. db.keys[k] \notin secrets /\ secrets' = secrets
    BY <1>0, <1>2 DEF CreateKey, DeleteKey, Distinct
  <2>2. \A l \in Keys : l # k => db'.keys[l] = db.keys[l]
    BY <1>0, <1>2 DEF CreateKey, DeleteKey, SetRow, Rows, TypeOK, Contents
  <2> QED BY <2>1, <2>2
<1>3. ASSUME NEW k \in Keys, NEW s \in Slots, PutSecret(k, s) PROVE SecretsKeepTheirRow'
  <2>1. secrets' = (secrets \ {db.keys[k]}) \cup {s}
    BY <1>3 DEF PutSecret
  <2>2. db'.keys[k] = s /\ \A l \in Keys : l # k => db'.keys[l] = db.keys[l]
    BY <1>0, <1>3 DEF PutSecret, SetRow, Rows, TypeOK, Contents
  <2> QED BY <2>1, <2>2
<1>4. ASSUME NEW k \in Keys, ClearSecret(k) PROVE SecretsKeepTheirRow'
  <2>1. secrets' = secrets \ {db.keys[k]}
    BY <1>4 DEF ClearSecret
  <2>2. \A l \in Keys : l # k => db'.keys[l] = db.keys[l]
    BY <1>0, <1>4 DEF ClearSecret, SetRow, Rows, TypeOK, Contents
  <2> QED BY <2>1, <2>2
<1>5. ASSUME Replace PROVE SecretsKeepTheirRow'
  <2>1. secrets' = secrets /\ db' = Incoming
    BY <1>5 DEF Replace
  <2>2. \A l \in Keys : db.keys[l] # None => Incoming.keys[l] = db.keys[l]
    BY <1>5 DEF Replace, Preserved
  <2> QED BY <1>0, <2>1, <2>2 DEF Distinct
<1>6. ASSUME NEW u \in Uses, RecordUse(u) PROVE SecretsKeepTheirRow'
  BY <1>1, <1>6 DEF RecordUse, TypeOK, Contents
<1>7. ASSUME NEW w \in Writers, TakeSnapshot(w) \/ WriteBackup(w) \/ WriteFails(w)
      PROVE  SecretsKeepTheirRow'
  BY <1>1, <1>7 DEF TakeSnapshot, WriteBackup, WriteFails
<1>8. ASSUME NEW kind, NEW name, NEW source, Begin(kind, name, source) PROVE SecretsKeepTheirRow'
  BY <1>1, <1>8 DEF Begin
<1>9. ASSUME Stage \/ Reject \/ UNCHANGED vars PROVE SecretsKeepTheirRow'
  BY <1>1, <1>9 DEF Stage, Reject, vars
<1> QED BY <1>2, <1>3, <1>4, <1>5, <1>6, <1>7, <1>8, <1>9 DEF Next, Restore, Import, Sync

-----------------------------------------------------------------------------
(* The safety backup is there.                                             *)

\* A step that leaves the files alone, the job where it stands, and takes nothing
\* out of the database.
LEMMA BesideTheJob ==
    ASSUME TypeOK, SafetyInv, UNCHANGED <<files, writer, job>>, Known(db) \subseteq Known(db')
    PROVE  SafetyInv'
<1>1. \A i : Holds(i)' <=> Holds(i)
  BY DEF Holds, Known
<1>2. Newer' = Newer /\ (\A p : At(p)' <=> At(p)) /\ (Running' <=> Running)
  BY DEF Newer, At, Running
<1>3. writer' = writer /\ job' = job /\ files' = files
  OBVIOUS
<1>4. writer["job"] # None => job'.began \subseteq Known(writer["job"])'
  BY <1>3 DEF SafetyInv, Known
<1>5. At("backup") => job'.began \subseteq Known(db')
  BY <1>3 DEF SafetyInv
<1>6. Known(db)' = Known(db')
  BY DEF Known
<1> QED BY <1>1, <1>2, <1>3, <1>4, <1>5, <1>6 DEF SafetyInv

\* A new file is one more that is newer than the backup.
LEMMA OneMoreFile ==
    ASSUME TypeOK, NEW f \in Files, NEW n \in Nat,
           \E i \in 1..Len(files) : Holds(i) /\ Len(files) - i <= n
    PROVE  \E i \in 1..Len(Append(files, f)) :
               /\ job.began \subseteq Known(Append(files, f)[i].content)
               /\ Len(Append(files, f)) - i <= n + 1
<1>1. PICK i \in 1..Len(files) : Holds(i) /\ Len(files) - i <= n
  OBVIOUS
<1>2. Len(Append(files, f)) = Len(files) + 1 /\ Append(files, f)[i] = files[i] /\ Len(files) \in Nat
  BY AppendProperties DEF TypeOK
<1>3. i \in 1..Len(Append(files, f)) /\ Len(Append(files, f)) - i <= n + 1
  BY <1>1, <1>2
<1>4. job.began \subseteq Known(Append(files, f)[i].content)
  BY <1>1, <1>2 DEF Holds
<1> QED BY <1>3, <1>4

LEMMA NextSafety ==
    ASSUME Retain \in Nat, Retain >= 3, TypeOK, SafetyInv, [Next]_vars
    PROVE  SafetyInv'
<1> USE DEF Writers
<1>1. ASSUME NEW u \in Uses, RecordUse(u) PROVE SafetyInv'
  <2>1. Known(db) \subseteq Known(db')
    BY <1>1 DEF RecordUse, Known, TypeOK, Contents
  <2> QED BY <1>1, <2>1, BesideTheJob DEF RecordUse
<1>2. ASSUME NEW k \in Keys, NEW row, SetRow(k, row), UNCHANGED <<files, writer, job>> PROVE SafetyInv'
  <2>1. Known(db) \subseteq Known(db')
    BY <1>2 DEF SetRow, Known, TypeOK, Contents
  <2> QED BY <1>2, <2>1, BesideTheJob
<1>3. ASSUME NEW k \in Keys,
             CreateKey(k) \/ DeleteKey(k) \/ ClearSecret(k) \/ \E s \in Slots : PutSecret(k, s)
      PROVE  SafetyInv'
  BY <1>2, <1>3 DEF CreateKey, DeleteKey, ClearSecret, PutSecret
<1>4. ASSUME TakeSnapshot("job") PROVE SafetyInv'
  <2>1. /\ At("backup") /\ job' = job /\ files' = files /\ db' = db
        /\ writer'["job"] = Redacted(db) /\ writer'["timer"] = writer["timer"]
    BY <1>4 DEF TakeSnapshot, TypeOK, Jobs, At
  <2>2. job.began \subseteq Known(Redacted(db))
    BY <2>1, RedactedType DEF SafetyInv, TypeOK
  <2>3. Known(Redacted(db)) = Known(writer["job"])'
    BY <2>1 DEF Known
  <2> QED BY <2>1, <2>2, <2>3 DEF SafetyInv, At, Running, Known
<1>5. ASSUME TakeSnapshot("timer") PROVE SafetyInv'
  <2>1. /\ files' = files /\ db' = db /\ writer["timer"] = None
        /\ writer'["job"] = writer["job"]
        /\ job'.pc = job.pc /\ job'.began = job.began
        /\ Running => ~ job.met /\ job'.met
    BY <1>5 DEF TakeSnapshot, TypeOK, Jobs, At, Running
  <2>2. \A p : At(p)' <=> At(p)
    BY <2>1 DEF At
  <2>3. ASSUME At("stage") \/ At("replace") PROVE Newer <= Newer'
    <3>1. ~ job.met
      BY <2>1, <2>3 DEF At, Running
    <3> QED BY <2>2, <3>1 DEF Newer
  <2>4. Newer \in Nat /\ Newer' \in Nat /\ Len(files) \in Nat
    BY DEF Newer, TypeOK
  <2>5. ASSUME At("stage") \/ At("replace")
        PROVE  \E i \in 1..Len(files) : Holds(i) /\ Len(files) - i <= Newer'
    <3>1. PICK i \in 1..Len(files) : Holds(i) /\ Len(files) - i <= Newer
      BY <2>5 DEF SafetyInv
    <3>2. Len(files) - i <= Newer'
      BY <2>3, <2>4, <2>5, <3>1
    <3> QED BY <3>1, <3>2
  <2>6. \A i : Holds(i)' <=> Holds(i)
    BY <2>1 DEF Holds, Known
  <2>7. (writer["job"] # None => job.began \subseteq Known(writer["job"])) /\ (At("backup") => job.began \subseteq Known(db))
    BY DEF SafetyInv
  <2> QED BY <2>1, <2>2, <2>5, <2>6, <2>7 DEF SafetyInv, Running, Known
<1>6. ASSUME NEW w \in Writers, writer[w] # None
      PROVE  writer[w] \in Contents /\ NewFile(writer[w]) \in Files /\ NewFile(Empty) \in Files
  BY <1>6, EmptyType DEF TypeOK, NewFile, Files
<1>7. ASSUME WriteBackup("job") PROVE SafetyInv'
  <2> DEFINE list == Append(files, NewFile(writer["job"]))
  <2>1. /\ writer["job"] # None /\ files' = NewestOf(list) /\ job'.began = job.began
        /\ job'.pc = "stage" /\ job'.met = job.met
        /\ writer'["job"] = None /\ writer'["timer"] = writer["timer"]
    BY <1>7 DEF WriteBackup, TypeOK, Jobs
  <2>2. At("backup") /\ job.began \subseteq Known(writer["job"])
    BY <2>1 DEF SafetyInv, TypeOK, At
  <2>3. list \in Seq(Files) /\ Len(list) = Len(files) + 1 /\ list[Len(files) + 1] = NewFile(writer["job"])
    BY <1>6, <2>1, AppendProperties DEF TypeOK
  <2> HIDE DEF list
  <2>4. Len(list) \in 1..Len(list) /\ Len(list) - Len(list) < Retain /\ list[Len(list)] = NewFile(writer["job"])
    BY <2>3 DEF TypeOK
  <2>5. PICK j \in 1..Len(files') : files'[j] = list[Len(list)] /\ Len(files') - j = Len(list) - Len(list)
    BY <2>1, <2>3, <2>4, NewestOfKeepsEnd
  <2>6. job.began \subseteq Known(files'[j].content)
    BY <2>2, <2>4, <2>5 DEF NewFile
  <2>7. Len(files') - j <= Newer'
    BY <2>3, <2>5 DEF Newer
  <2>8. Holds(j)'
    BY <2>1, <2>6 DEF Holds, Known
  <2>9. Running
    BY <2>2 DEF At, Running
  <2> QED BY <2>1, <2>5, <2>7, <2>8, <2>9 DEF SafetyInv, At, Running
<1>8. ASSUME WriteBackup("timer") PROVE SafetyInv'
  <2> DEFINE list == Append(files, NewFile(writer["timer"]))
  <2>1. /\ writer["timer"] # None /\ files' = NewestOf(list) /\ job' = job /\ db' = db
        /\ writer'["timer"] = None /\ writer'["job"] = writer["job"]
    BY <1>8 DEF WriteBackup, TypeOK
  <2>2. Running => job.met
    BY <2>1 DEF SafetyInv
  <2>3. list \in Seq(Files)
    BY <1>6, <2>1, AppendProperties DEF TypeOK
  <2>4. ASSUME At("stage") \/ At("replace")
        PROVE  \E j \in 1..Len(files') : Holds(j)' /\ Len(files') - j <= Newer'
    <3>1. Newer \in Nat /\ Newer <= 1 /\ Newer' = Newer + 1
      BY <2>1, <2>2, <2>4 DEF Newer, At, Running
    <3>2. \E i \in 1..Len(files) : Holds(i) /\ Len(files) - i <= Newer
      BY <2>4 DEF SafetyInv
    <3>3. PICK i \in 1..Len(list) : job.began \subseteq Known(list[i].content) /\ Len(list) - i <= Newer + 1
      BY <1>6, <2>1, <3>1, <3>2, OneMoreFile
    <3> HIDE DEF list
    <3>4. Len(list) \in Nat /\ Len(list) - i <= 2
      BY <2>3, <3>1, <3>3
    <3>5. i \in 1..Len(list) /\ Len(list) - i < Retain /\ Retain \in Nat \ {0}
      BY <3>3, <3>4
    <3>6. PICK j \in 1..Len(files') : files'[j] = list[i] /\ Len(files') - j = Len(list) - i
      BY <2>1, <2>3, <3>5, NewestOfKeepsEnd
    <3>7. Holds(j)'
      BY <2>1, <3>3, <3>6 DEF Holds, Known
    <3> QED BY <3>1, <3>3, <3>6, <3>7
  <2>5. (writer["job"] # None => job.began \subseteq Known(writer["job"])) /\ (At("backup") => job.began \subseteq Known(db))
    BY DEF SafetyInv
  <2> HIDE DEF list
  <2> QED BY <2>1, <2>4, <2>5 DEF SafetyInv, At, Running, Known
<1>9. ASSUME job' = NoJob, writer'["job"] = None PROVE SafetyInv'
  BY <1>9 DEF SafetyInv, NoJob, At, Running
<1>10. ASSUME WriteFails("timer") PROVE SafetyInv'
  <2> DEFINE f == NewFile(Empty)
  <2>1. /\ writer["timer"] # None /\ files' = Append(files, f) /\ job' = job /\ db' = db
        /\ writer'["timer"] = None /\ writer'["job"] = writer["job"]
    BY <1>10 DEF WriteFails, TypeOK
  <2>2. Running => job.met
    BY <2>1 DEF SafetyInv
  <2>3. f \in Files
    BY <1>6, <2>1
  <2> HIDE DEF f
  <2>4. ASSUME At("stage") \/ At("replace")
        PROVE  \E j \in 1..Len(files') : Holds(j)' /\ Len(files') - j <= Newer'
    <3>1. Newer \in Nat /\ Newer' = Newer + 1
      BY <2>1, <2>2, <2>4 DEF Newer, At, Running
    <3>2. \E i \in 1..Len(files) : Holds(i) /\ Len(files) - i <= Newer
      BY <2>4 DEF SafetyInv
    <3>3. PICK i \in 1..Len(files') : job.began \subseteq Known(files'[i].content) /\ Len(files') - i <= Newer + 1
      BY <2>1, <2>3, <3>1, <3>2, OneMoreFile
    <3>4. Holds(i)'
      BY <2>1, <3>3 DEF Holds, Known
    <3> QED BY <3>1, <3>3, <3>4
  <2>5. (writer["job"] # None => job.began \subseteq Known(writer["job"])) /\ (At("backup") => job.began \subseteq Known(db))
    BY DEF SafetyInv
  <2> QED BY <2>1, <2>4, <2>5 DEF SafetyInv, At, Running, Known
<1>11. ASSUME WriteFails("job") PROVE SafetyInv'
  BY <1>9, <1>11 DEF WriteFails, TypeOK
<1>12. ASSUME Replace \/ Reject PROVE SafetyInv'
  <2>1. job' = NoJob /\ writer' = writer
    BY <1>12 DEF Replace, Reject
  <2>2. writer["job"] = None
    BY <1>12 DEF Replace, Reject, TypeOK, At
  <2> QED BY <1>9, <2>1, <2>2
<1>13. ASSUME NEW kind, NEW name, NEW source, Begin(kind, name, source) PROVE SafetyInv'
  <2>1. /\ At("idle") /\ writer' = writer /\ db' = db
        /\ job'.pc = "backup" /\ job'.began = Known(db) /\ job'.met = (writer["timer"] # None)
    BY <1>13 DEF Begin, NoJob
  <2>2. writer["job"] = None
    BY <2>1 DEF TypeOK, At
  <2>3. Known(db') = Known(db)
    BY <2>1
  <2> QED BY <2>1, <2>2, <2>3 DEF SafetyInv, At, Running, Known
<1>14. ASSUME Stage PROVE SafetyInv'
  <2>1. /\ At("stage") /\ job'.pc = "replace" /\ job'.began = job.began /\ job'.met = job.met
        /\ writer' = writer /\ db' = db
    BY <1>14 DEF Stage, TypeOK, Jobs
  <2>2. Newer \in Nat /\ Newer' = Newer + 1 /\ Len(files) \in Nat
    BY <2>1 DEF Newer, At, TypeOK
  <2>3. \E i \in 1..Len(files) : Holds(i) /\ Len(files) - i <= Newer
    BY <2>1 DEF SafetyInv
  <2>4. \E i \in 1..Len(files') : job.began \subseteq Known(files'[i].content) /\ Len(files') - i <= Newer + 1
    <3>1. CASE files' = files
      <4>1. PICK i \in 1..Len(files) : Holds(i) /\ Len(files) - i <= Newer
        BY <2>3
      <4>2. Len(files) - i <= Newer + 1
        BY <2>2, <4>1
      <4> QED BY <3>1, <4>1, <4>2 DEF Holds
    <3>2. CASE files' = Append(files, [name |-> job.name, content |-> Empty])
      <4>1. [name |-> job.name, content |-> Empty] \in Files
        BY EmptyType DEF Files, TypeOK, Jobs
      <4> QED BY <2>2, <2>3, <3>2, <4>1, OneMoreFile
    <3> QED BY <1>14, <3>1, <3>2 DEF Stage
  <2>5. PICK i \in 1..Len(files') : job.began \subseteq Known(files'[i].content) /\ Len(files') - i <= Newer'
    BY <2>2, <2>4
  <2>6. Holds(i)'
    BY <2>1, <2>5 DEF Holds, Known
  <2>7. writer["job"] = None /\ (writer["timer"] # None => job.met)
    BY <2>1 DEF SafetyInv, TypeOK, At, Running
  <2> QED BY <2>1, <2>5, <2>6, <2>7 DEF SafetyInv, At, Running
<1>15. ASSUME UNCHANGED vars PROVE SafetyInv'
  <2>1. Known(db) \subseteq Known(db')
    BY <1>15 DEF vars
  <2> QED BY <1>15, <2>1, BesideTheJob DEF vars
<1> QED BY <1>1, <1>3, <1>4, <1>5, <1>7, <1>8, <1>10, <1>11, <1>12, <1>13, <1>14, <1>15
        DEF Next, Restore, Import, Sync

-----------------------------------------------------------------------------
(* Theorems.                                                               *)

\* Whatever is restored, imported or synchronised, every secret of the keychain
\* keeps the row that points at it.
THEOREM SecretsAreKept == ASSUME Retain \in Nat \ {0}, Distinct PROVE Spec => []SecretsKeepTheirRow
<1>1. Init => TypeOK /\ SecretsKeepTheirRow
  BY InitType DEF Init, SecretsKeepTheirRow
<1>2. TypeOK /\ SecretsKeepTheirRow /\ [Next]_vars => (TypeOK /\ SecretsKeepTheirRow)'
  BY NextType, NextSecrets
<1> QED BY <1>1, <1>2, PTL DEF Spec

\* When at least three backups are kept, one of them has all that was counted when
\* the job began, until the database has been replaced.
THEOREM BackupBeforeReplacement == ASSUME Retain \in Nat, Retain >= 3 PROVE Spec => []SafetyBackupIsThere
<1>1. Init => TypeOK /\ SafetyInv
  BY InitType DEF Init, SafetyInv, NoJob, At, Running, Writers
<1>2. TypeOK /\ SafetyInv /\ [Next]_vars => (TypeOK /\ SafetyInv)'
  BY NextType, NextSafety
<1>3. TypeOK /\ SafetyInv => SafetyBackupIsThere
  BY DEF SafetyInv, SafetyBackupIsThere, Holds, At, TypeOK
<1> QED BY <1>1, <1>2, <1>3, PTL DEF Spec
=============================================================================
