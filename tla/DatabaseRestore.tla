--------------------------- MODULE DatabaseRestore ---------------------------
(***************************************************************************)
(* Replacing the database by another one (store/backup.rs): a backup that  *)
(* is restored, an SQL file that is imported, a snapshot that is           *)
(* synchronised.  Each makes a safety backup, stages what comes in, and    *)
(* replaces the live database while it holds the connection.  All of it    *)
(* runs under the exclusive side of the lifecycle lock                     *)
(* (secrets/service.rs), so no secret changes meanwhile; but uses are      *)
(* recorded, rows of keys come and go, and the timer makes backups of its  *)
(* own.                                                                    *)
(*                                                                         *)
(* Of a database the model keeps the uses in its details and in its hourly *)
(* totals, and the rows of the named keys.  Backups and exports are        *)
(* redacted: they have the rows without their slots.  Files that an older  *)
(* version has exported are not.                                           *)
(***************************************************************************)
EXTENDS Naturals, Sequences, SequencesExt

CONSTANTS
    Uses, Keys, Slots,
    None, Blank,     \* no row; a row without a secret
    Retain,          \* effective_backup_retain_count
    MaxCopies        \* bound: backups that are made

VARIABLES
    db,        \* the live database
    secrets,   \* the slots of the keychain that hold a secret
    issued,    \* slots that were ever made
    files,     \* *.db in the directory of backups, by the time of their last change
    made,      \* how many have been made: the name of the next
    writer,    \* [Writers -> the snapshot it will write, or None]
    job        \* the holder of the exclusive lock, and its locals

vars == <<db, secrets, issued, files, made, writer, job>>

Writers == {"job", "timer"}
NoRows == [k \in Keys |-> None]
Content(redacted, uses, hourly, keys) ==
    [redacted |-> redacted, uses |-> uses, hourly |-> hourly, keys |-> keys]
\* What is in a file that has only just been created.
Empty == Content(FALSE, {}, {}, NoRows)

\* sanitize_backup_snapshot
Redacted(c) ==
    Content(TRUE, c.uses, c.hourly, [k \in Keys |-> IF c.keys[k] \in Slots THEN Blank ELSE c.keys[k]])

Known(c) == c.uses \cup c.hourly
Names == {files[i].name : i \in DOMAIN files}

\* began, kept: what was counted when the job began, and in the local snapshot.
NoJob == [pc |-> "idle", kind |-> "none", name |-> 0, source |-> Empty, staged |-> Empty,
          kept |-> {}, began |-> {}, met |-> FALSE]
At(place) == job.pc = place

\* The directory may hold backups that were made long ago.
Init ==
    /\ db = Empty /\ secrets = {} /\ issued = {}
    /\ \E n \in {0, Retain} : files = [i \in 1..n |-> [name |-> i, content |-> Redacted(Empty)]]
    /\ made = 0
    /\ writer = [w \in Writers |-> None]
    /\ job = NoJob

-----------------------------------------------------------------------------
(* What goes on beside it.                                                 *)

\* insert_proxy_settlement and the session logs: a detail and its hour.
RecordUse(u) ==
    /\ u \notin Known(db)
    /\ db' = [db EXCEPT !.uses = @ \cup {u}, !.hourly = @ \cup {u}]
    /\ UNCHANGED <<secrets, issued, files, made, writer, job>>

SetRow(k, row) == db' = [db EXCEPT !.keys[k] = row]

\* create_provider_api_key
CreateKey(k) ==
    /\ db.keys[k] = None
    /\ SetRow(k, Blank)
    /\ UNCHANGED <<secrets, issued, files, made, writer, job>>

\* delete_provider_api_key: only a row that owns no secret.
DeleteKey(k) ==
    /\ db.keys[k] = Blank
    /\ SetRow(k, None)
    /\ UNCHANGED <<secrets, issued, files, made, writer, job>>

\* Setting and clearing a secret, which take a share of the lock.
PutSecret(k, s) ==
    /\ At("idle") /\ db.keys[k] # None /\ s \notin issued
    /\ SetRow(k, s)
    /\ secrets' = (secrets \ {db.keys[k]}) \cup {s}
    /\ issued' = issued \cup {s}
    /\ UNCHANGED <<files, made, writer, job>>

ClearSecret(k) ==
    /\ At("idle") /\ db.keys[k] \in Slots
    /\ SetRow(k, Blank)
    /\ secrets' = secrets \ {db.keys[k]}
    /\ UNCHANGED <<issued, files, made, writer, job>>

-----------------------------------------------------------------------------
(* backup_database_file: by a job, by the timer, or by command.            *)

\* Mutant: the newest go.
OldestOf(list) == IF Len(list) <= Retain THEN list ELSE SubSeq(list, 1, Retain)

\* cleanup_db_backups: the newest stay, by the time of their last change.
NewestOf(list) == IF Len(list) <= Retain THEN list ELSE SubSeq(list, Len(list) - Retain + 1, Len(list))

\* sanitized_snapshot_for_backup.  The timer comes once a day, so a job meets it
\* at most once.
TakeSnapshot(w) ==
    /\ writer[w] = None /\ made < MaxCopies
    /\ w = "job" => At("backup")
    /\ w = "timer" => At("idle") \/ ~ job.met
    /\ writer' = [writer EXCEPT ![w] = Redacted(db)]
    /\ job' = [job EXCEPT !.met = @ \/ (w = "timer" /\ ~ At("idle"))]
    /\ UNCHANGED <<db, secrets, issued, files, made>>

NewFile(content) == [name |-> Retain + made + 1, content |-> content]

WriteBackup(w) ==
    /\ writer[w] # None /\ made < MaxCopies
    /\ files' = NewestOf(Append(files, NewFile(writer[w])))
    /\ made' = made + 1
    /\ writer' = [writer EXCEPT ![w] = None]
    /\ job' = IF w = "job" THEN [job EXCEPT !.pc = "stage"] ELSE job
    /\ UNCHANGED <<db, secrets, issued>>

\* The file was created, and that is all; a job ends with it.
WriteFails(w) ==
    /\ writer[w] # None /\ made < MaxCopies
    /\ files' = Append(files, NewFile(Empty))
    /\ made' = made + 1
    /\ writer' = [writer EXCEPT ![w] = None]
    /\ job' = IF w = "job" THEN NoJob ELSE job
    /\ UNCHANGED <<db, secrets, issued>>

-----------------------------------------------------------------------------
(* The three jobs.                                                         *)

Begin(kind, name, source) ==
    /\ At("idle")
    /\ job' = [NoJob EXCEPT !.pc = "backup", !.kind = kind, !.name = name, !.source = source, !.began = Known(db),
                            !.met = writer["timer"] # None]
    /\ UNCHANGED <<db, secrets, issued, files, made, writer>>

\* restore_from_backup: the file exists.
Restore(i) == Begin("restore", files[i].name, files[i].content)

\* import_sql: what this database exported at some time, or another one has.
Import(c) == Begin("import", 0, c)

\* import_sql_string_for_sync: details and rows of keys are never in a snapshot
\* (SYNC_SKIP_TABLES); the hours are of the device that made it.
Sync(redacted, hourly) == Begin("sync", 0, Content(redacted, {}, hourly, NoRows))

Exports == {Redacted(Empty)} \cup {Content(FALSE, {}, {}, keys) : keys \in [Keys -> {None} \cup issued]}

\* The chosen file, which is opened, and thereby created, if it is not there.
Opened ==
    IF job.name \in Names
    THEN (CHOOSE f \in ToSet(files) : f.name = job.name).content
    ELSE Empty

\* restore_tables: SYNC_PRESERVE_TABLES of the local snapshot.
WithLocal(c, local) == [c EXCEPT !.uses = local.uses, !.keys = local.keys]

\* The staged database is migrated and validated before it may replace anything.
Stage ==
    /\ At("stage")
    /\ job' = [job EXCEPT !.pc = "replace",
                          !.kept = IF job.kind = "sync" THEN db.hourly ELSE {},
                          !.source = IF job.kind = "restore" THEN @ ELSE Empty,
                          !.staged = CASE job.kind = "restore" -> Opened
                                       [] job.kind = "import" -> job.source
                                       [] job.kind = "sync" -> WithLocal(job.source, db)]
    /\ files' = IF job.kind = "restore" /\ job.name \notin Names
                THEN Append(files, [name |-> job.name, content |-> Empty]) ELSE files
    /\ UNCHANGED <<db, secrets, issued, made, writer>>

\* rehydrate_local_credentials_for_redacted_backup
Rehydrated(c) == [k \in Keys |-> IF db.keys[k] # None THEN db.keys[k] ELSE c.keys[k]]

Incoming ==
    IF job.staged.redacted
    THEN [job.staged EXCEPT !.redacted = FALSE, !.keys = Rehydrated(job.staged)]
    ELSE job.staged

\* Mutant: nobody looks.
AnythingGoes(c) == TRUE

\* ensure_protected_credentials_preserved: every row of here is in what comes in.
Preserved(c) == \A k \in Keys : db.keys[k] # None => c.keys[k] = db.keys[k]

\* Under the connection's lock.
Replace ==
    /\ At("replace")
    /\ Preserved(Incoming)
    /\ db' = Incoming
    /\ job' = NoJob
    /\ UNCHANGED <<secrets, issued, files, made, writer>>

\* Whatever is wrong with the file, its schema or its credentials ends the job,
\* and so does the end of the process.
Reject ==
    /\ ~ At("idle") /\ writer["job"] = None
    /\ job' = NoJob
    /\ UNCHANGED <<db, secrets, issued, files, made, writer>>

Next ==
    \/ \E u \in Uses : RecordUse(u)
    \/ \E k \in Keys : CreateKey(k) \/ DeleteKey(k) \/ ClearSecret(k) \/ \E s \in Slots : PutSecret(k, s)
    \/ \E w \in Writers : TakeSnapshot(w) \/ WriteBackup(w) \/ WriteFails(w)
    \/ \E i \in DOMAIN files : Restore(i)
    \/ \E c \in Exports : Import(c)
    \/ \E redacted \in BOOLEAN, hourly \in {{}, db.hourly} : Sync(redacted, hourly)
    \/ Stage \/ Replace \/ Reject

Spec == Init /\ [][Next]_vars

-----------------------------------------------------------------------------
(* Properties.                                                             *)

\* A secret of the keychain has the row that points at it, whatever is restored,
\* imported or synchronised: the keychain cannot be enumerated, so a secret that
\* has lost its row is lost (service.rs:1411, backup.rs:672).
SecretsKeepTheirRow == \A s \in secrets : \E k \in Keys : db.keys[k] = s

\* Before the database is replaced, some backup has all that was counted in it
\* when the job began, whatever other backups are made and removed meanwhile.
SafetyBackupIsThere ==
    job.pc \in {"stage", "replace"} =>
        \E i \in DOMAIN files : job.began \subseteq Known(files[i].content)

\* "Restore the database from a selected backup": what is staged is what was
\* selected (docs/user-manual/en/1-getting-started/1.5-settings.md:216).
RestoredIsChosen ==
    job.kind = "restore" /\ At("replace") => job.staged = job.source

\* "Device-local usage history is restored after sync imports" (backup.rs:139):
\* the hours that the local snapshot counted are counted afterwards.
HistorySurvivesSync == [][job.kind = "sync" /\ Replace => job.kept \subseteq db'.hourly]_vars
=============================================================================
