--------------------------- MODULE CloudSnapshot ---------------------------
(***************************************************************************)
(* Several devices share one remote directory (sync/webdav_sync.rs,        *)
(* sync/s3_sync.rs, sync/sync_protocol.rs): an upload puts the exported    *)
(* database, the packed skills and then a manifest with their hashes; a    *)
(* download takes the manifest and the two artifacts, and applies them     *)
(* when their hashes are those of the manifest.  On a device one of these  *)
(* runs at a time (sync_mutex); nothing keeps two devices apart.           *)
(*                                                                         *)
(* The content of a database or of the skills is a number, a hash is the   *)
(* content.  Left out: the layout of older versions, sizes, what an import *)
(* keeps of the local database, a death while files are being copied.      *)
(***************************************************************************)
EXTENDS Naturals, FiniteSets

CONSTANTS
    Devices,
    None,
    MaxEdits,   \* bound: changes of databases and skills
    MaxCalls    \* bound: uploads and downloads of a device

VARIABLES
    local,      \* [Devices -> [db, skills]]
    remote,     \* the files: db.sql, skills.zip, manifest.json
    op,         \* [Devices -> the upload or download under way]
    calls,      \* [Devices -> how many there have been]
    edits,      \* the newest content
    \* what the properties remember
    made,       \* [Devices -> contents that were made there]
    built,      \* the pairs that were ever made into a snapshot
    applied,    \* [Devices -> the pair of the last download that succeeded, or None]
    torn        \* devices that died, or could not put the skills back, in mid-application

remembered == <<made, built, applied, torn>>
vars == <<local, remote, op, calls, edits, made, built, applied, torn>>

Part == {"db", "skills"}
Idle == [pc |-> "idle", db |-> None, skills |-> None, manifest |-> None, backup |-> None]

Init ==
    /\ local = [d \in Devices |-> [db |-> 0, skills |-> 0]]
    /\ remote = [db |-> None, skills |-> None, manifest |-> None]
    /\ op = [d \in Devices |-> Idle]
    /\ calls = [d \in Devices |-> 0]
    /\ edits = 0
    /\ made = [d \in Devices |-> {0}] /\ built = {}
    /\ applied = [d \in Devices |-> None] /\ torn = {}

At(d, place) == op[d].pc = place
Goto(d, place) == op' = [op EXCEPT ![d].pc = place]
Return(d) == op' = [op EXCEPT ![d] = Idle]
Pair(d) == [db |-> op[d].db, skills |-> op[d].skills]

Begin(d, place) ==
    /\ At(d, "idle") /\ calls[d] < MaxCalls
    /\ Goto(d, place) /\ calls' = [calls EXCEPT ![d] = @ + 1]
    /\ UNCHANGED <<local, remote, edits, remembered>>

\* An error returned by any step before a download changes something, or a death.
Fails(d) ==
    /\ op[d].pc \notin {"idle", "import", "undo"}
    /\ Return(d)
    /\ UNCHANGED <<local, remote, calls, edits, remembered>>

Edit(d, part) ==
    /\ edits < MaxEdits /\ edits' = edits + 1
    /\ local' = [local EXCEPT ![d][part] = edits']
    /\ made' = [made EXCEPT ![d] = @ \cup {edits'}]
    /\ UNCHANGED <<remote, op, calls, built, applied, torn>>

-----------------------------------------------------------------------------
(* upload.                                                                 *)

\* build_local_snapshot: the database is exported, then the skills are packed.
Export(d) ==
    /\ At(d, "export")
    /\ op' = [op EXCEPT ![d].pc = "pack", ![d].db = local[d].db]
    /\ UNCHANGED <<local, remote, calls, edits, remembered>>

Pack(d) ==
    /\ At(d, "pack")
    /\ op' = [op EXCEPT ![d].pc = "putDb", ![d].skills = local[d].skills]
    /\ built' = built \cup {[db |-> op[d].db, skills |-> local[d].skills]}
    /\ UNCHANGED <<local, remote, calls, edits, made, applied, torn>>

\* A request may fail after it has done its work.
Put(d, name, content, next) ==
    /\ remote' = [remote EXCEPT ![name] = content]
    /\ Goto(d, next) \/ Return(d)
    /\ UNCHANGED <<local, calls, edits, remembered>>

PutDb(d) == At(d, "putDb") /\ Put(d, "db", op[d].db, "putSkills")
PutSkills(d) == At(d, "putSkills") /\ Put(d, "skills", op[d].skills, "putManifest")

PutManifest(d) ==
    /\ At(d, "putManifest")
    /\ remote' = [remote EXCEPT !.manifest = Pair(d)]
    /\ Return(d)
    /\ UNCHANGED <<local, calls, edits, remembered>>

-----------------------------------------------------------------------------
(* download.                                                               *)

\* Mutant: only that the file exists is looked at.
VerifiedIfThere(d, part) == remote[part] # None

\* verify_artifact
Verified(d, part) == remote[part] = op[d].manifest[part]

GetManifest(d) ==
    /\ At(d, "getManifest") /\ remote.manifest # None
    /\ op' = [op EXCEPT ![d].pc = "getDb", ![d].manifest = remote.manifest]
    /\ UNCHANGED <<local, remote, calls, edits, remembered>>

Get(d, part, next) ==
    /\ Verified(d, part)
    /\ op' = [op EXCEPT ![d].pc = next, ![d][part] = remote[part]]
    /\ UNCHANGED <<local, remote, calls, edits, remembered>>

GetDb(d) == At(d, "getDb") /\ Get(d, "db", "getSkills")
GetSkills(d) == At(d, "getSkills") /\ Get(d, "skills", "apply")

\* apply_snapshot: the skills are copied away and replaced, ...
ReplaceSkills(d) ==
    /\ At(d, "apply")
    /\ local' = [local EXCEPT ![d].skills = op[d].skills]
    /\ op' = [op EXCEPT ![d].pc = "import", ![d].backup = local[d].skills]
    /\ UNCHANGED <<remote, calls, edits, remembered>>

\* ... then the database is imported, in one transaction.
Import(d) ==
    /\ At(d, "import")
    /\ local' = [local EXCEPT ![d].db = op[d].db]
    /\ applied' = [applied EXCEPT ![d] = Pair(d)]
    /\ Return(d)
    /\ UNCHANGED <<remote, calls, edits, made, built, torn>>

\* Mutant: the error of the import is returned at once.
ImportFailsPlainly(d) ==
    /\ At(d, "import")
    /\ Return(d)
    /\ UNCHANGED <<local, remote, calls, edits, remembered>>

ImportFails(d) ==
    /\ At(d, "import")
    /\ Goto(d, "undo")
    /\ UNCHANGED <<local, remote, calls, edits, remembered>>

\* restore_skills_from_backup
Undo(d) ==
    /\ At(d, "undo")
    /\ local' = [local EXCEPT ![d].skills = op[d].backup]
    /\ Return(d)
    /\ UNCHANGED <<remote, calls, edits, remembered>>

\* A death, or a second error.
Tears(d) ==
    /\ At(d, "import") \/ At(d, "undo")
    /\ Return(d) /\ torn' = torn \cup {d}
    /\ UNCHANGED <<local, remote, calls, edits, made, built, applied>>

Download(d) ==
    \/ GetManifest(d) \/ GetDb(d) \/ GetSkills(d)
    \/ ReplaceSkills(d) \/ Import(d) \/ ImportFails(d) \/ Undo(d) \/ Tears(d)

Upload(d) == Export(d) \/ Pack(d) \/ PutDb(d) \/ PutSkills(d) \/ PutManifest(d)

Next ==
    \E d \in Devices :
        \/ \E place \in {"export", "getManifest"} : Begin(d, place)
        \/ Upload(d) \/ Download(d) \/ Fails(d)
        \/ \E part \in Part : Edit(d, part)

Spec == Init /\ [][Next]_vars

-----------------------------------------------------------------------------
(* Properties.                                                             *)

\* Whatever two devices put over each other, a download applies a database and
\* skills that were one snapshot of one device.
AppliedIsWhole == \A d \in Devices : applied[d] \in built \cup {None}

\* A device has its own contents or those of the last download that succeeded: a
\* failed one leaves nothing behind, unless the device died while it applied it or
\* could not put the skills back either.
NothingHalfApplied ==
    \A d \in Devices \ torn, part \in Part : At(d, "idle") =>
        local[d][part] \in made[d] \cup {p[part] : p \in {applied[d]} \ {None}}
=============================================================================
