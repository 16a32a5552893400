------------------------ MODULE ProviderCredentials ------------------------
(***************************************************************************)
(* The secret of a named Provider key lives in the OS keychain; the row    *)
(* that owns it (version, slot, fingerprint) lives in SQLite.  No          *)
(* transaction spans the two, so every mutation runs a protocol            *)
(* (secrets/service.rs) against a journal table                            *)
(* (store/dao/provider_credentials.rs):                                    *)
(*                                                                         *)
(*    reserve a pending journal row -> put the secret in a new slot        *)
(*    -> publish slot and version in the key row -> delete the old slot    *)
(*    -> remove the journal row                                            *)
(*                                                                         *)
(* and a reconciliation, run under the exclusive side of the lifecycle     *)
(* lock, finishes or undoes what a failure, a cancelled task or a crash    *)
(* left behind.  The keychain cannot be enumerated (its interface is put,  *)
(* get, delete), so a slot nobody names any more is lost for good.         *)
(*                                                                         *)
(* One identifier stands for the operation id and for the staging slot it  *)
(* is journalled with.  A fingerprint is the secret it is the hash of.     *)
(***************************************************************************)
EXTENDS Naturals, FiniteSets

CONSTANTS
    Keys,        \* named keys that may be created
    Uuids,       \* operation ids / slots that may be issued: bounds the mutations
    Secrets,     \* secret values
    Procs,       \* concurrent commands: set, replace, clear, delete
    Reconciler,  \* the holder of the exclusive lifecycle lock
    Readers,     \* concurrent resolutions of a secret: test, models, usage
    None,
    MaxCrashes   \* bound on process deaths

ASSUME ReconcilerAssumption == Reconciler \notin Procs
ASSUME NoneAssumption == None \notin Keys \cup Uuids \cup Secrets
ASSUME MaxCrashesAssumption == MaxCrashes \in Nat
ASSUME UuidsAssumption == IsFiniteSet(Uuids)

VARIABLES
    \* SQLite, durable
    keyRow,      \* [Keys -> the row of provider_api_keys]
    journal,     \* [Uuids -> the row of provider_credential_operations]
    usage,       \* [Keys -> the row of provider_key_usage_snapshots]
    \* OS keychain, durable
    store,       \* [Uuids -> secret held in that slot, or None]
    issued,      \* [Uuids -> the key whose slot name this is, or None]
    \* the process, lost in a crash
    detached,    \* blocking keychain calls whose caller was cancelled
    pc,          \* [Actors -> next step]
    req,         \* [Actors -> the command's arguments and reservation]
    pass,        \* the reconciler's pass over the journal
    reader,      \* [Readers -> a resolution in progress]
    crashes

dbVars == <<keyRow, journal, usage>>
actorVars == <<pc, req, pass>>
vars == <<keyRow, journal, usage, store, issued, detached, pc, req, pass, reader, crashes>>

Actors == Procs \cup {Reconciler}
Kinds == {"set", "replace", "clear"}
Commands == {"mutate", "delete"}

NoRow == [status |-> "none", key |-> None, gen |-> 0, kind |-> "none", previous |-> None]
Request(kind, command, k, version, secret) ==
    [kind |-> kind, command |-> command, key |-> k, expected |-> version, op |-> None,
     previous |-> None, previousFp |-> None, secret |-> secret]
NoReq == Request("none", "none", None, 0, None)
NoUsage == [version |-> 0, secret |-> None]
NoPass == [todo |-> {}, before |-> 0]
NoRead == [pc |-> "idle", key |-> None, version |-> 0, slot |-> None, fp |-> None, secret |-> None]

-----------------------------------------------------------------------------
(* The state of the two stores.                                            *)

KeyRows == [state : {"new", "live", "gone"}, version : Nat,
            slot : Uuids \cup {None}, fp : Secrets \cup {None}]

JournalRows == [status : {"none", "pending", "committed", "cleanup"}, key : Keys \cup {None},
                gen : Nat, kind : Kinds \cup {"none"}, previous : Uuids \cup {None}]

Requests == [kind : Kinds \cup {"none"}, command : Commands \cup {"none"},
             key : Keys \cup {None}, expected : Nat, op : Uuids \cup {None}, previous : Uuids \cup {None},
             previousFp : Secrets \cup {None}, secret : Secrets \cup {None}]

Readings == [pc : {"idle", "get", "recheck", "resolved"}, key : Keys \cup {None},
             version : Nat, slot : Uuids \cup {None},
             fp : Secrets \cup {None}, secret : Secrets \cup {None}]

\* in use: by the row of some key
Active(slot) == slot # None /\ \E k \in Keys : keyRow[k].slot = slot

\* Mutant: a clear is journalled with a staging slot too.
StagingAlways(u, kind) == u

\* The slot an operation stages its secret in; a clear stages nothing.
Staging(u, kind) == IF kind = "clear" THEN None ELSE u

Entries == {u \in Uuids : journal[u].status # "none"}
Fresh == {u \in Uuids : issued[u] = None}

Init ==
    /\ keyRow = [k \in Keys |-> [state |-> "new", version |-> 0, slot |-> None, fp |-> None]]
    /\ journal = [u \in Uuids |-> NoRow]
    /\ usage = [k \in Keys |-> NoUsage]
    /\ store = [u \in Uuids |-> None]
    /\ issued = [u \in Uuids |-> None]
    /\ detached = {}
    /\ pc = [a \in Actors |-> "idle"]
    /\ req = [a \in Actors |-> NoReq]
    /\ pass = NoPass
    /\ reader = [r \in Readers |-> NoRead]
    /\ crashes = 0

-----------------------------------------------------------------------------
(* Control flow shared by the commands and the reconciler.                 *)

Goto(a, label) ==
    /\ pc' = [pc EXCEPT ![a] = label]
    /\ UNCHANGED <<req, pass>>

\* The operation is over: a command returns and releases its share of the
\* lifecycle lock, the reconciler takes the next entry.
Return(a) ==
    /\ pc' = [pc EXCEPT ![a] = IF a = Reconciler THEN "pass" ELSE "idle"]
    /\ req' = [req EXCEPT ![a] = NoReq]
    /\ UNCHANGED pass

\* A published operation returns whether or not its cleanup succeeded; the
\* delete command goes on to the key row.
ReturnPublished(a) ==
    IF req[a].command = "delete"
    THEN /\ pc' = [pc EXCEPT ![a] = "view"]
         /\ req' = [req EXCEPT ![a] = Request("none", "delete", req[a].key, 0, None)]
         /\ UNCHANGED pass
    ELSE Return(a)

\* The future of a is dropped at an await.
Dropped(a) ==
    /\ pc' = [pc EXCEPT ![a] = "idle"]
    /\ req' = [req EXCEPT ![a] = NoReq]
    /\ pass' = IF a = Reconciler THEN NoPass ELSE pass

\* Mutant: a cancelled put has lost its guard.
PutsInFlightUnguarded == {}

\* Commands hold the lifecycle lock shared from Begin until they return; a
\* blocking put keeps the guard of its command even when the command is gone.
Sharers == {p \in Procs : pc[p] \notin {"idle", "deleteRow"}}
PutsInFlight == {d \in detached : d.io = "put"}

-----------------------------------------------------------------------------
(* The commands.                                                           *)

CreateKey(k) ==
    /\ keyRow[k].state = "new"
    /\ keyRow' = [keyRow EXCEPT ![k].state = "live"]
    /\ UNCHANGED <<journal, usage, store, issued, detached, actorVars, reader, crashes>>

\* A caller that saw key k at its current version asks for a mutation and is
\* granted its share of the lifecycle lock.  Deleting a key that owns a
\* secret clears it first.
Begin(p, k, kind, secret, command) ==
    /\ pc[p] = "idle"
    /\ pc[Reconciler] = "idle"
    /\ Fresh # {}
    /\ keyRow[k].state = "live"
    /\ kind = "clear" <=> secret = None
    /\ command = "delete" => kind = "clear" /\ keyRow[k].fp # None
    /\ pc' = [pc EXCEPT ![p] = "reserve"]
    /\ req' = [req EXCEPT ![p] = Request(kind, command, k, keyRow[k].version, secret)]
    /\ UNCHANGED <<dbVars, store, issued, detached, pass, reader, crashes>>

\* Deleting a key that owns no secret takes no lock.
BeginDelete(p, k) ==
    /\ pc[p] = "idle"
    /\ keyRow[k].state = "live"
    /\ keyRow[k].fp = None
    /\ pc' = [pc EXCEPT ![p] = "deleteRow"]
    /\ req' = [req EXCEPT ![p] = Request("none", "delete", k, keyRow[k].version, None)]
    /\ UNCHANGED <<dbVars, store, issued, detached, pass, reader, crashes>>

\* The version, kind and uniqueness conditions under which the journal
\* accepts a pending row.
MayReserve(p) ==
    LET row == keyRow[req[p].key] IN
    /\ row.state = "live"
    /\ row.version = req[p].expected
    /\ req[p].kind = "set" => row.fp = None
    /\ req[p].kind = "replace" => row.fp \notin {None, req[p].secret}
    /\ req[p].kind = "clear" => row.fp # None
    /\ \A u \in Entries : journal[u].key = req[p].key =>
         journal[u].status # "pending" /\ journal[u].gen # req[p].expected + 1

Reserve(p) ==
    /\ pc[p] = "reserve"
    /\ MayReserve(p)
    /\ \E u \in Fresh :
         LET k == req[p].key IN
         /\ issued' = [issued EXCEPT ![u] = k]
         /\ journal' = [journal EXCEPT ![u] =
                          [status |-> "pending", key |-> k, gen |-> req[p].expected + 1,
                           kind |-> req[p].kind, previous |-> keyRow[k].slot]]
         /\ req' = [req EXCEPT ![p].op = u, ![p].previous = keyRow[k].slot,
                               ![p].previousFp = keyRow[k].fp]
         /\ pc' = [pc EXCEPT ![p] = IF req[p].kind = "clear" THEN "publish" ELSE "put"]
    /\ UNCHANGED <<keyRow, usage, store, detached, pass, reader, crashes>>

\* Refused, or the database failed: nothing was written.
ReserveFails(p) ==
    /\ pc[p] = "reserve"
    /\ Return(p)
    /\ UNCHANGED <<dbVars, store, issued, detached, reader, crashes>>

Put(p) ==
    /\ pc[p] = "put"
    /\ store' = [store EXCEPT ![req[p].op] = req[p].secret]
    /\ Goto(p, "publish")
    /\ UNCHANGED <<dbVars, issued, detached, reader, crashes>>

\* Mutant: the result of the put is not looked at.
PutFailsUnnoticed(p) ==
    /\ pc[p] = "put"
    /\ \/ store' = [store EXCEPT ![req[p].op] = req[p].secret]
       \/ UNCHANGED store
    /\ Goto(p, "publish")
    /\ UNCHANGED <<dbVars, issued, detached, reader, crashes>>

\* The keychain reports a failure: the item may have been written or not.
PutFails(p) ==
    /\ pc[p] = "put"
    /\ \/ store' = [store EXCEPT ![req[p].op] = req[p].secret]
       \/ UNCHANGED store
    /\ Goto(p, "claim")
    /\ UNCHANGED <<dbVars, issued, detached, reader, crashes>>

\* The command is cancelled while the put runs on the blocking pool: the put
\* goes on, and so does the share of the lock it was given.
PutCancelled(p) ==
    /\ pc[p] = "put"
    /\ detached' = detached \cup {[io |-> "put", slot |-> req[p].op, secret |-> req[p].secret]}
    /\ Dropped(p)
    /\ UNCHANGED <<dbVars, store, issued, reader, crashes>>

\* The compare-and-swap of the publication: version, old slot and old
\* fingerprint of the key row, the pending journal row, and the unique index
\* on fingerprints.
MayPublish(p) ==
    LET r == req[p]
        row == keyRow[r.key]
    IN /\ row.state = "live"
       /\ row.version = r.expected
       /\ row.slot = r.previous
       /\ row.fp = r.previousFp
       /\ journal[r.op].status = "pending"
       /\ r.secret # None => \A k \in Keys \ {r.key} : keyRow[k].fp # r.secret

Publish(p) ==
    /\ pc[p] = "publish"
    /\ MayPublish(p)
    /\ LET r == req[p] IN
       /\ keyRow' = [keyRow EXCEPT ![r.key] =
                       [state |-> "live", version |-> r.expected + 1,
                        slot |-> Staging(r.op, r.kind), fp |-> r.secret]]
       /\ usage' = [usage EXCEPT ![r.key] = NoUsage]
       /\ journal' = [journal EXCEPT ![r.op].status =
                        IF r.previous = None THEN "committed" ELSE "cleanup"]
       /\ Goto(p, IF r.previous = None THEN "finish" ELSE "checkPrevious")
    /\ UNCHANGED <<store, issued, detached, reader, crashes>>

\* A conflict, or the database failed and rolled back.
PublishFails(p) ==
    /\ pc[p] = "publish"
    /\ Goto(p, IF req[p].kind = "clear" THEN "dropPending" ELSE "claim")
    /\ UNCHANGED <<dbVars, store, issued, detached, reader, crashes>>

\* The delete command reads the version its clear has reached and gives the
\* lock back before it touches the row.
View(p) ==
    /\ pc[p] = "view"
    /\ IF keyRow[req[p].key].state = "live"
       THEN /\ pc' = [pc EXCEPT ![p] = "deleteRow"]
            /\ req' = [req EXCEPT ![p].expected = keyRow[req[p].key].version]
            /\ UNCHANGED pass
       ELSE Return(p)
    /\ UNCHANGED <<dbVars, store, issued, detached, reader, crashes>>

ViewFails(p) ==
    /\ pc[p] = "view"
    /\ Return(p)
    /\ UNCHANGED <<dbVars, store, issued, detached, reader, crashes>>

\* Mutant: the journal is not consulted.
MayDeleteRowUnchecked(p) ==
    LET row == keyRow[req[p].key] IN
    /\ row.state = "live"
    /\ row.version = req[p].expected
    /\ row.fp = None
    /\ row.slot = None

\* The row goes only when no journal row names the key and it owns no secret;
\* its usage snapshot goes with it.
MayDeleteRow(p) ==
    LET row == keyRow[req[p].key] IN
    /\ row.state = "live"
    /\ \A u \in Entries : journal[u].key # req[p].key
    /\ row.version = req[p].expected
    /\ row.fp = None
    /\ row.slot = None

DeleteRow(p) ==
    /\ pc[p] = "deleteRow"
    /\ MayDeleteRow(p)
    /\ keyRow' = [keyRow EXCEPT ![req[p].key] =
                    [state |-> "gone", version |-> 0, slot |-> None, fp |-> None]]
    /\ usage' = [usage EXCEPT ![req[p].key] = NoUsage]
    /\ Return(p)
    /\ UNCHANGED <<journal, store, issued, detached, reader, crashes>>

DeleteRowFails(p) ==
    /\ pc[p] = "deleteRow"
    /\ Return(p)
    /\ UNCHANGED <<dbVars, store, issued, detached, reader, crashes>>

-----------------------------------------------------------------------------
(* Cleanup steps.  A command runs them on its own operation, the reconciler *)
(* on a journal entry it has loaded.                                       *)

CheckPrevious(a) ==
    /\ pc[a] = "checkPrevious"
    /\ IF Active(req[a].previous) THEN ReturnPublished(a) ELSE Goto(a, "deletePrevious")
    /\ UNCHANGED <<dbVars, store, issued, detached, reader, crashes>>

\* The slot a deletion in progress is aimed at.
Target(a) == IF pc[a] = "deletePrevious" THEN req[a].previous ELSE req[a].op

DeleteSlot(a) ==
    /\ pc[a] \in {"deletePrevious", "deleteStaging"}
    /\ store' = [store EXCEPT ![Target(a)] = None]
    /\ Goto(a, IF pc[a] = "deletePrevious" THEN "finish" ELSE "finishClaim")
    /\ UNCHANGED <<dbVars, issued, detached, reader, crashes>>

\* The keychain reports a failure: the item may be gone or not, and the
\* journal row is kept.
DeleteSlotFails(a) ==
    /\ pc[a] \in {"deletePrevious", "deleteStaging"}
    /\ \/ store' = [store EXCEPT ![Target(a)] = None]
       \/ UNCHANGED store
    /\ IF pc[a] = "deletePrevious" THEN ReturnPublished(a) ELSE Return(a)
    /\ UNCHANGED <<dbVars, issued, detached, reader, crashes>>

\* Unlike a put, a delete left behind by a cancelled caller holds no guard.
DeleteSlotCancelled(a) ==
    /\ pc[a] \in {"deletePrevious", "deleteStaging"}
    /\ detached' = detached \cup {[io |-> "delete", slot |-> Target(a), secret |-> None]}
    /\ Dropped(a)
    /\ UNCHANGED <<dbVars, store, issued, reader, crashes>>

\* Mutant: an operation that replaced nothing is not recognised as finished.
FinishCleanupOnly(a) ==
    /\ pc[a] = "finish"
    /\ IF ~ Active(req[a].previous) /\ journal[req[a].op].status = "cleanup"
       THEN journal' = [journal EXCEPT ![req[a].op] = NoRow]
       ELSE UNCHANGED journal
    /\ ReturnPublished(a)
    /\ UNCHANGED <<keyRow, usage, store, issued, detached, reader, crashes>>

Finish(a) ==
    /\ pc[a] = "finish"
    /\ IF ~ Active(req[a].previous) /\ journal[req[a].op].status \in {"committed", "cleanup"}
       THEN journal' = [journal EXCEPT ![req[a].op] = NoRow]
       ELSE UNCHANGED journal
    /\ ReturnPublished(a)
    /\ UNCHANGED <<keyRow, usage, store, issued, detached, reader, crashes>>

\* From here on the staged secret may only be deleted: the journal row points
\* the cleanup at the staging slot.
MayClaim(a) ==
    LET row == journal[req[a].op] IN
    /\ row.status = "pending"
    /\ row.key = req[a].key
    /\ row.gen = req[a].expected + 1
    /\ ~ Active(req[a].op)

\* Mutant: the claimed row keeps naming the slot the operation would have replaced.
ClaimKeepsPrevious(a) ==
    /\ pc[a] = "claim"
    /\ IF MayClaim(a)
       THEN /\ journal' = [journal EXCEPT ![req[a].op].status = "cleanup"]
            /\ Goto(a, "recheck")
       ELSE UNCHANGED journal /\ Return(a)
    /\ UNCHANGED <<keyRow, usage, store, issued, detached, reader, crashes>>

Claim(a) ==
    /\ pc[a] = "claim"
    /\ IF MayClaim(a)
       THEN /\ journal' = [journal EXCEPT ![req[a].op].status = "cleanup",
                                          ![req[a].op].previous = req[a].op]
            /\ Goto(a, "recheck")
       ELSE UNCHANGED journal /\ Return(a)
    /\ UNCHANGED <<keyRow, usage, store, issued, detached, reader, crashes>>

Recheck(a) ==
    /\ pc[a] = "recheck"
    /\ IF Active(req[a].op) THEN Return(a) ELSE Goto(a, "deleteStaging")
    /\ UNCHANGED <<dbVars, store, issued, detached, reader, crashes>>

FinishClaim(a) ==
    /\ pc[a] = "finishClaim"
    /\ LET row == journal[req[a].op] IN
       IF row.status = "cleanup" /\ row.previous = req[a].op /\ ~ Active(req[a].op)
       THEN journal' = [journal EXCEPT ![req[a].op] = NoRow]
       ELSE UNCHANGED journal
    /\ Return(a)
    /\ UNCHANGED <<keyRow, usage, store, issued, detached, reader, crashes>>

\* An unpublished clear staged nothing: its pending row is removed.
DropPending(a) ==
    /\ pc[a] = "dropPending"
    /\ LET row == journal[req[a].op]
           key == keyRow[req[a].key]
       IN IF /\ row.status = "pending"
             /\ ~ (key.version = row.gen /\ key.slot = None /\ key.fp = None)
          THEN journal' = [journal EXCEPT ![req[a].op] = NoRow]
          ELSE UNCHANGED journal
    /\ Return(a)
    /\ UNCHANGED <<keyRow, usage, store, issued, detached, reader, crashes>>

\* A database call of the cleanup fails; what it would have written is left
\* to the reconciler.
CleanupDatabaseFails(a) ==
    /\ \/ pc[a] \in {"checkPrevious", "finish"} /\ ReturnPublished(a)
       \/ pc[a] \in {"claim", "recheck", "finishClaim", "dropPending"} /\ Return(a)
    /\ UNCHANGED <<dbVars, store, issued, detached, reader, crashes>>

\* A keychain call nobody waits for any more comes to its end.
DetachedEnds(d) ==
    /\ d \in detached
    /\ detached' = detached \ {d}
    /\ \/ store' = [store EXCEPT ![d.slot] = d.secret]
       \/ UNCHANGED store
    /\ UNCHANGED <<dbVars, issued, actorVars, reader, crashes>>

-----------------------------------------------------------------------------
(* The reconciler.  Only it changes the journal while it holds the         *)
(* exclusive lock, so the rows it listed at the start of a pass are still  *)
(* the rows of the table when it reaches them.                             *)

BeginReconcile ==
    /\ pc[Reconciler] = "idle"
    /\ Sharers = {}
    /\ PutsInFlight = {}
    /\ Entries # {}
    /\ pass' = [todo |-> Entries, before |-> Cardinality(Entries)]
    /\ pc' = [pc EXCEPT ![Reconciler] = "pass"]
    /\ UNCHANGED <<dbVars, store, issued, detached, req, reader, crashes>>

\* The key row shows the operation's own version and slot: it was published
\* although its journal row still says pending.
PublishedAlready(u) ==
    LET row == keyRow[journal[u].key] IN
    /\ row.version = journal[u].gen
    /\ row.slot = Staging(u, journal[u].kind)
    /\ row.fp = None <=> journal[u].kind = "clear"

\* What the reconciler does with entry u, given the status it goes by.
EntryStep(u, status) ==
    CASE status = "pending" /\ journal[u].kind = "clear" -> "dropPending"
      [] status = "pending" /\ journal[u].kind # "clear" -> "claim"
      [] status = "cleanup" /\ journal[u].previous # None -> "checkPrevious"
      [] OTHER -> "finish"

ReconcileEntry(u) ==
    /\ pc[Reconciler] = "pass"
    /\ u \in pass.todo
    /\ LET row == journal[u]
           promoted == row.status = "pending" /\ PublishedAlready(u)
           status == IF ~ promoted THEN row.status
                     ELSE IF row.previous = None THEN "committed" ELSE "cleanup"
       IN /\ journal' = [journal EXCEPT ![u].status = status]
          /\ req' = [req EXCEPT ![Reconciler] =
                       [kind |-> row.kind, command |-> "none", key |-> row.key,
                        expected |-> row.gen - 1, op |-> u, previous |-> row.previous,
                        previousFp |-> None, secret |-> None]]
          /\ pc' = [pc EXCEPT ![Reconciler] = EntryStep(u, status)]
    /\ pass' = [pass EXCEPT !.todo = @ \ {u}]
    /\ UNCHANGED <<keyRow, usage, store, issued, detached, reader, crashes>>

\* Mutant: passes go on until the journal is empty.
EndPassUntilEmpty ==
    /\ pc[Reconciler] = "pass"
    /\ pass.todo = {}
    /\ IF Entries = {}
       THEN Dropped(Reconciler)
       ELSE /\ pass' = [todo |-> Entries, before |-> Cardinality(Entries)]
            /\ UNCHANGED <<pc, req>>
    /\ UNCHANGED <<dbVars, store, issued, detached, reader, crashes>>

\* A pass that removed something is followed by another one, a pass that
\* removed nothing ends the reconciliation.  (The limit on passes in the code
\* is one more than the number of rows, which this test never reaches.)
EndPass ==
    /\ pc[Reconciler] = "pass"
    /\ pass.todo = {}
    /\ IF Entries = {} \/ Cardinality(Entries) >= pass.before
       THEN Dropped(Reconciler)
       ELSE /\ pass' = [todo |-> Entries, before |-> Cardinality(Entries)]
            /\ UNCHANGED <<pc, req>>
    /\ UNCHANGED <<dbVars, store, issued, detached, reader, crashes>>

\* Listing the journal fails, or reading the row of the next entry does.
ReconcileStops ==
    /\ pc[Reconciler] = "pass"
    /\ Dropped(Reconciler)
    /\ UNCHANGED <<dbVars, store, issued, detached, reader, crashes>>

-----------------------------------------------------------------------------
(* Resolution of a secret, and the usage report obtained with it.          *)

ResolveStart(r, k) ==
    /\ reader[r].pc = "idle"
    /\ keyRow[k].state = "live"
    /\ keyRow[k].fp # None
    /\ reader' = [reader EXCEPT ![r] =
                    [pc |-> "get", key |-> k, version |-> keyRow[k].version,
                     slot |-> keyRow[k].slot, fp |-> keyRow[k].fp, secret |-> None]]
    /\ UNCHANGED <<dbVars, store, issued, detached, actorVars, crashes>>

\* The keychain item must hash to the fingerprint of the row.
ResolveGet(r) ==
    /\ reader[r].pc = "get"
    /\ store[reader[r].slot] = reader[r].fp
    /\ reader' = [reader EXCEPT ![r].pc = "recheck", ![r].secret = store[reader[r].slot]]
    /\ UNCHANGED <<dbVars, store, issued, detached, actorVars, crashes>>

\* Mutant: only the existence of the key is looked up again.
UnmovedUnchecked(r) == keyRow[reader[r].key].state = "live"

Unmoved(r) ==
    LET row == keyRow[reader[r].key] IN
    /\ row.state = "live"
    /\ row.version = reader[r].version
    /\ row.slot = reader[r].slot
    /\ row.fp = reader[r].fp

ResolveRecheck(r) ==
    /\ reader[r].pc = "recheck"
    /\ Unmoved(r)
    /\ reader' = [reader EXCEPT ![r].pc = "resolved"]
    /\ UNCHANGED <<dbVars, store, issued, detached, actorVars, crashes>>

\* Mutant: the report is stored for whatever credential the key has by now.
MayStoreUsageUnversioned(r) == keyRow[reader[r].key].state = "live"

\* The Provider answered the request made with the secret: its usage figures
\* are kept if the key is still at the version that was resolved.
MayStoreUsage(r) ==
    LET row == keyRow[reader[r].key] IN
    row.state = "live" /\ row.version = reader[r].version

StoreUsage(r) ==
    /\ reader[r].pc = "resolved"
    /\ MayStoreUsage(r)
    /\ usage' = [usage EXCEPT ![reader[r].key] =
                   [version |-> reader[r].version, secret |-> reader[r].secret]]
    /\ reader' = [reader EXCEPT ![r] = NoRead]
    /\ UNCHANGED <<keyRow, journal, store, issued, detached, actorVars, crashes>>

\* A conflict, an unavailable or changed item, a failed request, or a use of
\* the secret that stores nothing.
ReadEnds(r) ==
    /\ reader[r].pc # "idle"
    /\ reader' = [reader EXCEPT ![r] = NoRead]
    /\ UNCHANGED <<dbVars, store, issued, detached, actorVars, crashes>>

-----------------------------------------------------------------------------
\* The process dies.  (A keychain call it was in takes effect or not: that is
\* the call being cancelled and ending just before.)
Crash ==
    /\ crashes < MaxCrashes
    /\ crashes' = crashes + 1
    /\ detached' = {}
    /\ pc' = [a \in Actors |-> "idle"]
    /\ req' = [a \in Actors |-> NoReq]
    /\ pass' = NoPass
    /\ reader' = [r \in Readers |-> NoRead]
    /\ UNCHANGED <<dbVars, store, issued>>

CleanupStep(a) ==
    \/ CheckPrevious(a)
    \/ DeleteSlot(a) \/ DeleteSlotFails(a) \/ DeleteSlotCancelled(a)
    \/ Finish(a)
    \/ Claim(a) \/ Recheck(a) \/ FinishClaim(a)
    \/ DropPending(a)
    \/ CleanupDatabaseFails(a)

\* The steps a command takes once it has begun.
CommandStep(p) ==
    \/ Reserve(p) \/ ReserveFails(p)
    \/ Put(p) \/ PutFails(p) \/ PutCancelled(p)
    \/ Publish(p) \/ PublishFails(p)
    \/ View(p) \/ ViewFails(p)
    \/ DeleteRow(p) \/ DeleteRowFails(p)
    \/ CleanupStep(p)

ReconcileStep ==
    \/ \E u \in Uuids : ReconcileEntry(u)
    \/ EndPass
    \/ ReconcileStops
    \/ CleanupStep(Reconciler)

ReaderStep(r) ==
    \/ ResolveGet(r) \/ ResolveRecheck(r) \/ StoreUsage(r) \/ ReadEnds(r)

Next ==
    \/ \E k \in Keys : CreateKey(k)
    \/ \E p \in Procs, k \in Keys :
         \/ \E kind \in Kinds, s \in Secrets \cup {None}, c \in Commands :
              Begin(p, k, kind, s, c)
         \/ BeginDelete(p, k)
    \/ \E p \in Procs : CommandStep(p)
    \/ BeginReconcile
    \/ ReconcileStep
    \/ \E d \in detached : DetachedEnds(d)
    \/ \E r \in Readers, k \in Keys : ResolveStart(r, k)
    \/ \E r \in Readers : ReaderStep(r)
    \/ Crash

Spec == Init /\ [][Next]_vars

-----------------------------------------------------------------------------
(* Fairness.  Every database and keychain call comes back, with a result or *)
(* an error, so a command, a reconciliation or a resolution that has begun  *)
(* takes its next step; nothing says which one.  Nobody has to begin.       *)

FairSpec ==
    /\ Spec
    /\ \A p \in Procs : WF_vars(CommandStep(p))
    /\ WF_vars(ReconcileStep)
    /\ WF_vars(\E d \in detached : DetachedEnds(d))
    /\ \A r \in Readers : WF_vars(ReaderStep(r))

\* Reconciliation is requested again and again (at every start of the
\* application, at every maintenance of the database, when the user asks for
\* it) and the lock, which is fair, is granted; and no step of it fails for ever.
ReconciliationRetried ==
    /\ SF_vars(BeginReconcile)
    /\ \A u \in Uuids : SF_vars(ReconcileEntry(u))
    /\ SF_vars(CheckPrevious(Reconciler))
    /\ SF_vars(DeleteSlot(Reconciler))
    /\ SF_vars(Finish(Reconciler))
    /\ SF_vars(Claim(Reconciler))
    /\ SF_vars(Recheck(Reconciler))
    /\ SF_vars(FinishClaim(Reconciler))
    /\ SF_vars(DropPending(Reconciler))

-----------------------------------------------------------------------------
(* Properties.                                                             *)

Labels == {"idle", "reserve", "put", "publish", "checkPrevious", "deletePrevious", "finish",
           "view", "deleteRow", "claim", "recheck", "deleteStaging", "finishClaim",
           "dropPending", "pass"}

\* Every variable has its type, and the key rows satisfy the CHECK of the
\* provider_api_keys table: slot and fingerprint are null together, and a
\* credential has a version.
TypeOK ==
    /\ keyRow \in [Keys -> KeyRows]
    /\ \A k \in Keys : /\ keyRow[k].slot = None <=> keyRow[k].fp = None
                       /\ keyRow[k].slot # None => keyRow[k].version > 0
    /\ journal \in [Uuids -> JournalRows]
    /\ usage \in [Keys -> [version : Nat, secret : Secrets \cup {None}]]
    /\ store \in [Uuids -> Secrets \cup {None}]
    /\ issued \in [Uuids -> Keys \cup {None}]
    /\ detached \subseteq [io : {"put", "delete"}, slot : Uuids, secret : Secrets \cup {None}]
    /\ pc \in [Actors -> Labels]
    /\ req \in [Actors -> Requests]
    /\ pass \in [todo : SUBSET Uuids, before : Nat]
    /\ reader \in [Readers -> Readings]
    /\ crashes \in 0..MaxCrashes

\* Whatever fails, is cancelled or dies: the slot a key row points at holds
\* the secret the row's fingerprint was computed from, so a key shown as
\* configured can be used.
ActiveSecretPresent ==
    \A k \in Keys : keyRow[k].slot # None => store[keyRow[k].slot] = keyRow[k].fp

\* Every secret in the keychain is owned by a key row or is named by a journal
\* row that will have it deleted: nothing is left where no code can find it.
Condemned(u) == \E w \in Entries : journal[w].status = "cleanup" /\ journal[w].previous = u
StagedBy(u) == journal[u].status = "pending" /\ journal[u].kind # "clear"

NoStrandedSecret ==
    \A u \in Uuids : store[u] # None => Active(u) \/ StagedBy(u) \/ Condemned(u)

\* The journal never asks for the deletion of a slot that a key row uses, so
\* the refusals in the cleanup paths are never met and no journal row is
\* stuck behind one.
NothingActiveIsCondemned == \A u \in Uuids : Condemned(u) => ~ Active(u)

\* A stored usage report belongs to the credential the key has now, even when
\* the report was requested with an older one and arrives late.
UsageMatchesCredential ==
    \A k \in Keys : usage[k] # NoUsage =>
        usage[k] = [version |-> keyRow[k].version, secret |-> keyRow[k].fp]

\* "Refusing otherwise is what keeps a deleted key from stranding its secret":
\* a key that is gone has no journal row and no keychain item.
DeletedKeyLeavesNothing ==
    \A k \in Keys : keyRow[k].state = "gone" =>
        \A u \in Uuids : issued[u] = k => store[u] = None /\ journal[u] = NoRow

\* The register a key is for the rest of the application: what it holds is
\* what the keychain holds in the slot its row points at.
credential ==
    [k \in Keys |->
       [state |-> keyRow[k].state, version |-> keyRow[k].version,
        secret |-> IF keyRow[k].slot = None THEN None ELSE store[keyRow[k].slot]]]

\* A reader has been answered once its resolution has come to its end.
answered ==
    [r \in Readers |->
       IF reader[r].pc = "resolved"
       THEN [key |-> reader[r].key, version |-> reader[r].version, secret |-> reader[r].secret]
       ELSE None]

Register == INSTANCE CredentialRegister WITH cred <- credential, answer <- answered

\* The two stores and the journal behave as one versioned register per key:
\* no step other than a publication changes what a key holds, and a resolved
\* secret was current, with its version, when it was handed out.
ImplementsRegister == Register!Spec

\* Under failures of any kind and number, every command, resolution and
\* reconciliation that has begun comes to its end and gives the lock back: in
\* particular the passes over the journal do not go on for ever when an entry
\* cannot be cleaned up.
EveryCallReturns ==
    /\ \A a \in Actors : pc[a] # "idle" ~> pc[a] = "idle"
    /\ \A r \in Readers : reader[r].pc # "idle" ~> reader[r].pc = "idle"

\* Whatever state an operation was abandoned in, its journal row is one that
\* reconciliation can finish: no row is stuck, and with it no key is left
\* refusing every mutation, provided that reconciliation is tried again and again
\* and does not fail for ever.
JournalDrains ==
    ReconciliationRetried => \A u \in Uuids : journal[u] # NoRow ~> journal[u] = NoRow
=============================================================================
