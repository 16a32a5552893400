----------------------------- MODULE CodexOAuth -----------------------------
(***************************************************************************)
(* The ChatGPT accounts of the local router (secrets/codex_oauth_auth.rs): *)
(* accounts with their refresh tokens in memory and in one file, access    *)
(* tokens in memory only.  A token is refreshed over the network under a   *)
(* lock of its account, while accounts are removed, cleared or logged into *)
(* again; every change is made and written under the persistence lock.     *)
(* A refresh runs in the handler of a routed request and is dropped with   *)
(* it.  Expired login codes and the choice of the default account, which   *)
(* is recomputed when it is read, are left out.                            *)
(*                                                                         *)
(* A refresh token is the login it stems from and how often it was         *)
(* replaced since; an access token is known by its login.                  *)
(***************************************************************************)
EXTENDS Naturals, FiniteSets

CONSTANTS
    Accounts,
    Procs,
    MaxLogins,       \* bound: device flows that come to an end
    MaxRotations     \* bound: times a refresh token is replaced

VARIABLES
    accounts,        \* in memory: [Accounts -> refresh token or NoToken]
    cached,          \* access tokens: [Accounts -> login, or 0]
    disk,            \* codex_oauth_auth.json
    lockOf,          \* the map of refresh locks: [Accounts -> which lock is in it]
    persisting,      \* holder of the persistence lock, or "nobody"
    proc,            \* [Procs -> where a call stands, and its locals]
    logins,          \* logins so far
    \* what the properties remember
    gone,            \* logins whose removal has been reported as done
    behind           \* whether the last write of the file failed or was cut off, or the
                     \* file could not be loaded and has not been written since

vars == <<accounts, cached, disk, lockOf, persisting, proc, logins, gone, behind>>

NoToken == [login |-> 0, turn |-> 0]
NoAccounts == [a \in Accounts |-> NoToken]
Nobody == "nobody"

\* token is what a refresh has sent; lock which refresh lock it holds; ends the
\* logins that are over when the call returns.
Call(place, a) == [pc |-> place, account |-> a, token |-> NoToken, lock |-> 0, ends |-> {}]
Idle == Call("idle", CHOOSE a \in Accounts : TRUE)

Init ==
    /\ accounts = NoAccounts /\ cached = [a \in Accounts |-> 0]
    /\ disk = accounts
    /\ lockOf = [a \in Accounts |-> 0]
    /\ persisting = Nobody
    /\ proc = [p \in Procs |-> Idle]
    /\ logins = 0 /\ gone = {} /\ behind = FALSE

At(p, place) == proc[p].pc = place
Goto(p, place) == proc' = [proc EXCEPT ![p].pc = place]
Return(p) == proc' = [proc EXCEPT ![p] = Idle]
Present(a) == accounts[a] # NoToken
memory == <<accounts, cached, disk, lockOf, persisting, logins, gone, behind>>

-----------------------------------------------------------------------------
(* get_valid_token_for_account.                                            *)

\* The cache has no token that is good for another minute.
Begin(p, a) ==
    /\ At(p, "idle") /\ Present(a) /\ cached[a] = 0
    /\ proc' = [proc EXCEPT ![p] = [Call("lock", a) EXCEPT !.lock = lockOf[a]]]
    /\ UNCHANGED memory

Holds(p) == proc[p].pc \in {"locked", "sent", "answered", "persistToken"}

\* The lock may have been taken out of the map by now.
TakeRefreshLock(p) ==
    /\ At(p, "lock")
    /\ \A q \in Procs : Holds(q) => <<proc[q].account, proc[q].lock>> # <<proc[p].account, proc[p].lock>>
    /\ Goto(p, "locked")
    /\ UNCHANGED memory

\* The second look at account and cache, and the request.
SendRefresh(p) ==
    LET a == proc[p].account IN
    /\ At(p, "locked")
    /\ IF Present(a) /\ cached[a] = 0
       THEN proc' = [proc EXCEPT ![p].pc = "sent", ![p].token = accounts[a]]
       ELSE Return(p)
    /\ UNCHANGED memory

RefreshAnswered(p) ==
    /\ At(p, "sent")
    /\ Goto(p, "answered") \/ Return(p)
    /\ UNCHANGED memory

\* Mutant: the account is there, whoever has logged into it.
StillThatLoginAnyone(p) == Present(proc[p].account)

\* The account still has the refresh token that was sent.
StillThatLogin(p) == accounts[proc[p].account] = proc[p].token

\* Mutant: a new refresh token alone does not count as a change.
MustPersistMetadata(rotated, metadata) == metadata

\* The token was replaced by the answer, or the plan it reports has changed.
MustPersist(rotated, metadata) == rotated \/ metadata

CommitRefresh(p, rotated, metadata) ==
    LET a == proc[p].account IN
    /\ At(p, "answered") /\ persisting = Nobody
    /\ IF StillThatLogin(p)
       THEN /\ rotated => proc[p].token.turn < MaxRotations
            /\ accounts' = [accounts EXCEPT ![a] = [proc[p].token EXCEPT !.turn = IF rotated THEN @ + 1 ELSE @]]
            /\ cached' = [cached EXCEPT ![a] = proc[p].token.login]
            /\ IF MustPersist(rotated, metadata)
               THEN persisting' = p /\ Goto(p, "persistToken")
               ELSE UNCHANGED persisting /\ Return(p)
       ELSE Return(p) /\ UNCHANGED <<accounts, cached, persisting>>
    /\ UNCHANGED <<disk, lockOf, logins, gone, behind>>

\* The routed request is dropped by its client.
Dropped(p) ==
    /\ Holds(p) \/ At(p, "lock")
    /\ Return(p)
    /\ persisting' = IF persisting = p THEN Nobody ELSE persisting
    /\ behind' = (behind \/ persisting = p)
    /\ UNCHANGED <<accounts, cached, disk, lockOf, logins, gone>>

-----------------------------------------------------------------------------
(* Login, removal, logout.                                                 *)

\* add_account_with_access_token_internal, at the end of poll_for_token: first the
\* account, then its access token.
Add(p, a) ==
    /\ At(p, "idle") /\ persisting = Nobody /\ logins < MaxLogins
    /\ logins' = logins + 1
    /\ accounts' = [accounts EXCEPT ![a] = [login |-> logins', turn |-> 0]]
    /\ persisting' = p
    /\ proc' = [proc EXCEPT ![p] = [Call("addToken", a) EXCEPT !.ends = {accounts[a].login} \ {0}]]
    /\ UNCHANGED <<cached, disk, lockOf, gone, behind>>

AddToken(p) ==
    LET a == proc[p].account IN
    /\ At(p, "addToken")
    /\ cached' = [cached EXCEPT ![a] = accounts[a].login]
    /\ Goto(p, "persist")
    /\ UNCHANGED <<accounts, disk, lockOf, persisting, logins, gone, behind>>

\* The next lock that is made is none of those still held.
Another(lock) == (lock + 1) % (Cardinality(Procs) + 1)

\* remove_account, and clear_auth for all of them: the account, its token and its
\* lock go.  Who holds or awaits the lock keeps it.
Remove(p, out) ==
    /\ At(p, "idle") /\ persisting = Nobody /\ \A a \in out : Present(a)
    /\ accounts' = [a \in Accounts |-> IF a \in out THEN NoToken ELSE accounts[a]]
    /\ cached' = [a \in Accounts |-> IF a \in out THEN 0 ELSE cached[a]]
    /\ lockOf' = [a \in Accounts |-> IF a \in out THEN Another(lockOf[a]) ELSE lockOf[a]]
    /\ persisting' = p
    /\ proc' = [proc EXCEPT ![p].pc = "persist", ![p].ends = {accounts[a].login : a \in out}]
    /\ UNCHANGED <<disk, logins, gone, behind>>

\* persist_current_state_locked: a snapshot of the memory, which nobody changes
\* without the persistence lock.  When it fails, before or after the rename, the
\* caller is told and the memory stays as it is.
Persist(p) ==
    /\ proc[p].pc \in {"persist", "persistToken"}
    /\ \/ disk' = accounts /\ behind' = FALSE /\ gone' = gone \cup proc[p].ends
       \/ disk' \in {disk, accounts} /\ behind' = TRUE /\ UNCHANGED gone
    /\ persisting' = Nobody /\ Return(p)
    /\ UNCHANGED <<accounts, cached, lockOf, logins>>

-----------------------------------------------------------------------------
(* Time, and the process.                                                  *)

Expire(a) ==
    /\ cached[a] # 0
    /\ cached' = [cached EXCEPT ![a] = 0]
    /\ UNCHANGED <<accounts, disk, lockOf, persisting, proc, logins, gone, behind>>

\* load_from_disk_sync.  A file that cannot be read or parsed is left where it is and
\* the application goes on without accounts; the next write replaces it.
Restart ==
    /\ \/ accounts' = disk /\ behind' = FALSE
       \/ disk # NoAccounts /\ accounts' = NoAccounts /\ behind' = TRUE
    /\ cached' = [a \in Accounts |-> 0] /\ persisting' = Nobody
    /\ proc' = [p \in Procs |-> Idle]
    /\ UNCHANGED <<disk, lockOf, logins, gone>>

Next ==
    \/ \E p \in Procs :
        \/ TakeRefreshLock(p) \/ SendRefresh(p) \/ RefreshAnswered(p) \/ Dropped(p)
        \/ \E rotated, metadata \in BOOLEAN : CommitRefresh(p, rotated, metadata)
        \/ AddToken(p) \/ Persist(p)
        \/ \E a \in Accounts : Begin(p, a) \/ Add(p, a) \/ Remove(p, {a})
        \/ Remove(p, {a \in Accounts : Present(a)})
    \/ \E a \in Accounts : Expire(a)
    \/ Restart

Spec == Init /\ [][Next]_vars

-----------------------------------------------------------------------------
(* Properties.                                                             *)

\* "Remove account during refresh does not resurrect access token" (a test): once a removal, a logout
\* or a new login has been reported as done, nothing of the login it ended is in
\* memory or in the file again, whatever refresh was under way.
RemovedStaysAway ==
    \A a \in Accounts : {accounts[a].login, cached[a], disk[a].login} \cap gone = {}

\* A change of the accounts and the file it is written to belong together: whenever
\* nobody is writing and the file was loaded or written without a failure since the
\* start, and the last write went through, a restart would find what the memory
\* holds, the newest refresh tokens included.
FileKeepsUp == persisting = Nobody /\ ~ behind => disk = accounts
=============================================================================
