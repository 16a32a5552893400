------------------------------- MODULE Router -------------------------------
(***************************************************************************)
(* The local router (route/server.rs) between an agent and its Providers:  *)
(* a request is classified, gets its candidates from the routes of its     *)
(* model and the blacklist (decision.rs), and is sent to one candidate     *)
(* after the other until one answers (failure.rs says when to go on).      *)
(* Before a candidate is contacted the policy gate admits, denies or holds *)
(* the request (policy/gate.rs, policy/pending.rs).  A client may hang up  *)
(* wherever the handler awaits (route/transport.rs), and the application   *)
(* drains the held requests when it exits (lib.rs).                        *)
(*                                                                         *)
(* The gate and the queue of held requests are traits; their real          *)
(* implementations are not in this repository, so any decision and any     *)
(* outcome may come at any time.  Of a request body only its being too     *)
(* large to keep matters, of a response its class.  Cooldowns are counted  *)
(* down: 0 is an entry that has run out and, as in the code, stays in the  *)
(* list.                                                                   *)
(***************************************************************************)
EXTENDS Naturals, Sequences, FiniteSets

CONSTANTS
    Requests,
    Providers,
    Models,
    Routes,          \* [Models -> the Providers that have it, by priority]
    Whole,           \* the scope of an entry that is for all models
    Subscription,    \* the one upstream of a subscription request
    Capacity,        \* of the queue of held requests
    ShortCooldown,   \* after a failure that may be over soon
    LongCooldown,    \* after "this Provider does not have the model"
    None

\* What the configuration keeps: a Provider is at most once in a route.
RouterConstants ==
    /\ Routes \in [Models -> Seq(Providers)]
    /\ \A m \in Models : \A i, j \in 1..Len(Routes[m]) : Routes[m][i] = Routes[m][j] => i = j
    /\ Whole \notin Models /\ Subscription \notin Providers /\ None \notin Providers
    /\ None # Subscription
    /\ Capacity \in Nat
    /\ ShortCooldown \in Nat \ {0} /\ LongCooldown \in Nat /\ ShortCooldown <= LongCooldown

VARIABLES
    req,             \* [Requests -> what the handler of each request keeps]
    row,             \* proxy_request_logs: why each request ended
    waiting,         \* the registry's queue: [Requests -> outcome of its hold, or None]
    blacklist,       \* [Providers \X scopes -> cooldown left, or None]
    exit,            \* the drain at the end of the application
    \* what the properties remember
    doomed,          \* requests that were waiting when the drain began
    resting          \* [Providers \X Models -> short cooldown left since the last failure]

exitVars == <<exit, doomed>>
listVars == <<blacklist, resting>>
vars == <<req, row, waiting, blacklist, resting, exit, doomed>>

Scopes == Models \cup {Whole}
Outcomes == {"released", "denied", "timeout", "shutdown"}
Candidates == Providers \cup {Subscription}

\* Where a handler awaits, and can be dropped with its connection.
Awaiting == {"reading", "auth", "held", "sending", "draining", "streaming"}

\* RequestContext and the locals of the handler.  left holds the candidates that are
\* left, also the one that is being tried; tail is the rest of a large body; last is
\* whether there is a LastError; admitted the last Provider the gate let it go to, if
\* any; granted and sent are for the properties.
Fresh(m) ==
    [pc |-> "idle", model |-> m, auto |-> FALSE, left |-> {}, unfit |-> {},
     oversize |-> FALSE, tail |-> FALSE, admitted |-> {}, admission |-> 0, switch |-> FALSE,
     last |-> FALSE, answer |-> None, granted |-> {}, sent |-> {}]

Init ==
    /\ \E m \in [Requests -> Models] : req = [r \in Requests |-> Fresh(m[r])]
    /\ row = [r \in Requests |-> None]
    /\ waiting = [r \in Requests |-> None]
    /\ blacklist = [e \in Providers \X Scopes |-> None]
    /\ resting = [e \in Providers \X Models |-> 0]
    /\ exit = "running" /\ doomed = {}

-----------------------------------------------------------------------------
(* Helpers.                                                                *)

At(r, place) == req[r].pc = place /\ exit # "exited"
Goto(r, place) == req' = [req EXCEPT ![r].pc = place]
Done(r, how) ==   \* the locals of the handler are gone
    req' = [req EXCEPT ![r] = [Fresh(@.model) EXCEPT !.pc = "done", !.answer = how,
                                 !.granted = req[r].granted, !.sent = req[r].sent]]
OfModel(m) == {Routes[m][i] : i \in 1..Len(Routes[m])}

\* The candidate that is tried: the first one left, in the order of the route.
Before(m, p, q) == \E i, j \in 1..Len(Routes[m]) : i < j /\ Routes[m][i] = p /\ Routes[m][j] = q
First(m, left) == CHOOSE p \in left : \A q \in left \ {p} : Before(m, p, q)
Current(r) == First(req[r].model, req[r].left)
Rest(r) == req[r].left \ {Current(r)}

\* insert_proxy_settlement: ON CONFLICT DO NOTHING.  Most callers only log a write
\* that fails.
Settle(r, reason) ==
    row' = [row EXCEPT ![r] = IF @ \in {None, "lost"} THEN reason ELSE @]
MaySettle(r, reason) ==
    \/ Settle(r, reason)
    \/ row[r] = None /\ row' = [row EXCEPT ![r] = "lost"]

Enqueued == {r \in Requests : waiting[r] # None}
Dequeue(r) == waiting' = [waiting EXCEPT ![r] = None]

\* blacklist_entry_active
Blacklisted(p, m) == \E s \in {m, Whole} : blacklist[<<p, s>>] \notin {None, 0}

AutoCandidates(m) == {p \in OfModel(m) : ~ Blacklisted(p, m)}
ManualCandidates(m, p) == OfModel(m) \cap {p}

-----------------------------------------------------------------------------
(* From the socket to the candidates.                                      *)

Connect(r) ==
    /\ At(r, "idle")
    /\ \E big \in BOOLEAN :
           req' = [req EXCEPT ![r].pc = "reading", ![r].oversize = big, ![r].tail = big]
    /\ UNCHANGED <<row, waiting, listVars, exitVars>>

\* The body does not parse or has no model, or the database cannot be read.
Reject(r) ==
    /\ At(r, "reading")
    /\ Done(r, "error")
    /\ UNCHANGED <<row, waiting, listVars, exitVars>>

\* A subscription request the user has not agreed to, or of an agent for which
\* there is no forwarding.  Here a write that fails does replace the answer.
Block(r) ==
    /\ At(r, "reading")
    /\ \/ Settle(r, "blocked") /\ Done(r, "blocked")
       \/ UNCHANGED row /\ Done(r, "error")
    /\ UNCHANGED <<waiting, listVars, exitVars>>

\* One fixed upstream; no credentials to resolve, no retry.
ForwardSubscription(r) ==
    /\ At(r, "reading")
    /\ req' = [req EXCEPT ![r].pc = "admit", ![r].left = {Subscription}]
    /\ UNCHANGED <<row, waiting, listVars, exitVars>>

\* Routes, Providers, blacklist and mode are read once, here.  A Provider is unfit
\* when it is gone or speaks another protocol.
SelectCandidates(r, automatic, manual, unfit) ==
    LET m == req[r].model
        left == IF automatic THEN AutoCandidates(m) ELSE ManualCandidates(m, manual)
    IN
    /\ At(r, "reading")
    /\ IF left = {}
       THEN Done(r, "unavailable")
       ELSE req' = [req EXCEPT ![r].pc = "next", ![r].auto = automatic, ![r].left = left,
                               ![r].unfit = unfit]
    /\ UNCHANGED <<row, waiting, listVars, exitVars>>

-----------------------------------------------------------------------------
(* One candidate.                                                          *)

SkipUnfit(r) ==
    /\ At(r, "next") /\ req[r].left # {} /\ Current(r) \in req[r].unfit
    /\ req' = [req EXCEPT ![r].left = Rest(r)]
    /\ UNCHANGED <<row, waiting, listVars, exitVars>>

ResolveAuth(r) ==
    /\ At(r, "next") /\ req[r].left # {} /\ Current(r) \notin req[r].unfit
    /\ Goto(r, "auth")
    /\ UNCHANGED <<row, waiting, listVars, exitVars>>

\* Nothing is left: the last error, or none was ever sent.
NoCandidateLeft(r) ==
    /\ At(r, "next") /\ req[r].left = {}
    /\ Done(r, IF req[r].last THEN "upstream_error" ELSE "unavailable")
    /\ UNCHANGED <<row, waiting, listVars, exitVars>>

\* Mutant: the same candidate is tried again.
AuthUnavailableAgain(r) ==
    /\ At(r, "auth") /\ Goto(r, "next")
    /\ UNCHANGED <<row, waiting, listVars, exitVars>>

AuthUnavailable(r) ==
    /\ At(r, "auth")
    /\ req' = [req EXCEPT ![r].pc = "next", ![r].left = Rest(r)]
    /\ UNCHANGED <<row, waiting, listVars, exitVars>>

\* Mutant: a request that was admitted once is not asked about again.
NeedsAdmissionOnce(r) == req[r].admitted = {}

NeedsAdmission(r) == Current(r) \notin req[r].admitted

AuthResolved(r) ==
    /\ At(r, "auth")
    /\ req' = [req EXCEPT ![r].pc = IF NeedsAdmission(r) THEN "admit" ELSE "send",
                          ![r].admission = 0]
    /\ UNCHANGED <<row, waiting, listVars, exitVars>>

-----------------------------------------------------------------------------
(* admit_selected and the queue of held requests.                          *)

Admitted(r) ==
    req' = [req EXCEPT ![r].pc = "send", ![r].admitted = {Current(r)},
                       ![r].granted = @ \cup {Current(r)}]

Allow(r) ==
    /\ At(r, "admit")
    /\ Admitted(r)
    /\ UNCHANGED <<row, waiting, listVars, exitVars>>

Deny(r) ==
    /\ At(r, "admit")
    /\ MaySettle(r, "guard_deny") /\ Done(r, "denied")
    /\ UNCHANGED <<waiting, listVars, exitVars>>

\* A hold without a queue, or the queue is full.
RefuseAtOnce(r) ==
    /\ At(r, "admit")
    /\ MaySettle(r, "guard_hold") /\ Done(r, "held")
    /\ UNCHANGED <<waiting, listVars, exitVars>>

Hold(r, switch) ==
    /\ At(r, "admit") /\ Cardinality(Enqueued) < Capacity
    /\ req' = [req EXCEPT ![r].pc = "held", ![r].switch = switch]
    /\ waiting' = [waiting EXCEPT ![r] = "waiting"]
    /\ UNCHANGED <<row, listVars, exitVars>>

\* The registry: a command, its own timeout, or the drain; once.
Resolve(r, outcome) ==
    /\ waiting[r] = "waiting" /\ exit # "exited"
    /\ waiting' = [waiting EXCEPT ![r] = outcome]
    /\ UNCHANGED <<req, row, listVars, exitVars>>

\* Mutant: the disconnect audit is still armed when the released request leaves it.
ReleasedArmed(r) ==
    /\ At(r, "held") /\ waiting[r] = "released"
    /\ IF req[r].switch /\ req[r].admission = 0
       THEN req' = [req EXCEPT ![r].pc = "admit", ![r].admission = 1]
       ELSE Admitted(r)
    /\ Dequeue(r) /\ MaySettle(r, "client_gone")
    /\ UNCHANGED <<listVars, exitVars>>

\* Released: an identity switch is judged once more, against the new baseline.
Released(r) ==
    /\ At(r, "held") /\ waiting[r] = "released"
    /\ IF req[r].switch /\ req[r].admission = 0
       THEN req' = [req EXCEPT ![r].pc = "admit", ![r].admission = 1]
       ELSE Admitted(r)
    /\ Dequeue(r)
    /\ UNCHANGED <<row, listVars, exitVars>>

\* Mutant: the ticket is given up before the row is written.
NotReleasedTicketFirst(r) ==
    /\ At(r, "held") /\ waiting[r] \in Outcomes \ {"released"}
    /\ Goto(r, "leaving") /\ Dequeue(r)
    /\ UNCHANGED <<row, listVars, exitVars>>

\* The row first: the ticket is kept until it is written.
NotReleased(r) ==
    /\ At(r, "held") /\ waiting[r] \in Outcomes \ {"released"}
    /\ Goto(r, "leaving") /\ MaySettle(r, "guard_hold")
    /\ UNCHANGED <<waiting, listVars, exitVars>>

Leave(r) ==
    /\ At(r, "leaving")
    /\ Dequeue(r) /\ Done(r, "held")
    /\ UNCHANGED <<row, listVars, exitVars>>

\* The connection is dropped.  A held handler first writes the row, then leaves
\* the queue; a stream that is cut leaves no row at all.
ClientGone(r) ==
    /\ \E place \in Awaiting : At(r, place)
    /\ IF At(r, "held")
       THEN Goto(r, "dropping") /\ MaySettle(r, "client_gone")
       ELSE Done(r, "gone") /\ UNCHANGED row
    /\ UNCHANGED <<waiting, listVars, exitVars>>

Dropped(r) ==
    /\ At(r, "dropping")
    /\ Dequeue(r) /\ Done(r, "gone")
    /\ UNCHANGED <<row, listVars, exitVars>>

-----------------------------------------------------------------------------
(* The upstream.                                                           *)

\* The rest of a large body can be given away once.
Send(r) ==
    /\ At(r, "send")
    /\ IF req[r].oversize /\ ~ req[r].tail
       THEN Done(r, "error")
       ELSE req' = [req EXCEPT ![r].pc = "sending", ![r].tail = FALSE,
                               ![r].sent = @ \cup {Current(r)}]
    /\ UNCHANGED <<row, waiting, listVars, exitVars>>

\* classify: whether another Provider may do better, what is blacklisted and for
\* how long.
Failures == {"connect", "timeout", "rate_limited", "server_error", "not_found", "rejected"}
Verdict(failure) ==
    [next     |-> failure # "rejected",
     scope    |-> CASE failure \in {"connect", "timeout"} -> "provider"
                    [] failure = "rejected" -> "none"
                    [] OTHER -> "route",
     cooldown |-> IF failure = "not_found" THEN LongCooldown ELSE ShortCooldown]

\* Another candidate: not when the body is gone, not after the last one.
MayTryNext(r, verdict) == verdict.next /\ ~ req[r].oversize /\ Rest(r) # {}

EntryOf(p, m, verdict) == <<p, IF verdict.scope = "provider" THEN Whole ELSE m>>

\* Mutant: an entry that is there already is left as it is.
PushBlacklistOnce(p, m, verdict) ==
    blacklist' = IF verdict.scope = "none" \/ blacklist[EntryOf(p, m, verdict)] # None
                 THEN blacklist
                 ELSE [blacklist EXCEPT ![EntryOf(p, m, verdict)] = verdict.cooldown]

\* The newest entry replaces the one of the same scope.
PushBlacklist(p, m, verdict) ==
    blacklist' = IF verdict.scope = "none" THEN blacklist
                 ELSE [blacklist EXCEPT ![EntryOf(p, m, verdict)] = verdict.cooldown]

Rests(p, m, verdict) ==
    LET hit == {<<p, n>> : n \in CASE verdict.scope = "provider" -> Models
                                   [] verdict.scope = "route" -> {m}
                                   [] OTHER -> {}}
    IN  resting' = [e \in Providers \X Models |-> IF e \in hit THEN ShortCooldown ELSE resting[e]]

\* A Provider fails: blacklisted, and then the next candidate or the end.
Fails(r, failure) ==
    LET verdict == Verdict(failure) IN
    /\ At(r, "sending") /\ Current(r) # Subscription
    /\ IF MayTryNext(r, verdict)
       THEN req' = [req EXCEPT ![r].pc = "draining", ![r].last = TRUE]
       ELSE Done(r, "upstream_error")
    /\ PushBlacklist(Current(r), req[r].model, verdict)
    /\ Rests(Current(r), req[r].model, verdict)
    /\ UNCHANGED <<row, waiting, exitVars>>

\* The rest of the error body has been read.
Drained(r) ==
    /\ At(r, "draining")
    /\ req' = [req EXCEPT ![r].pc = "next", ![r].left = Rest(r)]
    /\ UNCHANGED <<row, waiting, listVars, exitVars>>

SubscriptionFails(r) ==
    /\ At(r, "sending") /\ Current(r) = Subscription
    /\ Done(r, "upstream_error")
    /\ UNCHANGED <<row, waiting, listVars, exitVars>>

\* 2xx: from here on the client gets this response, whole or cut.
Stream(r) ==
    /\ At(r, "sending")
    /\ Goto(r, "streaming")
    /\ UNCHANGED <<row, waiting, listVars, exitVars>>

StreamEnds(r, broken) ==
    /\ At(r, "streaming")
    /\ MaySettle(r, IF broken THEN "broken" ELSE "completed")
    /\ Done(r, IF broken THEN "cut" ELSE "complete")
    /\ UNCHANGED <<waiting, listVars, exitVars>>

-----------------------------------------------------------------------------
(* Time and the end of the application.                                    *)

Less1(n) == IF n \in {None, 0} THEN n ELSE n - 1

Tick ==
    /\ exit = "running"
    /\ blacklist' = [e \in Providers \X Scopes |-> Less1(blacklist[e])]
    /\ resting' = [e \in Providers \X Models |-> Less1(resting[e])]
    /\ UNCHANGED <<req, row, waiting, exitVars>>

\* cleanup_before_exit: every waiter is told, then their leaving is awaited, two
\* seconds at the most.
BeginDrain ==
    /\ exit = "running" /\ exit' = "draining"
    /\ doomed' = {r \in Requests : waiting[r] = "waiting"}
    /\ waiting' = [r \in Requests |-> IF waiting[r] = "waiting" THEN "shutdown" ELSE waiting[r]]
    /\ UNCHANGED <<req, row, listVars>>

DrainEnds ==
    /\ exit = "draining" /\ doomed \cap Enqueued = {} /\ exit' = "drained"
    /\ UNCHANGED <<req, row, waiting, listVars, doomed>>

DrainTimesOut ==
    /\ exit = "draining" /\ exit' = "exited"
    /\ UNCHANGED <<req, row, waiting, listVars, doomed>>

Exit ==
    /\ exit = "drained" /\ exit' = "exited"
    /\ UNCHANGED <<req, row, waiting, listVars, doomed>>

Handler(r) ==
    \/ Reject(r) \/ Block(r) \/ ForwardSubscription(r)
    \/ \E automatic \in BOOLEAN, manual \in Providers, unfit \in SUBSET OfModel(req[r].model) :
           SelectCandidates(r, automatic, manual, unfit)
    \/ SkipUnfit(r) \/ ResolveAuth(r) \/ NoCandidateLeft(r) \/ AuthUnavailable(r) \/ AuthResolved(r)
    \/ Allow(r) \/ Deny(r) \/ RefuseAtOnce(r) \/ \E switch \in BOOLEAN : Hold(r, switch)
    \/ Released(r) \/ NotReleased(r) \/ Leave(r) \/ Dropped(r)
    \/ Send(r) \/ (\E f \in Failures : Fails(r, f)) \/ Drained(r) \/ SubscriptionFails(r)
    \/ Stream(r) \/ \E broken \in BOOLEAN : StreamEnds(r, broken)

Next ==
    \/ \E r \in Requests :
        \/ Connect(r) \/ Handler(r) \/ ClientGone(r)
        \/ \E outcome \in Outcomes : Resolve(r, outcome)
    \/ Tick \/ BeginDrain \/ DrainEnds \/ DrainTimesOut \/ Exit

Spec == Init /\ [][Next]_vars

\* Handlers run, upstreams answer or time out, the registry owns a timeout for
\* every hold, and a drain ends.  Nobody has to connect, hang up or quit.
FairSpec ==
    /\ Spec
    /\ \A r \in Requests :
        WF_vars(Handler(r)) /\ WF_vars(\E outcome \in Outcomes : Resolve(r, outcome))
    /\ WF_vars(DrainEnds \/ DrainTimesOut \/ Exit)

-----------------------------------------------------------------------------
(* Properties.                                                             *)

\* "Admission runs after selecting an upstream identity and before sending bytes":
\* whatever a request has been through, it was sent to a Provider only when the
\* gate had let it go to that Provider; a fallback is admitted again.
SentWhereAdmitted == \A r \in Requests : req[r].sent \subseteq req[r].granted

\* The row of a request tells how it ended: once a request is over, its row, when
\* it has one that could be written, is the one that belongs to its answer.
RowTellsOutcome ==
    \A r \in Requests : req[r].pc = "done" /\ row[r] \notin {None, "lost"} =>
        <<row[r], req[r].answer>> \in
            {<<"blocked", "blocked">>, <<"guard_deny", "denied">>, <<"guard_hold", "held">>,
             <<"client_gone", "gone">>, <<"broken", "cut">>, <<"completed", "complete">>}

\* "Keep the ticket until the terminal audit row is durable, so a registry's
\* shutdown acknowledgment cannot race that write": when the drain is through,
\* every request it turned away has had its row.
DrainedIsAudited == exit = "drained" => \A r \in doomed : row[r] # None

\* A Provider that has just failed rests: a request that gets its candidates in
\* automatic mode within the short cooldown of the last failure that counts does
\* not have it among them, whatever was in the list before.
FailedProviderRests ==
    [][\A r \in Requests :
         req[r].pc = "reading" /\ req'[r].auto =>
            \A p \in req'[r].left : resting[<<p, req[r].model>>] = 0]_vars

\* Every request that came in is over at some time, held ones included, unless the
\* process is.
EveryRequestEnds == \A r \in Requests : req[r].pc = "reading" ~> (req[r].pc = "done" \/ exit = "exited")
=============================================================================
