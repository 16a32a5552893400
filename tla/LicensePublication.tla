------------------------- MODULE LicensePublication -------------------------
(***************************************************************************)
(* The event "license-changed" (policy/lifecycle.rs).  A change of the     *)
(* license asks for a publication; whoever finds that nobody is emitting   *)
(* drains the queue, reads the license at the time of delivery, calls the  *)
(* publisher without any lock, and acknowledges what it has sent in the    *)
(* settings.  A window takes an event as the signal to fetch the license   *)
(* (src/lib/query/license.ts).                                             *)
(*                                                                         *)
(* The provider that verifies tokens is outside of the repository, whose   *)
(* own community build emits nothing: the module is about a build that has *)
(* one.                                                                    *)
(***************************************************************************)
EXTENDS Naturals, FiniteSets

CONSTANTS
    Callers,     \* commands and the hourly task
    Startup,     \* the reconciliation of the start, before any command is taken
    Licenses,    \* the keys of license states
    None,
    MaxChanges   \* bound: changes of the license and reconciliations

VARIABLES
    license,    \* what the provider and the clock make of the license
    queue,      \* Transitions.queue, of which only the length matters
    emitting,   \* Transitions.emitting
    caller,     \* [All -> where a call stands, and what it has read]
    ack,        \* the setting license_last_emitted_state
    shown,      \* what the window shows
    fetching,   \* whether the window has been told and not yet fetched
    changes,
    \* what the properties remember
    told,       \* every license that was delivered
    due         \* whether the license may have changed, or a delivery failed, since the
                \* last request

vars == <<license, queue, emitting, caller, ack, shown, fetching, changes, told, due>>

All == Callers \cup {Startup}
Idle == [pc |-> "idle", seen |-> None, previous |-> None]

\* The first reconciliation has asked for a publication.
Started == [c \in All |-> IF c = Startup THEN [Idle EXCEPT !.pc = "drain"] ELSE Idle]

Init ==
    /\ license \in Licenses /\ ack \in Licenses \cup {None}
    /\ queue = 1 /\ emitting = FALSE /\ caller = Started
    /\ shown = license /\ fetching = FALSE /\ changes = 0
    /\ told = {ack} \ {None} /\ due = FALSE

At(c, place) == caller[c].pc = place
Goto(c, place) == caller' = [caller EXCEPT ![c].pc = place]

-----------------------------------------------------------------------------

\* Mutant: a request is left to the one who is emitting.
EnqueueIfSilent == queue' = IF emitting THEN queue ELSE queue + 1

Enqueue == queue' = queue + 1

\* activate and deactivate, with the license another one, or reconcile; in one
\* critical section of the transitions.
Request(c) ==
    /\ At(c, "idle") /\ At(Startup, "idle")
    /\ changes < MaxChanges /\ changes' = changes + 1
    /\ license' \in Licenses
    /\ Enqueue /\ due' = FALSE
    /\ Goto(c, "drain")
    /\ UNCHANGED <<emitting, ack, shown, fetching, told>>

Drain(c) ==
    /\ At(c, "drain")
    /\ emitting' = TRUE
    /\ Goto(c, IF emitting THEN "idle" ELSE "pop")
    /\ UNCHANGED <<license, queue, ack, shown, fetching, changes, told, due>>

Pop(c) ==
    /\ At(c, "pop")
    /\ IF queue = 0
       THEN /\ emitting' = FALSE /\ caller' = [caller EXCEPT ![c] = Idle]
            /\ UNCHANGED queue
       ELSE /\ queue' = queue - 1 /\ Goto(c, "read")
            /\ UNCHANGED emitting
    /\ UNCHANGED <<license, ack, shown, fetching, changes, told, due>>

\* status_at, at the time of delivery
ReadLicense(c) ==
    /\ At(c, "read")
    /\ caller' = [caller EXCEPT ![c].pc = "compare", ![c].seen = license]
    /\ UNCHANGED <<license, queue, emitting, ack, shown, fetching, changes, told, due>>

Compare(c) ==
    /\ At(c, "compare")
    /\ caller' = [caller EXCEPT ![c].pc = IF ack = caller[c].seen THEN "pop" ELSE "call",
                                ![c].previous = ack]
    /\ UNCHANGED <<license, queue, emitting, ack, shown, fetching, changes, told, due>>

CallPublisher(c) ==
    /\ At(c, "call")
    /\ told' = told \cup {caller[c].seen} /\ fetching' = TRUE
    /\ Goto(c, "commit")
    /\ UNCHANGED <<license, queue, emitting, ack, shown, changes, due>>

\* Mutant: the acknowledgement is not kept from an event that was not sent.
PublisherFailsUnnoticed(c) ==
    /\ At(c, "call")
    /\ Goto(c, "commit") /\ due' = TRUE
    /\ UNCHANGED <<license, queue, emitting, ack, shown, fetching, changes, told>>

\* The caller gets the error; the hourly task is the next attempt.
PublisherFails(c) ==
    /\ At(c, "call")
    /\ Goto(c, "pop") /\ due' = TRUE
    /\ UNCHANGED <<license, queue, emitting, ack, shown, fetching, changes, told>>

\* The settings cannot be read before the delivery, or read or written after it:
\* what was delivered then stays unacknowledged.
SettingsFail(c) ==
    /\ caller[c].pc \in {"compare", "commit"}
    /\ Goto(c, "pop") /\ due' = TRUE
    /\ UNCHANGED <<license, queue, emitting, ack, shown, fetching, changes, told>>

\* What was sent is acknowledged if it is still the license.
Commit(c) ==
    /\ At(c, "commit")
    /\ ack' = IF ack = caller[c].previous /\ license = caller[c].seen
              THEN caller[c].seen ELSE ack
    /\ Goto(c, "pop")
    /\ UNCHANGED <<license, queue, emitting, shown, fetching, changes, told, due>>

\* The license expires, or its grace does; nobody is told.
Expire ==
    /\ changes < MaxChanges /\ changes' = changes + 1
    /\ license' \in Licenses \ {license} /\ due' = TRUE
    /\ UNCHANGED <<queue, emitting, caller, ack, shown, fetching, told>>

\* refreshQueriesAfterLicenseChange
Fetch ==
    /\ fetching /\ fetching' = FALSE /\ shown' = license
    /\ UNCHANGED <<license, queue, emitting, caller, ack, changes, told, due>>

\* The application dies and is started again; the window fetches the license.
Restart ==
    /\ queue' = 1 /\ emitting' = FALSE /\ caller' = Started
    /\ shown' = license /\ fetching' = FALSE /\ due' = FALSE
    /\ UNCHANGED <<license, ack, changes, told>>

Publication(c) ==
    \/ Drain(c) \/ Pop(c) \/ ReadLicense(c) \/ Compare(c)
    \/ CallPublisher(c) \/ PublisherFails(c) \/ SettingsFail(c) \/ Commit(c)

Next ==
    \/ \E c \in Callers : Request(c)
    \/ \E c \in All : Publication(c)
    \/ Expire \/ Fetch \/ Restart

Spec == Init /\ [][Next]_vars

-----------------------------------------------------------------------------
(* Properties.                                                             *)

\* Nothing is under way that a later step would publish.
Quiet == queue = 0 /\ ~ emitting /\ \A c \in All : At(c, "idle")

\* No change is lost between the one who asks for a publication and leaves and the
\* one who is emitting and stops: when all is quiet the acknowledged license is the
\* license, unless it expired since anybody asked, or the publisher or the settings
\* have failed.
Settled == Quiet /\ ~ due => ack = license

\* A license that was never delivered is never acknowledged, so that a failed
\* delivery is attempted again.
AckIsDelivered == ack \in told \cup {None}

\* "Delivery is at-least-once across emit/commit failures": when all is quiet the
\* window shows the license.
WindowKeepsUp == Quiet /\ ~ due /\ ~ fetching => shown = license
=============================================================================
