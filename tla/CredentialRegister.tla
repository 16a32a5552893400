------------------------- MODULE CredentialRegister -------------------------
(***************************************************************************)
(* What the application promises about a named Provider key, whatever the  *)
(* database and the OS keychain do underneath: every key is one register   *)
(* holding a version and at most one secret.  A mutation replaces the      *)
(* secret and the version in one step and moves the version up by one; a   *)
(* reader that is answered holds the secret and the version that were      *)
(* current together when it was answered.                                  *)
(***************************************************************************)
EXTENDS Naturals

CONSTANTS Keys,     \* identities of the named keys
          Secrets,  \* the secret values a user can enter
          Readers,  \* callers that need the plaintext of a key
          None      \* no secret / no answer

VARIABLES cred,     \* [Keys -> state, version and secret]
          answer    \* [Readers -> what the reader was last given, or None]

vars == <<cred, answer>>

States == {"new", "live", "gone"}

Answers == [key : Keys, version : Nat, secret : Secrets]

TypeOK ==
    /\ cred \in [Keys -> [state : States, version : Nat, secret : Secrets \cup {None}]]
    /\ answer \in [Readers -> Answers \cup {None}]

Init ==
    /\ cred = [k \in Keys |-> [state |-> "new", version |-> 0, secret |-> None]]
    /\ answer = [r \in Readers |-> None]

\* A named key is added without a secret.
Create(k) ==
    /\ cred[k].state = "new"
    /\ cred' = [cred EXCEPT ![k].state = "live"]
    /\ UNCHANGED answer

\* The secret is set, replaced or (secret = None) cleared, with the version.
Write(k, secret) ==
    /\ cred[k].state = "live"
    /\ secret # cred[k].secret
    /\ cred' = [cred EXCEPT ![k].version = @ + 1, ![k].secret = secret]
    /\ UNCHANGED answer

\* Only a key that owns no secret can be removed.
Delete(k) ==
    /\ cred[k].state = "live"
    /\ cred[k].secret = None
    /\ cred' = [cred EXCEPT ![k].state = "gone", ![k].version = 0]
    /\ UNCHANGED answer

Answer(r, k) ==
    /\ cred[k].state = "live"
    /\ cred[k].secret # None
    /\ answer' = [answer EXCEPT ![r] =
                    [key |-> k, version |-> cred[k].version, secret |-> cred[k].secret]]
    /\ UNCHANGED cred

\* Readers drop what they hold; a process death makes all of them do so.
Forget(R) ==
    /\ answer' = [r \in Readers |-> IF r \in R THEN None ELSE answer[r]]
    /\ UNCHANGED cred

Next ==
    \/ \E k \in Keys : Create(k) \/ Delete(k)
    \/ \E k \in Keys, s \in Secrets \cup {None} : Write(k, s)
    \/ \E r \in Readers, k \in Keys : Answer(r, k)
    \/ \E R \in SUBSET Readers : Forget(R)

Spec == Init /\ [][Next]_vars
=============================================================================
