--------------------------- MODULE JournalUpgrade ---------------------------
(***************************************************************************)
(* The schema migration that moved the credential journal from Providers   *)
(* to named keys (store/schema.rs, v25 -> v26).  It runs when the database *)
(* is opened, before any command and before the reconciliation of the      *)
(* start, over whatever the previous version of the application left in    *)
(* the two stores.  That version kept one credential per Provider; the     *)
(* protocol it ran is taken to be the one of ProviderCredentials, a key of *)
(* which stands for a Provider.                                            *)
(***************************************************************************)
EXTENDS ProviderCredentials

VARIABLES
    upgraded,   \* the migration has run
    dropped     \* staging slots of the pending operations it dropped

upgradeVars == <<vars, upgraded, dropped>>

\* The application is starting: nothing of the old process is left.
Starting ==
    /\ \A a \in Actors : pc[a] = "idle"
    /\ \A r \in Readers : reader[r].pc = "idle"
    /\ detached = {}

\* Only configured credentials become keys, only the settled journal rows of
\* those keys are copied, and the usage reports of those keys with them.
Configured(k) == keyRow[k].fp # None /\ keyRow[k].slot # None

Migrated(row) == row.status \in {"committed", "cleanup"} /\ Configured(row.key)

Migrate ==
    /\ ~ upgraded
    /\ Starting
    /\ upgraded' = TRUE
    /\ dropped' = {u \in Uuids : StagedBy(u)}
    /\ keyRow' = [k \in Keys |->
                    IF keyRow[k].state = "live" /\ ~ Configured(k)
                    THEN [keyRow[k] EXCEPT !.state = "gone", !.version = 0]
                    ELSE keyRow[k]]
    /\ journal' = [u \in Uuids |-> IF Migrated(journal[u]) THEN journal[u] ELSE NoRow]
    /\ usage' = [k \in Keys |-> IF Configured(k) THEN usage[k] ELSE NoUsage]
    /\ UNCHANGED <<store, issued, detached, actorVars, reader, crashes>>

UpgradeInit == Init /\ upgraded = FALSE /\ dropped = {}

UpgradeNext == Migrate \/ (Next /\ UNCHANGED <<upgraded, dropped>>)

UpgradeSpec == UpgradeInit /\ [][UpgradeNext]_upgradeVars

\* "Any operation still pending across the upgrade is dropped: its staging
\* slot is reconciled at startup": a secret staged by a dropped operation is
\* still named by a journal row, from which a reconciliation can find it (the
\* keychain itself cannot be enumerated), until it is deleted.
DroppedSlotsReconciled ==
    \A u \in dropped : store[u] # None => StagedBy(u) \/ Condemned(u)
=============================================================================
