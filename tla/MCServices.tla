----------------------------- MODULE MCServices -----------------------------
(***************************************************************************)
(* TLC instances of the services that share no state with one another.     *)
(* Their product would show nothing that the parts do not, so a behaviour  *)
(* is of one of them, and the others stay where they began.                *)
(***************************************************************************)
EXTENDS Naturals, Sequences, FiniteSets

CONSTANTS
    Commands, Selections, MaxBackups,
    Urls,
    Accounts, Procs, MaxLogins, MaxRotations,
    Owners, MaxLines, MaxTotal, MaxFiles, MaxWrites, MaxCommands, MaxBindings,
    None, Uploads, Downloads, MaxWait,
    Devices, MaxEdits, MaxCalls,
    Callers, Startup, Licenses, MaxChanges,
    Routed, Logged, Alike, Models, Offset, HoursPerDay, DetailDays, Community, Targets, MaxTime,
    Counted, NamedKeys, Slots, Blank, Retain, MaxCopies

VARIABLES
    service,
    config, backups, unrouted, scripted, cmd, before,
    settings, backup, absent, step,
    accounts, cached, disk, lockOf, persisting, proc, logins, gone, behind,
    files, path, clock, dirtime, cursors, events, logs, owner, bindings, commands, pass, lost,
    enabled, signal, worker, elapsed, patience, command, lock, owed,
    local, remote, op, calls, edits, made, built, applied, torn,
    license, queue, emitting, caller, ack, shown, fetching, changes, told, due,
    now, record, cost, hourly, daily, dirty, prices, repaired, highWater, pending, policy, granted, work,
    db, secrets, issued, copies, written, writer, job

Pointer == INSTANCE CodexPointer_proofs
Takeover == INSTANCE ClaudeTakeover
OAuth == INSTANCE CodexOAuth
Ingestion == INSTANCE UsageIngestion
Sync == INSTANCE AutoSync
Cloud == INSTANCE CloudSnapshot
License == INSTANCE LicensePublication_proofs
Rollups == INSTANCE UsageRollups
Database == INSTANCE DatabaseRestore_proofs WITH
    Uses <- Counted, Keys <- NamedKeys, files <- copies, made <- written

pointerVars == <<config, backups, unrouted, scripted, cmd, before>>
takeoverVars == <<settings, backup, absent, step>>
oauthVars == <<accounts, cached, disk, lockOf, persisting, proc, logins, gone, behind>>
ingestionVars == <<files, path, clock, dirtime, cursors, events, logs, owner, bindings, commands,
                   pass, lost>>
syncVars == <<enabled, signal, worker, elapsed, patience, command, lock, owed>>
cloudVars == <<local, remote, op, calls, edits, made, built, applied, torn>>
licenseVars == <<license, queue, emitting, caller, ack, shown, fetching, changes, told, due>>
rollupVars == <<now, record, cost, hourly, daily, dirty, prices, repaired, highWater, pending, policy,
                granted, work>>
databaseVars == <<db, secrets, issued, copies, written, writer, job>>
vars == <<service, pointerVars, takeoverVars, oauthVars, ingestionVars, syncVars, cloudVars,
          licenseVars, rollupVars, databaseVars>>

Init ==
    /\ service \in {"pointer", "takeover", "oauth", "ingestion", "sync", "cloud", "license", "rollups",
                   "database"}
    /\ Pointer!Init /\ (service # "pointer" => config.sel = "none")
    /\ Takeover!Init /\ (service # "takeover" => settings = Takeover!Missing)
    /\ OAuth!Init
    /\ Ingestion!Init /\ (service # "ingestion" => owner = CHOOSE a \in Owners : TRUE)
    /\ Sync!Init /\ (service # "sync" => enabled)
    /\ Cloud!Init
    /\ License!Init /\ (service # "license" => ack = None /\ license = CHOOSE l \in Licenses : TRUE)
    /\ Rollups!Init /\ (service # "rollups" => record = [r \in Rollups!Rows |-> None])
    /\ Database!Init /\ (service # "database" => copies = <<>>)

Next ==
    /\ UNCHANGED service
    /\ IF service = "pointer" THEN Pointer!Next ELSE UNCHANGED pointerVars
    /\ IF service = "takeover" THEN Takeover!Next ELSE UNCHANGED takeoverVars
    /\ IF service = "oauth" THEN OAuth!Next ELSE UNCHANGED oauthVars
    /\ IF service = "ingestion" THEN Ingestion!Next ELSE UNCHANGED ingestionVars
    /\ IF service = "sync" THEN Sync!Next ELSE UNCHANGED syncVars
    /\ IF service = "cloud" THEN Cloud!Next ELSE UNCHANGED cloudVars
    /\ IF service = "license" THEN License!Next ELSE UNCHANGED licenseVars
    /\ IF service = "rollups" THEN Rollups!Next ELSE UNCHANGED rollupVars
    /\ IF service = "database" THEN Database!Next ELSE UNCHANGED databaseVars

Spec == Init /\ [][Next]_vars

-----------------------------------------------------------------------------

\* The user's Codex configuration is never lost.
UserSettingsKept == Pointer!UserSettingsKept

\* Pointing Codex away selects whom it was pointed away from.
SelectionRestored == Pointer!SelectionRestored

\* A redirected Claude Code can be restored.
TakeoverSaved == Takeover!TakeoverSaved

\* No refresh brings a removed ChatGPT login back.
RemovedStaysAway == OAuth!RemovedStaysAway

\* The file of ChatGPT accounts is what the memory is.
FileKeepsUp == OAuth!FileKeepsUp

\* No use in a session log is skipped, but for the ones that are documented.
NothingElseSkipped == Ingestion!NothingElseSkipped

\* A use is stored with its own amount, however its file was read.
AmountsAreRight == Ingestion!AmountsAreRight

\* A change of the database is always announced to the worker that uploads.
ChangeIsAnnounced == Sync!ChangeIsAnnounced

\* What a download applies was one snapshot.
AppliedIsWhole == Cloud!AppliedIsWhole

\* A failed download leaves nothing of it behind.
NothingHalfApplied == Cloud!NothingHalfApplied

\* The last change of the license is published.
Settled == License!Settled

\* An acknowledged license was delivered.
AckIsDelivered == License!AckIsDelivered

\* A record is counted by its detail or in its day, and in one of them only, or is
\* hidden by one that is.
RecordsCount == Rollups!RecordsCount

\* Hourly totals agree with the details, or are marked.
HourlyMatchesDetails == Rollups!HourlyMatchesDetails

\* Pruning respects what a license has granted.
GrantedIsKept == Rollups!GrantedIsKept

\* No restore or import separates a secret from its row.
SecretsKeepTheirRow == Database!SecretsKeepTheirRow

\* A database that is replaced has its backup.
SafetyBackupIsThere == Database!SafetyBackupIsThere
=============================================================================
