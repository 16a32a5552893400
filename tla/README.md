# A verification development for LLM Usage Bar

LLM Usage Bar is a desktop application (Tauri 2: a Rust process, a React
window) that shows what AI coding agents spend. It stores the API keys of
Providers, asks Providers for usage reports, reads the logs of local agents,
and can run a local router between an agent and its Providers. This directory
models the parts of the Rust process (`src-tauri/src`, abbreviated below) in
which state is spread over several stores, several tasks or several devices,
checks them with TLC, and proves with TLAPS, for every value of the constants,
every safety invariant and every action property that the runs check.

## The system and its parts

| Component | State | Operations | Interacts with | Module |
|---|---|---|---|---|
| **Provider key credentials** `secrets/service.rs`, `store/dao/provider_*.rs`, `secrets/lifecycle_lock.rs` | key rows, journal and usage snapshots in SQLite; secrets in the OS keychain; a reader/writer lock | create, set, replace, clear, delete a key; resolve a secret; store a report; reconcile | keychain, Provider connections | `ProviderCredentials` |
| **Schema migration of the journal** `store/schema.rs` | the database | v25 to v26 moves credentials from Providers to named keys | runs before anything else | `JournalUpgrade` |
| **Import, restore, sync of the database** `store/backup.rs` | the whole database, backup files | replace it, keeping this device's secrets | exclusive lifecycle lock, backup timer | `DatabaseRestore` |
| **Usage watcher** `usage/watcher.rs`, `watcher_state.rs`, loop in `lib.rs`, `app_state/background/*` | per source: generations, deadline, failures | mark dirty, begin, finish, fall back, shut down | OS file events, ingestion | `UsageWatcher` |
| **Usage ingestion** `usage/ingestion.rs`, `ingest/*`, `usage_sync_cursors.rs` | cursors, two tables of records | read a log from its cursor on | watcher, command `sync_session_usage` | `UsageIngestion` |
| **Router** `route/server.rs`, `decision.rs`, `failure.rs`, `transport.rs` | per request; blacklist; one row per request | choose a Provider, fail over, settle | gate, Providers, clients | `Router` |
| **Policy gate, hold queue** `policy/gate.rs`, `pending.rs` | held requests | admit, deny, hold, release | router | `Router` |
| **License lifecycle** `policy/lifecycle.rs` | queue of publications, acknowledgement | enqueue, emit, acknowledge, expire | event bus, window | `LicensePublication` |
| **Codex pointer** `route/pointer.rs` | `config.toml`, copies of it | point Codex at the router and back | file system, the user | `CodexPointer` |
| **Claude takeover** `route/takeover.rs` | `settings.json`, copy or marker | redirect and restore | the same | `ClaudeTakeover` |
| **Codex OAuth** `secrets/codex_oauth_auth.rs` | accounts, tokens, a file | add, remove, refresh, clear | network, dropped requests | `CodexOAuth` |
| **Cloud auto-sync** `sync/*_auto_sync.rs` | a channel of one, a suppression depth | collect changes, debounce, upload | database hook, manual commands | `AutoSync` |
| **Cloud snapshots** `sync/webdav_sync.rs`, `s3_sync.rs`, `sync_protocol.rs` | remote files, local database and skills | upload, download, apply | other devices | `CloudSnapshot` |
| **Rollups and metering** `store/dao/hourly_rollup.rs`, `usage_rollup.rs`, `usage_stats.rs`, `license_retention.rs` | details, daily and hourly totals, marks, retention | record, fill in costs, repair, prune, grant | router, ingestion, licenses | `UsageRollups` |
| **Tray snapshot** `usage/tray_usage.rs`, `tray_usage_scheduler.rs`, `usage_events.rs` | the snapshot shown, an action gate | rebuild after changes, at midnight, on request | database hook | `TrayUsage` |

The rest (agent bindings, transports, key usage scheduler, quota probes, budget
alerts, other migrations, settings, command line, presentation) is in the
`components` of `PROJECT.json`, each with the reason it is left out.

What is hard, and what makes each part correct:

* *Credentials.* No transaction spans SQLite and the keychain, and the keychain
  cannot be enumerated: a secret nobody names is lost for good. A command can
  fail, be cancelled or die between its awaits; a cancelled keychain call still
  runs and lands later. The credential a row shows must be usable, no secret
  stranded, no secret in use deleted, no late report shown for a newer one.
* *Database replacement.* Uses are recorded and keys come and go while a backup
  is staged; backups are rotated meanwhile. Secrets must keep their rows, and
  until the replacement a backup must hold what was there.
* *Watcher and ingestion.* Events are lost, arrive during a pass, or never come;
  the log is torn, replaced and read by two passes at once. No write may stay
  unread, none be stored under the wrong number, none be skipped.
* *Router and gate.* A fallback must be admitted again, a held request settled
  once whoever ends it, and a Provider that has failed must rest.
* *Pointer and takeover.* Two commands overlap, the user edits in between, the
  process dies anywhere: what the user had must stay in some file.
* *OAuth.* A refresh under way must not bring back an account that was removed.
* *Licenses.* Whoever asks for a publication leaves it to whoever is emitting:
  none may be lost between the two, none acknowledged undelivered.
* *Sync.* A dropped signal must not lose a change; a download must not mix two
  uploads of other devices, nor leave half of one.
* *Rollups.* A record must stay counted, and none be counted twice, whatever is
  matched, summed and pruned in between; what hides it must be counted itself.
* *Tray.* What is shown must be current, or known to be stale, or on its way.

`PROJECT.json` lists each hazard at its line, with the properties that would
catch it.

## Modules

```
CredentialRegister           what a key promises: one versioned register
        ^ refined by
ProviderCredentials          ProviderCredentials_proofs, CredentialRefinement_proofs
   ^            ^
   |            JournalUpgrade                    the v26 migration on top
   MCProviderCredentials                          TLC: symmetry

UsageWatcher                 UsageWatcher_proofs
Router  <- MCRouter          \  Daemons_proofs
TrayUsage                    /
   ^ all three composed in MCDaemons

CodexPointer                 CodexPointer_proofs
LicensePublication           LicensePublication_proofs
DatabaseRestore              DatabaseRestore_proofs
ClaudeTakeover, CodexOAuth, UsageIngestion,
AutoSync, CloudSnapshot, UsageRollups
   ^ all nine composed in MCServices              Services_proofs

UsageWatcher, UsageIngestion, Router, AutoSync
   ^ composed in MCFairServices                   liveness of each
```

`MCDaemons`, `MCServices` and `MCFairServices` compose components that share no
state in the code. Their full product would show nothing that the parts do not,
so a variable `service` says which of them a behaviour is of, and the others
stay where they began.

### Credentials: `CredentialRegister`, `ProviderCredentials`, `JournalUpgrade`

| Variable | In the code |
|---|---|
| `keyRow` | `provider_api_keys`: `credential_version`, `credential_slot`, `api_key_fingerprint`; `state` is `new` before the row exists, `gone` after its deletion |
| `journal` | `provider_credential_operations`; `gen` is `generation`, `previous` is `previous_slot` |
| `usage` | `provider_key_usage_snapshots` |
| `store` | the keychain: slot to secret |
| `issued` | which key a slot name was generated for (every name has a fresh UUID) |
| `detached` | closures on the blocking pool whose caller was cancelled |
| `pc`, `req`, `pass`, `reader` | the commands, the pass of the reconciler, a resolution |

Each database call is one transaction and one action, each keychain call is an
action, and the awaits lie between actions: `CreateKey`; `Begin`, `Reserve`,
`Put`, `Publish`, `CheckPrevious`, `DeleteSlot…`, `Finish` and their failures for
the mutations; `Claim`, `Recheck`, `FinishClaim`, `DropPending` for
`cleanup_provider_staging_after_failure`; `View`, `DeleteRow`, `BeginDelete` for
the delete command; `BeginReconcile`, `ReconcileEntry`, `EndPass` for
`reconcile_provider_entries_locked`; `ResolveStart`, `ResolveGet`,
`ResolveRecheck`, `StoreUsage` for the readers; `DetachedEnds` and `Crash`. One
identifier stands for an operation and the slot journalled with it, which the
code generates together. The lifecycle lock is not a variable: commands are its
sharers from `Begin` to their return, together with puts left behind.

`CredentialRegister` says what all of this is for: per key a version and at most
one secret that change together in one step, and answers to readers that were
current together. The mapping reads the secret *from the keychain*, through the
slot of the row, so a step that damaged the item a row points at would be a step
the register cannot take. `JournalUpgrade` runs the migration over whatever state
the old version died in.

### `UsageWatcher`

`dirty`, `pass`, `wait`, `failures` are the generations (counted from the
completed one), the syncing generation and epoch, the deadline (counted from
now) and the backoff of each source; `interval`, `epoch`, `shutdown` are the
fields of `WatcherSchedule`; `handle`, `watched`, `event` the watcher and the
events under way; `driver`, `due`, `scanned` the task of `lib.rs`; `exit` the
shutdown. Each critical section of the schedule's mutex is one action
(`MarkDirty`, `BeginDue`, `FinishPass` inside `EventArrives`, `Begin`,
`Finish`); the scan of a log runs outside it (`Scan`). An aborted task ends only
where it awaits (`Cancelled`). A tick is one minute.

### `Router`

`req` is what the handler of each request keeps (`RequestContext` and its
locals); `row` is `proxy_request_logs`; `waiting` the registry's queue with the
outcome of each hold; `blacklist` counts cooldowns down, 0 being an entry that
has run out and, as in the code, stays in the list; `exit` is the drain at the
end. A handler goes from `reading` over `next`, `auth`, `admit`, `held`, `send`,
`sending`, `draining`, `streaming` to `done`; `ClientGone` may drop it wherever
it awaits. The candidates that are left are a set, and `Current` is the first of
them in the order of the route. Gate and registry are traits whose
implementations are not in this repository: every decision and every outcome may
come at any time.

### `TrayUsage`

`data` is the content of the database (a number), `shown` the snapshot in the
tray with its `stale` mark, `gate` the debounced action (`Idle`, `Scheduled`,
`Running`, `RunningDirty`), `job` where the start, the debounced rebuild, a
command that sets a budget, a refresh and the midnight loop stand, `lock` the
mutex under which they read and show.

### `CodexPointer`, `ClaudeTakeover`

Of a file the models keep whether it parses, which Provider (or URL) it
selects, and whether all is in it that the user had when he last wrote to it.
Every step of `point_codex_at_router_inner` and `disconnect_codex_inner` (read,
copy, replace, verify, restore; look, leave, unpoint) is an action, two
commands overlap, the user edits and deletes at any time, the process restarts
anywhere, and `codex-unroute.sh` copies the newest backup back. Each connection
makes a backup of its own (`backups`), while `config.toml.before-unroute` is
one file that every disconnection overwrites (`unrouted`); the script's copies
bear the time (`scripted`). The code takes the newest backup by modification
time, the model by creation: nothing writes to one after it was made. `before`
remembers what the user selected before the file was pointed at the router, and
whether the newest copy not pointed at the router has it. `ClaudeTakeover` has
the commands of Claude Code's `settings.json`, which run one at a time.

### `CodexOAuth`

Accounts with refresh tokens in memory (`accounts`) and on disk (`disk`),
access tokens (`cached`), a lock per account (`lockOf`) and one for the file
(`persisting`). A refresh takes the account's lock, sends, commits if the login
is still there, and persists; it is dropped with its request anywhere. Logins,
removals and logouts run against it; `gone` are the logins whose end was
reported. At the start a file that cannot be read or parsed is only logged
(`codex_oauth_auth.rs:339`): the application goes on without accounts beside a
file that has them, and the next login replaces it. `Restart` may end this way,
and `behind` says so until the file has been written again.

### `UsageIngestion`

Two kinds of pass read one path, whose file may be appended to, torn and
replaced: the bound one, one at a time, and the unbound one of a command. `List`,
`Open`, `Read`, `Insert` (a transaction per record), `Advance` (the cursor) and
their failures are actions; cursors may be pruned, sources rebound, and the
process may die. `lost` are lines that a cursor moved over without a record:
unfinished when they were counted, or not stored by an unbound pass.

### `AutoSync`, `CloudSnapshot`

`AutoSync` has the channel of capacity one, the worker with its debounce and its
maximal wait, suppression while a download is applied, the settings switch and
the lock of the manual commands. `CloudSnapshot` has two devices that put and get
database, skills and manifest one by one, and apply a download with its undo.

### `LicensePublication`

`queue`, `emitting` and `ack` are the state of the publisher; a caller goes
through `drain`, `pop`, `read`, `compare`, `call`, `commit`. The license
changes and expires at any time, the publisher fails (`PublisherFails`), the
settings cannot be read before the delivery or read, written or committed after
it (`SettingsFail`), the process restarts, and a window fetches when it gets
the event. Whoever fails goes on with the next publication; `due` remembers
that the last license may not be acknowledged.

### `UsageRollups`

Of a sum the model keeps which rows are in it, how often and with what cost:
`cost` (the details), `daily`, `hourly`, `dirty` (hours to sum again), `work`
(the maintenance: costs, repair, pruning), and the retention (`policy`,
`highWater`, `pending`, `granted`). Time is in half hours. There are records of
the router (`Routed`) and of session logs (`Logged`); a use may have one of
each. Nothing in the tables says which belong together:
`has_matching_proxy_usage_log` and `deduplicated_log_filter` compare
application, model, numbers of tokens and success, and take what is within ten
minutes. So `Matches` is about records that look alike (`Alike`, any relation
between the two kinds), not about uses: a record of the router hides session
records of other uses as well.

### `DatabaseRestore`

`db` is the live database (uses in details and hourly totals, rows of keys),
`secrets` the keychain, `files` the backups, `writer` a snapshot that is being
written (by the job or the timer), `job` a restore, import or sync: `Begin`,
`TakeSnapshot`, `WriteBackup`, `Stage`, `Replace` or `Reject`.

## Runs

All runs are exhaustive. `CHECK_DEADLOCK FALSE` everywhere, because operation
ids, writes and changes are finite in an instance and because an idle
application may stay idle.

| Run | Module | Instance | Shows |
|---|---|---|---|
| `credentials` | `MCProviderCredentials` | 1 key, 3 operations, 2 secrets, 2 commands, 1 reader, 1 crash; symmetric | the safety of the credentials, and that they implement the register |
| `credential_fairness` | `MCProviderCredentials` | 1 key, 2 operations, 1 command, 1 reader, 1 crash | every call returns; the journal drains |
| `daemons` | `MCDaemons` | watcher: 1 source, intervals 1 and 2 changed twice, although in this version only the tests of the code call `set_interval`; router: 1 request with 3 candidates, 2 requests for a queue of 1, 2 requests for 2 models of a Provider that has failed before; tray: 2 changes, 1 midnight | safety of the three |
| `services` | `MCServices` | nine services, see below | safety of the nine |
| `services_fairness` | `MCFairServices` | watcher, ingestion, router, auto-sync, each alone and small | liveness of the four |
| `journal_upgrade`, `claude_disable`, `ingest_watermark`, `license_window`, `hourly_history`, `restore_chosen`, `sync_history` | the modules themselves | the smallest that shows it | a violation each: see Findings |

Bounds, and why they are enough:

* Credentials: three operations on one key are enough for set, replace and a
  third that meets the leftovers of both; two commands for every conflict of two
  reservations, or of a command and a cancelled predecessor; readers neither see
  nor touch each other. `Uuids` bounds the mutations, `MaxCrashes` the deaths.
  Failures and cancellations are not bounded.
* Watcher: an interval of one minute is the real one. `MaxMarks` = 2 tells a mark
  before a pass from one during it; `MaxEpoch` = 2 outdates a pass in two ways;
  `MaxAge` is the largest interval. `FallbackInterval` is 6 in `daemons`, three of
  the longest intervals, so that passes, backoff and changes all happen between
  two fallbacks, and 2 in `services_fairness`, whose properties need only that it
  comes.
* Router: three candidates for a fallback after a fallback; two requests for
  everything requests share (the queue, the blacklist). Cooldowns of 1 let an
  entry be fresh, run out, and be replaced.
* Ingestion: two lines are the least with one above and one below a watermark,
  two files the least for a replacement, three writes (two for liveness) the least
  for tearing, completing and replacing.
* Pointer: two commands overlap; two copies, of which one may be of the other
  command's text.
* OAuth: two accounts, two calls, two logins: a refresh of a login that was
  removed or replaced by another one.
* Cloud: two devices, two edits, two calls each: a mixture of two uploads needs no
  more.
* Licenses: two callers (and the start), two licenses, three changes: there and
  back and there again.
* Rollups: a record of the router and one of a session that look alike, which
  may be of one use or of two, and are of one model; a hold that an older
  version counted may be there to begin with. Hiding is between two records, so
  a third shows nothing more; `hourly_history` has two that do not look alike.
  Hours and days of the least size, a clock (4 half hours) that reaches past
  the retention of the community build.
* Database: one use, one key, one slot; `Retain` = 3 with a directory that is empty
  or full to begin with, and two copies of the timer.

### Properties

Credentials: `ActiveSecretPresent` (the slot a row points at holds the secret of
its fingerprint), `NoStrandedSecret` (every secret belongs to a row or is named by
a journal row that leads to its deletion), `UsageMatchesCredential`,
`DeletedKeyLeavesNothing`, `ImplementsRegister`, `EveryCallReturns`,
`JournalDrains`.

Watcher: `UnreadIsAnnounced` (while the driver waits, an entry nobody has read is
in a dirty source, or its event is under way, or it was lost and the fallback is
for it), `PassesApart` (passes of a source begin at least the interval in force
apart), `NothingOutlivesShutdown`, `EveryWriteIsRead`, `ShutdownEnds`.

Router: `SentWhereAdmitted` (a request reaches only Providers that the gate let it
go to, fallbacks included), `RowTellsOutcome` (the row says what the client was
told), `DrainedIsAudited` (when the drain is through, whoever it turned away has a
row), `FailedProviderRests` (within the short cooldown a failed Provider is among
no candidates of the automatic mode), `EveryRequestEnds`.

Tray: `ChangeIsShown` (what is shown is current, marked stale, or a rebuild is on
its way), `NoStuckProgress`.

Pointer and takeover: `UserSettingsKept` (all that the user had is in the file or
in a copy), `SelectionRestored` (whom Codex was pointed away from is selected
again), `TakeoverSaved` (redirected settings can be restored).

OAuth: `RemovedStaysAway` (nothing of a login comes back after its end was
reported), `FileKeepsUp` (when nobody writes, the file was loaded or has been
written since the start, and the last write went through, the file is the
memory).

Ingestion: `NothingElseSkipped` (no cursor moves over a use that was not stored,
but for the two cases in `lost`), `AmountsAreRight` (what is stored under a number
is what that line added to the total), `EveryUseIsStored`.

Sync: `ChangeIsAnnounced`, `EveryChangeIsDealtWith`, `AppliedIsWhole` (what a
download applies was one snapshot of one device), `NothingHalfApplied`.

Licenses: `Settled` (when all is quiet the current license has been
acknowledged, unless the publisher or the settings failed, or it expired, since
anybody asked), `AckIsDelivered`.

Rollups: `RecordsCount` (a record is counted, by its detail or in its day and
not in both, or the router has recorded what looks like it, and that is
counted), `HourlyMatchesDetails`, `GrantedIsKept` (pruning takes no hour that a
license ever granted).

Database: `SecretsKeepTheirRow`, `SafetyBackupIsThere` (until the replacement a
backup has what was counted when the job began).

`TypeOK` of `credentials` and `daemons` are their type invariants.

### Fairness

* `ProviderCredentials!FairSpec` asks that a call that has begun comes back, with
  a result or an error: weak fairness of the *disjunction* of the next steps.
  `JournalDrains` adds, as its hypothesis `ReconciliationRetried`, that
  reconciliation is requested again and again (it runs at every start and around
  every replacement of the database) and that none of its steps fails for ever.
* The watcher's driver goes on, time passes, a shutdown goes on (weak fairness);
  a sync that is tried again and again is clean at some time (strong fairness, per
  source). Writes, events, their loss and the wish to quit are free.
* Ingestion: the watcher starts passes again and again; steps that are possible
  again and again happen (strong fairness of the successful ones, so that deaths
  and failures do not strike at the same place for ever).
* Router: handlers go on, upstreams answer or time out, the registry owns a
  timeout for every hold, a drain ends (weak fairness). Nobody has to hang up.
* Auto-sync: the worker runs, time passes and transfers end (weak fairness); the
  lock, tokio's, is given in turn (strong fairness of taking it).

### Mutants

Each property of a passing run has one plausible bug that violates it, an
operator next to the one it replaces, such as a failure of a keychain call that
goes unnoticed, a deletion that does not look at the journal, a fallback that is
not admitted again, a blacklist entry that is not replaced, a ticket given up
before its row is written, a file that cannot be read taken for an empty one, a
refresh that does not look whether the login is still there, a cursor that belongs
to the path and not to the file, a publication not asked for while somebody is
emitting, a retention that replaces what was granted before, the oldest backups
kept in place of the newest.

## Theorems

All safety properties of the passing runs are proved, for every value of the
constants. Assumptions of constants that TLC evaluates are named in the module
that declares them; the others are hypotheses of the theorem.

| Theorem | Property | Assumptions |
|---|---|---|
| `ProviderCredentials_proofs`: `Typed`, `ActivePresent`, `NoneStranded`, `CleanupSpares`, `DeletionComplete`, `UsageCurrent` | `TypeOK`, `ActiveSecretPresent`, `NoStrandedSecret`, `NothingActiveIsCondemned`, `DeletedKeyLeavesNothing`, `UsageMatchesCredential` | `Uuids` finite, the reconciler no command |
| `CredentialRefinement_proofs`: `Refinement` | `ImplementsRegister` | the same |
| `UsageWatcher_proofs`: `WatcherTyping`, `UnreadAnnounced`, `ShutdownLeavesNothing`, `PassesKeepApart` | `TypeOK`, `UnreadIsAnnounced`, `NothingOutlivesShutdown`, `PassesApart` | intervals positive and at most `MaxAge` |
| `Daemons_proofs`: `OnlyAdmittedAreSent`, `RowsTellOutcomes`, `DrainsAreAudited` | `SentWhereAdmitted`, `RowTellsOutcome`, `DrainedIsAudited` | `Nothing`: no row and no hold is none of the outcomes |
| `FailedProvidersRest` | `FailedProviderRests` | `Nothing`, `NoNumber`: no cooldown is no number |
| `ChangesAreShown`, `ProgressEnds` | `ChangeIsShown`, `NoStuckProgress` | `Somebody`: nobody is no job |
| `Services_proofs`: `SettingsAreKept`, `SelectionComesBack` | `UserSettingsKept`, `SelectionRestored` | none |
| `RedirectedIsSaved` | `TakeoverSaved` | `OwnUrls`: no URL of the user's is the router's |
| `RemovedStayAway`, `AccountsAreSaved` | `RemovedStaysAway`, `FileKeepsUp` | `Somebody` |
| `NothingIsSkipped`, `AmountsAreKept` | `NothingElseSkipped`, `AmountsAreRight` | `SomeFile`: the path names a file |
| `ChangesAreAnnounced` | `ChangeIsAnnounced` | none |
| `DownloadsAreWhole`, `FailedDownloadsAreUndone` | `AppliedIsWhole`, `NothingHalfApplied` | `NoPair`: `None` is no snapshot |
| `ChangesAreSettled`, `AcksAreDelivered` | `Settled`, `AckIsDelivered` | `None` is no license |
| `EveryRecordCounts`, `HoursMatchDetails`, `GrantsAreKept` | `RecordsCount`, `HourlyMatchesDetails`, `GrantedIsKept` | `Windows`: no record of the router is one of a session; details are kept no longer than the hours of the community build, and these no longer than any license grants (`app_state.rs`: at most 365 days; `hourly_rollup.rs:34`: 400 and 730) |
| `SecretsAreKept` | `SecretsKeepTheirRow` | at least one backup is kept (`effective_backup_retain_count`), two marks are no slots |
| `BackupBeforeReplacement` | `SafetyBackupIsThere` | at least three backups are kept (the default is ten) |

The theorems of `CodexPointer_proofs`, `LicensePublication_proofs` and
`DatabaseRestore_proofs` are about their modules alone; `Services_proofs` carries
them over to the specification that TLC checks: a behaviour of `MCServices` is one
of each service, because a step of another leaves its variables alone
(`PointerRuns`, `LicenseRuns`, `DatabaseRuns`). The others are proved about the
composition directly. `FailedProvidersRest` is about the router's own
specification, whose requests may begin with any model.

### Arguments

None of the properties is inductive. What has to be added:

* **Credentials** (`IInv`, checked by TLC first). `IssuedInv`: a slot name that was
  never issued is in no store and no row, and each slot is only ever used for its
  own key. `PendingInv`: a pending row freezes its key. `DeadInv`: a slot that a
  cleanup or a detached delete aims at is never used by a row again, which is why
  a delete nobody waits for is harmless whenever it lands. `LockInv`: the
  reconciler is alone. `OwnInv`: what a command knows of its own journal row.
  `DetachedPutInv`: a put left behind still has its row. `ReaderInv`, `PassInv`.
  The refinement needs that a command replaces a secret by another (`NewSecret`)
  and that a resolution is of a key that has one (`OldSecret`); then every step
  but three maps to a stutter.
* **Watcher.** `RoundInv`: what the driver holds of its round is what the schedule
  has recorded of it, so a report is never stale. `MarkInv`: `UnreadIsAnnounced`
  for every step of the loop. `AgeInv`: the time since the last pass and the time
  still to wait add up to the interval. `HandleInv`.
* **Router** (`RouterInv`). `Granted`: what is about to be sent was let go.
  `Told`: before the end there is no row, and each of the places at which a
  handler may be dropped with one allows only its own. `Queued`: who is in the
  queue is held or leaves it. `Audited`: whom the drain turned away is still in
  the queue, or has its row.
* **Blacklist** (`RestInv`). `Listed`: as long as a Provider rests for a model, an
  entry for that model or for all of it has at least as much time left. The short
  cooldown is not above the long one, a newer entry replaces the one of its scope,
  and the two scopes do not overwrite each other. `Stays`: only the choice of the
  candidates puts a request in automatic mode.
* **Tray** (`TrayInv`). Somebody *owes* a snapshot: a change not sent yet, a
  debounced action that is dirty, or a job that *promises* one because it has yet to
  read, or has read what the database still holds. `OneWriter`: who reads or shows
  has the lock. `GateTells`: the gate says where the debounced action stands.
* **Pointer.** `Copied`/`Safe`: a command that is about to replace the file has
  all of it in its own text, or there is a copy. What a disconnection leaves
  does not count, since the next one overwrites it: `InFile` says that the file
  itself has all, unless the script, whose copies stay, has put an older one in
  its place. `BackedInv`: as long as `before` says so, the newest copy of a
  file not pointed at the router has the Provider that was selected when it was
  pointed there.
* **Takeover** (`TakeoverInv`). What is written has been saved; nothing is saved of
  a file that points at the router.
* **OAuth** (`OAuthInv`). Each login is of one account; only the holder of the
  persistence lock is between a change and its write, and what it ends is no
  longer in the tables, but for the access token it has yet to replace.
* **Ingestion** (`IngestionInv`). `CoveredTo`: the lines up to a watermark are whole
  and stored, or remembered. `Reads`: what a pass has read is stored, missed or
  still to store. A log only grows (`WorldGrows`), so neither is undone by a write,
  and what a line adds to the total depends on whole lines only (`TotalBefore`).
* **Auto-sync.** `ChangeIsAnnounced` is inductive. **Snapshots** (`CloudInv`).
  `OneSnapshot`: what has been fetched is what the manifest names. `Undone`: skills
  replaced before an import are put back if it fails.
* **Licenses.** `EmitterInv`: one emits, and the flag tells. `QueueInv`: somebody
  will look at the queue. `ChangeInv`: what was asked to be published is published
  or on its way. `DeliveryInv`: only the emitter changes the acknowledgement.
* **Rollups** (`RollupInv`). `RowInv`: a row is in the details or once in its
  day. `HourInv`: a detail is in its hour, or the hour is marked. `UseInv`:
  only a session's record may be in neither, and then one of the router that
  the gate let through, and that counts, looks like it (`Hidden`). `WorkInv`:
  only marked hours are summed again, and when hours are pruned no detail older
  than the cutoff is left. `RetentionInv`: more than the community build keeps
  was granted only to a high water.
* **Database** (`SafetyInv`). The backup that has what was there is near the end of
  the list: at most one file of the timer and one in place of the chosen file can
  be newer (`Newer`), which is where the three come from.

Two proofs corrected the model. The history variable of `SelectionRestored` called a
copy the newest although a later copy of a later selection existed, which TLC could
not see with two copies; `Copy` and `NewestIs` now say which copy counts. And the
candidates of a request are a set in the order of the route, where a sequence had
been filtered: the order is that of the configuration and nothing else.

### Only model-checked

The liveness properties `EveryCallReturns`, `JournalDrains`, `EveryWriteIsRead`,
`ShutdownEnds`, `EveryUseIsStored`, `EveryRequestEnds`, `EveryChangeIsDealtWith`:
liveness under fairness is out of the prover's reach.

## Findings

* `journal_upgrade`: *a pending operation is lost in the v26 migration.*
  `store/schema.rs:1699` says that the staging slot of an operation pending across
  the upgrade "is reconciled at startup". The migration copies rows with
  `status <> 'pending'` (line 1734) and drops the table; nothing names the slot
  any more, and reconciliation works from the journal alone.
* `claude_disable`: *a redirection that cannot be taken back.*
  `ensure_claude_backup` copies `settings.json` before `write_claude_base_url` looks
  whether it can be parsed (`route/takeover.rs:522`). The copy of a broken file
  stays when the user has mended it; the next enable succeeds over it, and every
  disable fails on it (line 544).
* `ingest_watermark`: *an unfinished line is counted as read.* The watermark is
  the number of lines, whether or not the last could be parsed
  (`ingest/mod.rs:413`); when it is complete it is below the watermark. Line 63
  says that such lines have been stored.
* `license_window`: *a window that is not told.* `publish` compares with the
  last license that was acknowledged, not the last that was sent
  (`policy/lifecycle.rs:159`): after a failure of the settings, of the
  publisher or of the acknowledgement the license may be back at the
  acknowledged one and the window at the one between.
* `hourly_history`: *hourly history is summed again from details that are gone.*
  `backfill_dirty_hours` (`store/dao/hourly_rollup.rs:230`) sums a marked hour from
  the details that exist; one row recorded late, whose price becomes known, marks
  an hour whose other details were pruned.
* `restore_chosen`: *a restored backup can be pushed out by its own safety backup.*
  When the oldest of as many backups as are kept is chosen (`store/backup.rs:1970`),
  `Connection::open` then makes an empty database in its place.
* `sync_history`: *hourly totals do not survive a sync.* `usage_hourly_rollups` is
  not among `SYNC_PRESERVE_TABLES` (`store/backup.rs:140`), although the comment
  above the list says that device-local usage history is restored.

Two more places where comment and code disagree have no run, since nothing
depends on them. The blacklist is not bounded by the number of routes, as
`route/server.rs:468` has it, because an entry for a model and one for the whole
Provider stand side by side. And `stop_usage_watcher` shuts the schedule down only
if a watcher could be made (`usage/watcher.rs:254`, against the comment at 250);
`ShutdownEnds` and `NothingOutlivesShutdown` show that this does no harm.

## Not modelled, and why

* *Credentials:* renaming and the connection-test columns, the enabled flag and the
  kind of a Provider, the limit on keys per Provider (no property depends on them);
  a commit whose outcome is unknown; a keychain write that lands after the death of
  the process; two processes sharing the lock file; the slots of agent bindings,
  which have a journal of their own with the same protocol.
* *Watcher and ingestion:* a wall clock that steps back; the clamping of an interval
  that nothing configures; the order of the sources in a round; the parsers of the
  other agents, prices, renames. The ingestion of requests seen by a proxy and its
  links are called by tests only. When a source is rebound, records of the former
  account stop every bound pass (`Blocked`); `EveryUseIsStored` excepts this.
* *Router:* header filtering, rewriting, token scanning, the attempt rows, changes of
  the routes while it runs.
* *Pointer and takeover:* how a tool is authenticated, the ports, the routes and
  Providers the router is configured with.
* *OAuth:* accounts that a failed load leaves out are lost with the next login
  that is written, as in the code; no property speaks of them. Left out are the
  device flow up to its end, the default account (recomputed when it is read),
  the parsing of tokens.
* *Sync:* the older remote layout, sizes, connection tests, a death between the
  replacement of the skills and that of the database. Two things are as the code has
  them and no property excludes them: changes during a download are suppressed and
  never announced, and an upload that failed is not tried again before the next
  change.
* *Rollups:* the costs inside the daily totals (sums), predictions, queries.
  Three things are as the code has them, and `RecordsCount` does not exclude
  them. A record of the router hides a session record of *another* use with the
  same numbers of tokens within ten minutes; a line that is hidden when it is
  read gets no row then, and its use may be counted nowhere. The two rows of
  *one* use are both counted when the router's is pruned and the session's is
  on the other side of the cutoff, or read only afterwards. And rows read again
  from a log after their details were pruned are counted again. Ten minutes are
  at most one step of a clock of half hours; records of the same half hour are
  alike or not once and for all.
* *Database:* rows of bindings, migrations of what is staged, renaming and deleting of
  backups by the user. Details recorded between the local snapshot of a sync and its
  replacement are lost, and rows of empty keys deleted in that window come back; with
  fewer than three backups kept, the safety backup can be pushed out.
* *Tray:* what the snapshot computes, and a day that turns between the first snapshot
  and the first look of the scheduler.
* *Licenses:* the verification of tokens (an injected provider) and the arithmetic of
  the grace time.

Other components: see `components` in `PROJECT.json`.

## Plan

What is left, in the order of importance:

1. `IdentityMigration` (`store/identity_migration.rs`): the renaming of the database
   and its companions with crashes between the steps.
2. `BindingCredentials`, sharing the keychain with `ProviderCredentials`.
3. `KeyUsageScheduler`: its backoff, and its reports against `StoreUsage`.
4. A clock that steps back, for `UsageWatcher` and the cooldowns of `Router`.
