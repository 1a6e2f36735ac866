# agent-usage-book in TLA+

`aub` keeps a local ledger of how much of each provider account's quota is
used. A timer, shell hooks and operators all start the same binary; each
invocation is a process of its own, and all of them share one SQLite database,
one state directory with a spool of pending readings, and one published
projection file. Nothing coordinates them but SQLite's write lock, one lease
row per account and a few `flock`s. This directory models that: the part of the
program that talks to providers and must not lose, duplicate or misreport what
it measured, and the parts around it that keep state between invocations, the
credential files, the transcript index and the backup archives.

The modules follow the code under `src/src/`. `PROJECT.json` maps every
definition to the lines it stands for.

## 1. The system

### Components

| component | source | state | operations |
|---|---|---|---|
| sampling lease | `store/sampling_lease.rs` | one row per account: holder, acquired_at, expires_at | `acquire`, `release`, `clear_expired` (doctor), `health` (read) |
| due decision | `meter/due.rs` | none, a function of the history, the resets and the clock | `evaluate` and its holds |
| sampling orchestrator | `meter/sampler.rs` | per run: accounts, leased attempts, worker threads, payloads, reports | `run`: lease, request, persist, release; `persist_one` |
| meter repository | `store/repository.rs` | the connection discipline: write transactions, read connections, publication behind each commit | `start_meter_attempt`, `commit_terminal_result`, `commit_terminal_bundle`, `due_evidence_snapshot` |
| attempt and evidence tables | `store/meter_attempt.rs`, `store/meter_evidence.rs` | meter_attempt, meter_attempt_result, evidence, observation and window rows, ledger generation | inserts, newest-row reads, authentication streak |
| meter spool | `store/spool.rs` | `pending/`, `quarantine/`, the snapshot lock file | `spool_pending`, `spool_then_commit`, `drain_pending`, barrier |
| projection publication | `projection.rs`, `projection/build.rs` | the projection file and the generation it records | `publish`: snapshot, write, rename, fsync |
| backup cut | `store/backup.rs` | a database copy and the captured pending records | `capture_backup_cut` |
| coverage | `coverage.rs`, `report/coverage.rs` | none, reads the history | expected opportunities, holds, gaps |
| subscription gate | `meter/sampler.rs`, `store/subscription_identity.rs`, `doctor/checks.rs` | meter_subscription_change: the identities an account was established under and refused | `subscription_gate`, `commit_refusal`, `record_subscription_established`, `accept_change` |
| credential refresh | `auth/credentials_lock.rs`, `auth/antigravity_credentials.rs`, `auth.rs` | the credential file, its `.bak`, its lock; the single-use token at the provider | `refresh_if_expired`, `resolve` |
| window readings | `statusline.rs`, `meter/anthropic.rs`, `store/window_anomaly.rs`, `domain/window_anomaly.rs`, `store/projection_source.rs` | the tee's record file and last values, observations with their windows, anomalies, set changes | `record`, `observe_with_evidence`, `detect_and_persist`, `last_successful_observation` |
| transcript ingestion | `ingest.rs`, `store/ingest.rs`, `store/transcript_file.rs`, `transcripts/watermark.rs`, `dedup.rs` | a watermark per file, usage events and the file each came from | `run` in its two modes, `persist_ingest_batch` |
| backup series | `backup.rs` | dated archives with manifests, the newest-verified pointer | `backup_series_create`, `backup_series_prune`, `verify_archive` |

Not modelled: see section 8.

### How they interact

1. A command drains the spool (`drain_pending`), then runs its body.
2. `run` asks the due decision for each account, takes the account's lease,
   asks again under the lease, commits a `meter_attempt` row and keeps the lease.
3. Worker threads make the requests, pulling slots from one counter.
4. The main thread persists slot after slot. A measured reading goes to the
   spool first (temporary file, fsync, rename, directory fsync), then into the
   database in one transaction, then its file is deleted. A failure is one
   result row. Every commit that matters to the projection advances the ledger
   generation and is followed by a publication. Then the lease is released.
5. A backup takes the snapshot lock exclusively, drains, copies the database
   and captures what is left in the spool. The archive is verified, renamed to
   its dated name and pointed to; then older archives are pruned.
6. Before an account is sampled, its expired OAuth token is exchanged under the
   lock the provider's own client uses. A measured reading passes the
   subscription gate before it is spooled. The transaction that stores it
   compares it with the observation before it.
7. `aub ingest`, the refresh of `aub spend` and doctor's repair read the agents'
   transcript files, in passes that know nothing of each other.

### What is hard here

- Every instant an invocation decides with is read before the lock it needs is
  granted, and may be old when used.
- `spool_then_commit` deletes its file without the spool lock, so a drain or a
  backup meets it between any two steps.
- A process may die, and the machine may lose power, between any two file
  operations; a directory update nobody fsynced may be undone.
- Publishers read a snapshot and rename under no lock.
- A request may outlive its lease; results arrive out of order and through the
  spool, much later.
- The evidence for a decision is several statements and no transaction.
- Coverage reconstructs holds from rows that the scheduler computed from the
  state of the moment.
- A refresh token is spent the moment it is presented; the pair that replaces it
  exists in one process's memory until a rename.
- The gate reads the history, decides and commits in separate statements; the
  identity is established behind the commit it explains.
- Transcript files change between the stat, the read and the transactions of a
  pass, and a pass is many transactions.
- Prunes select from a listing that others change, and read a pointer that is
  rewritten in place.
- Readings of one account come from two sources with different scope and
  precision, and are committed in another order than they were taken.

`PROJECT.json` lists these as hazards with their lines.

### What makes each component correct

- lease: one live grant per account; a dead holder blocks for a TTL at most;
  nobody but the holder ends a live row.
- spool and repository: a reading that was reported durable is never lost and
  never counted twice; reports stay true; spooled readings are settled in the end.
- projection: never ahead of the database, content and generation of one
  instant, up to date in the end.
- backup cut: everything durable at the barrier is in the archive.
- due decision and orchestrator: no opportunity is sampled twice, the ordinary
  grid keeps its pace, also when invocations race.
- batch: one request per slot, one report per account, leases come back, the run
  returns.
- coverage: a hold it counts against an instant at which an attempt was owed is one
  that something superseded, never one it made up.
- subscription gate: an identity is earned by a stored reading or an operator's
  acceptance; a refused reading is on record and stored nowhere.
- credential refresh: no interleaving of healthy refreshers spends the pair on
  disk; a preflight ends, and what it calls fresh is fresh when read.
- window readings: a provider that keeps its rules is never accused, and the
  screen shows the newest full reading.
- ingestion: what the index lets a pass skip was read and landed; a replaced
  contribution leaves nothing behind, and no event is lost while its watermark stands.
- backup series: the newest proven archive and every archive retention still
  needs survive whatever overlaps.

## 2. The modules

| module | models | composed of |
|---|---|---|
| `SamplingLease` | the lease table and its callers | |
| `ReadingLifecycle` | what the evidence cycle promises of a reading (abstract) | |
| `MeterSpool` | live samplers, drains, backups and publishers over database, spool and projection | implements `ReadingLifecycle` |
| `DueDecision` | `evaluate` and its helpers as operators | |
| `AttemptHistory` | one account's attempts and results, and the transactions that write them | extends `DueDecision` |
| `SamplingSchedule` | the history under timer, operator, provider and drains; coverage's holds | extends `AttemptHistory` |
| `Sampler` | several invocations over one account, statement by statement | extends `AttemptHistory`, with the lease row; implements `SamplingLease` |
| `SamplingBatch` | one `run`: stages, worker threads, reports, releases | |
| `SubscriptionGate` | the gate of one account, its history, drains and doctor's check | |
| `CredentialRefresh` | samplers and other refreshers over one credential file | |
| `WindowReadings` | tee, endpoint, spool and window comparison of one Anthropic account | |
| `TranscriptIngest` | passes over transcript files that change | |
| `BackupSeries` | backups, prunes and verification over one destination root | |
| `*Proofs` | theorems and proofs about the module of that name; `SamplingScheduleProofs` also about `Sampler`, `SamplingGuardProofs` about `SamplingLease` and `SubscriptionGate` | |
| `MC*` | symmetry sets and file contents for TLC; the `.cfg` files give the constants | |

`Sampler` restates the lease row for one account, because it needs the lease's
instants and the attempt's in one clock; that it uses the lease as `SamplingLease`
has it is a theorem (`SamplerUsesTheLease`).
A definition whose comment begins with "Mutant:" is a deliberately wrong variant
that shows a property can fail; no specification uses it.

### SamplingLease

`lease[account]` is the table, `held[holder][account]` what an invocation
believes it holds, `acquiring` a call whose instant is read and whose
transaction is not granted yet, `sweep` the instant doctor read for its sweep. `ReadClock` and then
`Grant`, `AlreadyHeld` or `AcquireFails` are one `acquire`: the clock is read
before the write transaction, so any number of steps of others falls between.
`Release` deletes by account and holder, `ReleaseFails` and `Crash` leave the
row. `Tick` is the clock.

### MeterSpool

Database: `started`, `results`, `evidence` (attempts with a row in the
respective table) and `generation`. Files: `pending`, `damaged`, `quarantined`;
`unsynced` holds names whose creation a power loss may undo, `ghosts` deleted
names it may bring back. `live[a]` is the program counter of the sampler with
attempt `a`, `drain[d]` of a drain or of the drain inside a backup,
`snapshot[p]` what a publisher has read, `projection` the file, `cut[b]` what a
backup has collected, `report[a]` the disposition returned. `kept` is history:
the readings `spool_pending` returned Ok for.

Each file operation and each transaction is an action:
`StartAttempt`, `CommitResult`, `SpoolTemp`, `SpoolRename`, `SpoolSync`,
`LiveCommit`, `LiveRemove` and their failures; `DrainBegin`, `DrainRead`,
`DrainApply`, `DrainRemove`, `DrainQuarantine`, `DrainDone` and their failures;
`BackupBegin`, `BackupCopy`, `BackupCapture`; `ReadSnapshot`,
`RenameProjection`, `DeferPublication`; `Crash`, `PowerLoss`, `Damage`. The
publication behind a commit belongs to the handler: a process in a publish stage
does nothing else until it published or deferred.

`LiveRemove` may end in `PersistFailed`: `persist_one` writes the subscription
row behind the commit and returns that disposition when it cannot.

### DueDecision, AttemptHistory and SamplingSchedule

`Evaluate` is `evaluate` rule by rule: a forced request, a passed reset to
confirm, a reset edge, an account never sampled, the cadence with the holds of a
Retry-After and of authentication backoff. Optional values are sets with at most one member.
`AttemptHistory` is what the two modules above it share: `history` (attempt rows
joined with results, in row order), `newest` (the attempt of the observation
inserted last), `start_meter_attempt`, which appends, `Measure`, `Fail` and `Lose`,
which end an attempt, `Drain`, which inserts a reading that was left in the
spool, and what must hold of the slots. `SamplingSchedule` adds the credential
`context` on disk and the one invocation that is deciding; the lease allows one. `CoverageHolds` and `CoverageStreak` are
what `coverage.rs` reconstructs of one attempt, and `Excusing` the attempts whose
holds cover the present instant: `coverage.rs` merges the holds of all attempts before
it subtracts them, so an instant is excused exactly when there is one.

### Sampler

The same history, written by several invocations at once. Per invocation: stage 1 decision, reading the lease's instant, the lease
transaction, the four statements of `due_evidence_snapshot` one by one, the
start instant, the start transaction, request, persistence, release, death at
every point. Attempts that outlive the lease stay in flight.

`Lease` instantiates `SamplingLease` with one account: the row is the row (its
acquisition a TTL before its expiry), a call of `acquire` is an invocation in
`locking` with the instant it read, and what an invocation holds is the
`expires_at` of its own grant until it gave it back. `run` drops that instant; the
record keeps it as history up to the release. `ImplementsLease` says that every
step is a step of the lease protocol or leaves it alone.

### SamplingBatch

`next` walks the accounts, `leased` is the vector of slots, `next_slot` the
atomic counter, `worker`/`slot`/`products` the threads, `persisted` and
`released` how far the main thread is, `report` the dispositions, `rows` and
`stuck` the lease rows the run holds or could not release.

### SubscriptionGate

`history` and `observations` are the two tables in row order, `sampler[a]` the
program counter of the process persisting attempt `a` with the identity its
credential named and what the gate read. Reading the established identity,
reading the newest row, committing a refusal, spooling, committing the bundle and
recording the establishment are steps of their own, as they are statements of
their own in the code; `End` stops a sampler after any of them. `Drain` commits
what was spooled without looking at identities. `accept_change` is one
transaction, with a change id that may be old. `MaxLive` is the number of
samplers of one account alive at once: one while its lease holds, two when a
request outlived it.

### CredentialRefresh

The n-th pair the provider issues is the number n; `issued` is the newest,
`disk` the file with its expiry, `durable` the file a power loss brings back,
`lost` (history) the pairs that cannot reach the file any more. `rotating`
chooses the provider: an Anthropic token is spent by its exchange, an
Antigravity one is not, and the two files' `refresh_if_expired` differ in
nothing else but the outcome of a busy lock and of a missing client
configuration. The steps are the first read, the tries of the lock, the
re-read, the exchange with its failures (an answer may be lost after the
endpoint rotated), backup, temp file, rename, and `resolve`'s reads after it.
`Others` are the provider's own clients: they take the same steps under the same
lock, and may hang anywhere.

### WindowReadings

`provider` is what the provider has now: use grows within a window, a window ends
at its reset, and the next starts at once, later or never. `cache[s]` is the
response a Claude Code session renders, `line` the newest line of the record
file, `last[s]` whether the tee's last value matches. `SampleCommand` decides
whether the endpoint comes first, `observe_statusline` and `observe_endpoint`
take the reading, which is committed, spooled, or lost with its process.
`Commit` is the comparison within the storing transaction, with the observation
inserted just before, and `Replay` is the same for a spooled bundle, which is rebuilt
without its subset flag. Every reading carries `was`, what the provider had at
the instant the reading claims: history the properties compare with.

### TranscriptIngest

`disk[f]` is a file with inode, modification time and lines; a line is a strong
identity and an output count. `index` is the transcript_file row, `owner` and
`count` the occurrence's source file and the event's count. A pass stats, skips
or reads each file, deduplicates, splits into batches and lands them; a
transaction may be cut short by its time budget anywhere in its batch. `lost` and
`cut` are history: counts that were taken away (and whether a pass took what it
had landed itself), and files whose pass died while landing or which two passes landed at once, until a pass replaces
their contribution. `BatchStart` and `deduplicate` are `split_into_batches` and
`deduplicate` as recursive functions.

### BackupSeries

`present` are the archive directories, `manifest` and `files` what each says and
is, `pointer` the newest-verified file (absent, torn or a name), `run[r]` where a
backup stands with the directories of its listing it has yet to read (`ListArchives` takes
their names, `ReadManifest` reads one manifest), the verified ones among those it
read, and the ones it is deleting.
`proven` (history) are the archives whose manifest ever said verified, `early`
the ones another run chose for deletion before their own run had pointed to
them. Retention is a set of tiers, each a count and a period length; a retained
archive is the newest of its period among the count's newest periods, or the one
the pointer names.

## 3. The runs

| run | instance | distinct states | shows |
|---|---|---|---|
| `lease` | 1 account, 3 invocations, TTL 2, clock to 5 | | exclusion, bounded blocking, who may end a live row |
| `spool` | 2 attempts, 2 drains | 0.9 million | nothing lost, the projection is behind and of one instant, reports are true, the life cycle is implemented |
| `spool_live` | 1 attempt, 1 drain, 1 backup, damage | 10 thousand | a drained cut is complete; spooled readings are recorded or set aside, the projection catches up |
| `schedule` | 3 attempts, clock to 2, a reset, Retry-After 4 capped at 3, backoff from the first rejection, 2 credentials | 5.3 million | no slot spent twice, pace of the grid, coverage counts no hold the scheduler did not have |
| `sampler` | 2 invocations, TTL 2, 2 attempts, clock to 3, Retry-After 3 | 4.4 million | no slot spent twice under races, rows in start order |
| `batch` | 4 accounts, 2 workers | | each request once, no hole at the join, every account reported, leases returned; the run returns |
| `subscription` | 4 attempts, 2 identities, 2 samplers at once | 1.1 million | identities are earned, refusals are recorded alone, doctor fails on a recorded one |
| `credentials` | 1 sampler, 1 other refresher, 3 pairs, lock tried twice | 0.5 million | only a fault kills the pair; no rejection without one; freshness; a preflight ends |
| `windows` | 1 session, windows of 3 cadences, 3 readings, walk of 2 | 5.7 million | no invented anomaly, causes of set changes, the newest full reading on the screen |
| `ingest` | 2 files that share an event, 2 passes, 1 edit, batches of at most 2 events of 1 file | 0.4 million | a skipped file was read to its end, no watermark ahead of its events, nothing stale |
| `backup_series` | 2 backups, 1 verifier, 3 archives, 2 tiers | 1.2 million | the newest archive survives, a pruned one had verified and was redundant, the pointer is earned |
| `fresh_rows` | 2 files, 1 pass at a time, an event that changes its file | | finding, section 6 |

The runs check what the code could get wrong; the type invariants
(`LeaseTypeOK`, `TypeOK`, ...) are left to the proofs of section 4, which need
them, and hold on the same instances.

Why the bounds are enough. In `lease`, three invocations are the smallest number
in which one holds, one waits with an old instant and a third takes over, and
five instants let a lease expire, be renewed and expire again. In `spool`, two
drains and a live sampler meet at one record, with a second record to be starved
or mixed up; a third process at one record repeats a role. A backup keeps every
drain out while it cuts, so in `spool_live` one record and one other drain show
what the cut may miss. In `schedule`, the decision reads only the newest attempt
and the newest observation, three attempts let an older one matter through the
streak and a late drain. The Retry-After is longer than its cap and the capped hold
longer than the cadence, and a rejection holds at once, so that attempts of other
kinds start inside holds of both families while the clock still lets a hold of a
cadence run out; coverage and the scheduler are compared at every instant, also
behind a hold that began an attempt or two earlier. In `sampler`, a TTL of 2 lets a lease
expire while its request is outstanding. In `batch`, there are more slots than
workers and more accounts than slots. In `subscription`, four attempts are a
first sighting, two overlapping refusals and one reading behind them; in
`credentials`, the other refresher takes the lock while the sampler holds a
token it read before, and three pairs let each of them rotate once. In
`windows`, three readings fill a walk of two and the longest chain an anomaly
needs is a pair, while the clock lets a window end and the next begin; Jitter
exceeds the wobble of honest reports and is below a window's length, as the
code's two seconds and the provider's hours are; once the last reading is taken
only the spool goes on. In `ingest`, batches of one file put an event's old
owner and its new file into different transactions, in both orders, a batch of
two events can be cut short, and an edit can fall between stat and read. The
files start out with any of their contents, so one edit is enough for a pass
that resumes, one that replaces, and two passes that read different states of a
file and land in either order; the shared event is restated with less by one
file than the other holds. In `backup_series`, one tier of short and one of long
periods compete for archives while two runs hold listings of different age. Each
property fails on at least one wrong variant of the code listed in
`PROJECT.json` on the same instance, so the cases do happen. `CHECK_DEADLOCK
FALSE` throughout: a bounded clock, history or set of attempts ends, and so does
a run.

Symmetry is used over attempts and drains, holders, invocations, samplers,
passes, credential contexts and backups, in runs without liveness and without a
distinguished element.

### Fairness

- Drains (`spool_live`): every command drains before its body, and a timer
  starts commands for ever, so drains begin again and again. A step that can
  fail (a busy database, a write of the projection, a file that vanished) does
  not fail every time it is tried: strong fairness of each succeeding step, weak
  fairness of going on. Nothing is assumed of live samplers, which may die at
  any step, nor of backups beyond running on.
- Batch: the operating system schedules every thread; a request ends because its
  timeouts are clipped to the rest of the command's budget. Weak fairness of
  each worker and of the main thread.
- Credentials: a sampler takes its next step, as the operating system schedules
  it: weak fairness of its whole next-step relation. It may die instead, which
  ends it. Nothing is assumed of the other refreshers: the holder of the lock
  may hang for ever.

## 4. Proofs

Proved for every value of the constants; TLAPS checks all leaves.

- **SamplingGuardProofs**, the lease and the gate. `LeaseInv` = types, every
  instant read lies in the past, an unexpired grant is the account's row, a row
  expires within a TTL of now. The second conjunct is what the code's order
  (clock before lock) needs: an old instant can make an expired row look live,
  never a live one expired. Exclusion follows since two live grants would be the
  same row. The action property uses the same invariant. `GateInv`: what the
  phase of a sampler, its result and its spooled bundle say of one another
  (`Tells`), a success has its observation (`ObservedIsSuccess`), a change row
  carries the instant of its own reading (`RowsAreDated`). The samplers share
  only tables that grow, so what one of them read before its write stays true of
  the history, though no longer of its newest row.
- **SamplingScheduleProofs.** `evaluate` looks at the newest attempt only. What
  keeps it from returning a spent slot is an ordering of all attempts: due <=
  start <= finish, and due instants never decrease. A reset rule yields an
  instant after the newest start or evidence, the cadence rule one a cadence
  after the newest due instant; both are after every earlier one. Extrema of sets
  are obtained from well-founded induction as library theorems state it.
  The same lemmas serve `Sampler`, where invocations race and the evidence is
  read in four statements. `SamplerInv` says of an invocation between its grant
  and its start that it holds the live lease, that the instant it decides with has
  come, and that the attempt it read as the newest still is (`SnapshotIsNewest`,
  `EntryIsNewest`), though its result may have been filled in meanwhile: a torn
  snapshot is a history with an older result, and the decision on it is ahead of
  every slot too (`DecisionStands`). This is where `StartIsPrompt` is needed.
  The refinement of `SamplingLease` (`SamplerUsesTheLease`) goes action by action and
  takes only the types from the invariant. The instance meets `LeaseAssumption` by the
  assumptions of `Sampler`, so what SamplingGuardProofs has of the lease holds of the
  pipeline. Its exclusion is also proved on the pipeline itself, from "an invocation
  whose own grant has not run out is the one the row names"
  (`SamplersExcludeEachOther`).
  Coverage (`CoverageIsHonest`): what a hold of attempt i makes of the attempts
  behind it is an invariant of the history (`CoverageInv`): the next attempt, if it is
  the cadence's, is due no earlier than the hold's end, unless it was owed before an
  earlier attempt was answered or the rejected credential had been replaced, and an
  invocation that has decided carries the same for the attempt it will start. For
  the newest attempt the hold must be the scheduler's own: a rejection
  coverage counts is one the store counts, so its streak is no longer; a longer
  streak holds no shorter, since 2^m <= 2^n for m <= n, shown with 2^n as the number
  of subsets of a set of n elements; and only a limited attempt has a Retry-After.
  The theorem takes a threshold of at most 35 as its hypothesis: the store reads at
  most 64 rows and the doubling stops at 2^30, so up to there the cut-off cannot
  shorten a hold. The default is 3; section 6 says what happens above 35.
- **SamplingBatchProofs.** `BatchInv`: `leased` is increasing, workers run only
  in the execute stage, the counter splits the slots into those with a payload or
  a worker and those untouched, an account is without a report exactly while it
  waits for a later stage, a row is a slot not yet released or is stuck. That a run
  comes to an end is proved as far as steps go: until it is done some thread's
  guard holds (`RunsAreNeverStuck`: what the join waits for and what the main
  thread persists next are there or on their way), every step raises its
  effort (`EveryStepCounts`), and the effort is at most five per account, one per
  worker and five (`RunsAreShort`, where the counter overshoots the slots by one
  per ended worker).
- **MeterSpoolProofs.** `SpoolInv`: what each stage of a live sampler tells of
  disk and database (`StagesTell`), that a drain removes behind a commit
  (`DrainsHoldRecords`), that a kept reading's name is fsynced (`KeptIsSynced`:
  without it a power loss could take it back), that every deleted name is
  recorded or aside (`RevivedRecordsAreReplays`), that snapshots in hand are
  earlier states (`ViewsAreTrue`: without it a late rename could put anything in
  the file), and what of a backup's due readings is left to collect in each
  stage (`CutsFollow`). One lemma per action. The refinement of
  `ReadingLifecycle` rests on two lemmas: a durable reading stays durable, and evidence
  only grows.
- **CredentialRefreshProofs.** `RefreshInv`: the lock is held by the one process
  between grant and return (`LockIsHeld`); what that process read second is still
  in the file until it renames (`LockedReadStands`), and the pair it was issued
  is still the newest (`InHandIsNewest`). So a pair is spent only by the process
  that will replace it, and a dead pair in the file needs a fault. Freshness needs one
  thing more (`FileStaysFresh`): between a sampler's preflight and its `resolve`
  the file may be replaced, but whoever replaces it had found it expired at an
  instant of its own, and what it writes lives a lifetime from there. A preflight is
  bounded: a measure of the steps a process has left (the attempts at the lock, then
  one for each call) is lowered by every step of its own and raised by no step
  of anybody (`NobodyWedgesAPreflight`), a holder that hangs and a power loss
  included, and is `LockTries + 8` at most (`PreflightsAreShort`).
- **WindowReadingsProofs.** `WindowInv`. Anomalies: `was`, what the provider had at a
  reading's instant, is related to every later `was` by the provider's rules
  (`MarksAreTrue`, with `Led`: in the same window use only grows, a later window
  ends a length later at least), and a report that is not the meter's own is off
  by a whole window (`ReadingsAreTraced`; a stale session cache can be no nearer,
  `CacheIsTraced`). So two honest readings differ as the meter did, up to the
  wobble, and one lemma (`HonestPairIsNoAnomaly`) goes through the classification with
  that. The projection: attempts are numbered in the order they are taken
  (`AttemptsAreDistinct`, counting the spool's), full readings carry the instant
  they are taken at (`FullInOrder`), and since the newest full one at most one
  line per cadence was taken, none after the horizon (`LinesAreFew`): so fewer than
  `Cap` attempts are newer, counted by an injection into their numbers.
- **TranscriptIngestProofs.** `IngestInv`, for any files, contents, batch bounds
  and number of passes. A stat is of this inode or an earlier one, and since every
  edit moves the modification time, one that still matches is of what is there now
  (`StatsAreTrue`, `MarksAreTrue`): this gives `SkippedFileWasRead`. What a
  watermark claims has landed or is in a transaction the pass that carries it has
  left (`MarksLand`), and watermarks ride with the last: `WatermarkNeverAhead`. A
  file's rows are its lines as soon as nobody is in the middle of landing it
  (`RowsAreKnown`): a resumed pass adds lines of the same inode, a whole read
  deletes before it adds. For the latter the batch arithmetic is needed: only
  the head of a batch replaces (`OnlyHeadsReplace`), and every file read whole is
  replaced by one (`EveryFileIsReplaced`), which gives `NoStaleOpinion`.
  `deduplicate`, `BatchStart` and `Edits` are recursive functions. That the
  function exists and what it returns is shown in each case by the least argument
  for which it would not (`NatHasMin`, from the library's well-foundedness of the
  naturals), not by an induction theorem.
  The attempt corrected a statement the small instances had satisfied: two passes that
  overlap on a file can leave rows of its earlier inode (section 6; `cut` now says
  so). The contents of the `ingest` run were then chosen so that TLC refutes the
  old statement.
- **BackupSeriesProofs.** `SeriesInv`: a prune deletes from a listing that may be old,
  and whose manifests were read at different instants.
  Redundancy is monotone: an archive that was redundant among some verified archives is
  redundant among more. So the deletion list of every run, however old, holds
  archives that are redundant now and have a newer verified one (`ChosenIsSpared`),
  and the pointer names none of them unless its run was slow. That a
  selected set leaves one archive in every filled bucket is the lemma
  `DoomedIsRedundant`.

Assumptions on constants: `Ttl` is positive, `NoHolder`, `NoOne`, `NoAttempt`, `NoAccount` and `None` are
none of the elements they stand beside, attempts are a finite set (for the
cardinalities), durations and bounds are naturals, the cadence, the number of workers and
the number of lock attempts are
positive, at least one retention tier keeps something, `NoIdentity`, `NoArchive`
and `Torn` are no values of their kind, a token lives longer than the expiry lead,
two reports of one reset differ by less than the jitter tolerance and the two
together are no longer than a window, the walk is longer than the horizon in
cadences, files are discovered
once each, and a record states a positive output.

Only model-checked: the liveness properties (`KeptIsSettled`,
`ProjectionCatchesUp`, `RunReturns`, `PreflightEnds`), since fairness is out of the
prover's reach. For `RunReturns` and `PreflightEnds` the theorems on measures
leave nothing but the fairness itself: a thread that is scheduled again and again
takes a step, and there are only so many. `KeptIsSettled` and
`ProjectionCatchesUp` rest on steps that fail arbitrarily often before they
succeed, so no measure bounds them. `CoverageExcusesOnlyHolds` is not claimed for a
threshold above 35, where the code does not have it.
`ImplementsLease` is the reverse case: TLC found it to hold on the instance of the
`sampler` run, and the theorem is what stands for it.

## 5. Abstractions

- A reading is an attempt's name. Record and projection formats are abstracted:
  a record parses or is damaged. The projection's content is the sets of rows it
  derives from.
- Clocks of all processes are one clock that does not step back. `aub` records
  clock anomalies; they are not modelled.
- Within the crash model a rename is atomic, an fsynced update survives, and a
  file's content is synced before its name. The projection file itself does not
  revert on a power loss. `unlink` fails only for a name that is gone.
- A drain takes the records of its listing in any order; the code's order, by
  name, is one of them.
- The policy snapshot in force does not change within a behaviour. Writes of
  policy snapshots, `sample_run` and account rows carry no state here. Generation
  advances by operator commands are left out.
- In `MeterSpool` a subscription refusal is a terminal result and an
  establishment that fails is `PersistFailed`; `SubscriptionGate` has the gate
  and leaves the files to `MeterSpool`.
- `SubscriptionGate` gives no two events one instant (the code's are
  nanoseconds), and `previous_observation_id`, which no modelled rule reads, is
  left out.
- `CredentialRefresh` reads and writes a file in one step each: the code replaces
  files by rename. Instants are whole units; a lifetime exceeds the lead.
- `WindowReadings` keeps the figures of the session window and only the presence of
  the others. Plan and tier are unobserved, as the Anthropic adapter leaves them.
  The status line names the session window alone: it may leave out any other,
  which is the case that matters. A unit of the clock is a cadence, so a line is
  fresh for one unit. Samples an operator forces are left out: they would fill the
  bounded walk without a horizon passing.
- `TranscriptIngest` counts lines where the code counts bytes. The trailing
  partial line, the heuristic domain, the parser version, database sources,
  sessions and quarantine rows are left out.
- `TranscriptIngest` gives a replaced file an inode no watermark has seen. The code
  knows a file by `dev:ino` (`transcripts/watermark.rs`), and a file system may hand a
  freed number out again: to the index such a replacement is a rewrite in place, which
  is modelled, so what is said of replaced files is said of the others. And
  `SkippedFileWasRead` excepts more than the rewrite in place that grew a file:
  every file whose inode was ever rewritten in place. There it only says that the
  file was read to its end.
- `BackupSeries` takes the names of a listing in one step, as one call returns them for
  a small root. An archive that appears while the manifests are read is not listed.
- `BackupSeries` has periods of fixed length for the calendar's and knows an
  archive by its stamp. At least one tier keeps something; the configuration
  allows none (section 6).
- In `Sampler`, an attempt's start commits within a TTL of the lease's instant
  (`StartIsPrompt`): a TTL of a minute against `busy_timeout`s of ten seconds.
  Without it two invocations could both decide. The stage 1 decision is one
  step, since it is only a filter: stage 2 decides again.
- In `SamplingSchedule` a result's instant is read and committed in one step,
  and the streak is one statement.
- A configuration with `max_concurrent_requests = 0` is refused before a run
  starts; the retained failed-body buffer is diagnostic.

## 6. Findings

`fresh_rows` is a run in which TLC violates what a comment promises. The
comment in `ingest.rs` on what rides with which batch says of the whole-file
replacement that the old "contribution is deleted before the fresh rows land".
An event's occurrence is unique without its source file. When an event of file
f1 is found again, with a larger count, in f2, and f2's batch comes first, the
event lands as a conflict, the occurrence keeps f1 as its owner, and the later
batch that replaces f1 deletes the occurrence and with it the event. The pass
completes, both watermarks say consumed, and `--changed-only` never looks again;
the next default pass brings the event back. TLC finds it with no second process: a
first pass that cannot read f2 lands the event from f1, the next one reads both.

The following was met while modelling, follows from the code as modelled, and has
no run of its own.

Evidence cycle and schedule:

- `PersistFailed` is documented to mean that the observation itself is gone
  (`sampler.rs`). A drain that deletes the record between the live commit and the
  live delete, or a subscription row that cannot be written, yields it for a
  reading that is in the ledger.
- Records are said not to be deleted during a backup's cut (`spool.rs`, the
  barrier). The live path commits and deletes without the lock: when the
  backup's own best-effort drain stopped early, a reading committed after the copy and
  deleted before the capture is in neither. With a completed drain this cannot happen
  (`DrainedCutIsComplete`, proved).
- Coverage says it counts the authentication streak by the scheduler's rule
  (`coverage.rs`). The scheduler counts through credential changes and past
  interrupted attempts. That this never makes coverage hold longer than the
  scheduler is part of `CoverageExcusesOnlyHolds`.
- Coverage subtracts the holds of all attempts, the scheduler looks at the newest one
  only. A hold that an attempt of another kind superseded is still excused: after a refusal
  with a Retry-After of 3600 s and a forced success 60 s later the scheduler owes
  again a cadence after that, while the report excuses the whole hour, although
  `coverage.rs` describes a postponement as a span in which "no opportunity was owed". The
  same happens behind a reset edge, an attempt that was owed before the refusal was
  answered (a request that outlived its lease), and a new login. `Superseded` lists
  these causes, and `CoverageExcusesOnlyHolds` says there are no others: leaving any of
  them out, TLC finds an instant excused and owed.
- The configuration takes any u32 as `auth_backoff_threshold`, while the scheduler
  counts its streak over 64 rows (`store/meter_attempt.rs`) and coverage over all
  of them. Above 35 the scheduler's backoff stops growing before coverage's does,
  and above 64 it never begins: coverage then excuses instants at which attempts
  were owed.
- The evidence of a decision is said to be one moment of the database
  (`repository.rs`, `due_evidence_snapshot`). It is several statements without a
  transaction. No slot is spent twice all the same (`sampler`).
- `next_due_at` is not the earliest instant at which an evaluation finds an
  attempt due, since a reset may come first (`meter/due.rs`, `NotYet`); rule 3 has
  no fallback to ordinary recency although the module comment describes one; a
  reset edge inside a Retry-After hold is owed, against the module comment and
  as a test of that file expects; "newest observation" is by row id, and a drain
  inserts old readings late.

Subscription gate:

- A refusal that repeats the pair of the newest change leaves no row. When an
  observation was stored in between (the login went back and forth), doctor takes the
  change for settled while readings are being refused (`doctor/checks.rs`).
- A crash between the first observation's commit and its establishment is called
  benign (`sampler.rs`). If the login changes before the next tick, the next
  reading establishes the other subscription and the stored observation stands
  under it (`repository.rs` says the order "can never misattribute").
- Two first sightings that overlap, after a lease ran out, establish one after the
  other; the newer row wins.

Credentials:

- `PersistFailed` tells the operator that the on-disk pair is dead; an error
  on the lock file yields it too, before any token was presented.
- `resolve` reads the material and its modification time in two calls, so a
  rewrite in between names the old material by the new context.
- The rename is not followed by a directory fsync (a cause of
  `DeadPairHasACause`).

Windows:

- A status-line reading replayed from the spool is rebuilt as a full one, so every
  model's window it did not name is recorded as missing; this is one exception in
  `SetChangeHasACause`. The other: after a status line, every account-wide window it
  did not name is recorded as new when the endpoint names it again. And a window that
  disappears while a status line stands between two full readings is
  never recorded.
- Set changes, unlike anomalies, are classified also when the pair is out of
  order.
- A duplicate or late line of a session that kept an old response makes stale
  figures the newest observation; the next honest one is then recorded as an
  anomaly. `statusline.rs` leaves the duplicate to "a reader"; none collapses it.

Ingestion:

- A default pass that dies between two transactions leaves rows deleted behind a
  watermark that still says unchanged; only a default pass repairs them.
- A `--changed-only` replacement of the owner file drops an event that a skipped,
  unchanged file also holds (`ingest.rs`: "Both modes converge").
- A rewrite in place that grows the file is taken for an append.
- Two passes that overlap on one file may leave rows of an earlier inode behind a
  current watermark: a pass that read the file before a rename lands its rows after
  another has replaced the contribution, and the watermark that stands is the newer
  one. Only a later replacement of the file removes them.

Backup series:

- A pointer or manifest file is truncated before it is written. A run that dies in
  between leaves a torn pointer, which fails every prune until the next backup,
  or a torn manifest, which fails every later listing.
- All four keep counts may be zero. Two overlapping backups may then delete each
  other's archive although each verified.
- A slow backup may find its archive listed by a later one as older and pruned
  before it moves the pointer, which then dangles (`early` in `PointerIsEarned`).

## 7. Plan

Done: lease; spool, repository, projection and backup cut with their life
cycle; due decision and schedule; coverage's holds; the composition `Sampler`;
the batch; subscription gate; credential refresh; window readings; transcript
ingestion; the backup series.

Proved: every safety property the runs check, the types of every component, the
two refinements, and that a batch and a preflight are bounded (section 4).

Next:

1. `Coverage`: denominators, gaps and reset-spanning holes as operators, against
   a reference definition by instants.
2. The recovery drain over a restored cut.

## 8. Not modelled

- Parsing of provider responses and transcripts, configuration, argument handling,
  rendering, JSON output: conversions without control of their own. They are most of
  the repository's lines (`cli.rs`, `presentation/`, `config/`, `report/`).
- Calibration, attribution, valuation, rate cards, advice: arithmetic over recorded
  rows, out of TLC's reach or without state between invocations.
- Reports and the reader's freshness labels: functions of one read.
- Migration and startup: each migration is one transaction; the models start from
  a migrated ledger. Not considered: an old binary beside a newer schema.
- Restore and drill: they work on a state directory nothing else uses meanwhile.
- Imports and export: one transaction each. Retention: bounds over diagnostic rows.
- `meter/retry.rs` has no caller outside its tests; transport appears as a request
  that ends or outlives its lease.
