# Rokuban in TLA+

This directory is a specification of rokuban, a recording system that sits on
top of mirakc (the tuner server): users write rules and per-program intents,
rokuban keeps a PostgreSQL database of what should be recorded, tells mirakc to
record it, ingests what was recorded into a library, encodes, publishes and
deletes it. The program has no in-memory core. It is a set of processes that
share one database and a job queue, each of which reads, decides outside a
transaction, and writes: what can go wrong is almost always two of them
interleaving, a step that is lost, or one that happens twice. That is what the
modules here describe.

Modules are named after the part of the system they model. `MC*.tla` modules
instantiate them for TLC, one `.cfg` per run; `*Proofs.tla` modules hold the
theorems checked by TLAPS. `PROJECT.json` is the index: runs, mutants, the
source lines every definition stands for, hazards and theorems.

## 1. Inventory

Roles are processes of one binary (`cmd/rokuban`): `api`, `watcher`, `worker`
(River jobs), `notifier`, `streamer`. All of them talk to PostgreSQL; watcher
and some workers also talk to mirakc; workers write the library (object stores
and a local spool).

| Component | State it keeps | Operations | Talks to | What is hard | What makes it correct |
|---|---|---|---|---|---|
| reservation store (`store/pgstore/reservations.go`, `rules.go`) | rules, program_intents, program_overrides, reservations, program_snapshots, ruler_input_revisions | intents, overrides, rules: put, patch, delete, each one transaction | api | the ruler evaluates outside a transaction | a bump in the same transaction as every write; no reservation detached without an investment |
| EPG sync (`worker/epg.go`) | epg_programs, epg_services | upsert in batches, channel-wise sweep, prune, bump | mirakc, ruler | nothing is atomic; mirakc answers incompletely | an unanswered channel loses nothing; the ruler is told when it is over |
| ruler (`ruler/ruler.go`, `pgstore/rulerpass.go`) | reservations, circuit_breakers | a pass: read, evaluate, apply in one transaction, GC | store, EPG | stale reads, two passes at once, EPG outages, mass deletion | level triggered convergence; investments and skips win; deletions bounded and latched |
| reconciler (`reconciler/reconciler.go`) | schedule_sync (observed), never_scheduled_events, circuit_breakers | a pass: observe mirakc, POST missing, DELETE stale, recreate changed, record the never scheduled | mirakc, ruler | mirakc moves on between reading and writing; every call may fail alone; total loss of the desired set | converges to the reservations; never touches what is being recorded or what is not ours; a total loss stops it |
| watcher and sweep (`watcher`, `worker/record_sweep.go`, `pgstore/recordobservation.go`) | recordings, record_sync | SSE events and periodic sweeps observe mirakc records | mirakc, jobs | events lost, duplicated, reordered; ids reused | one recording per broadcast, states only move forward, an ended recording gets an ingest job |
| leader (`role/leader.go`) | PostgreSQL advisory lock | acquire, hold, lose | watcher | connection loss is noticed late | at most one holder of the lock |
| ingest (`worker/ingest.go`, `pgstore/ingest_checkpoint.go`, `media.go`) | ingest checkpoints, media_assets, encode policy | copy from mirakc or in place, resume, publish, commit | mirakc, object store | crash between copy and commit; retries; growing source | committed asset is complete; policy frozen in the same transaction |
| encode (`worker/encode*.go`, `pgstore/encodeattempts.go`) | encode attempts, media_assets | reconcile desired profiles, run, publish, give up after attempts | library | retries, two workers, original deleted meanwhile | every desired profile eventually encoded or given up |
| thumbnails, seek tiles, CM detection, chapters | derived assets | reconcile, run, commit | library | as encode | derived from the right generation |
| media publish (`pgstore/mediapublish.go`, `worker/object_publish.go`, `media_asset_publish.go`) | media_asset_copies, object put intents | reserve a key, write the object, commit | object store | crash between object and row | no committed row without its object, no object without a row that will delete it |
| delete (`worker/delete_*.go`, `object_delete.go`, `pgstore/mediadelete.go`, `trash.go`) | tombstones, delete intents, breaker | select, reconcile, execute, confirm | object store | readers, transfers and restores at the same time; retries after a lost answer | never deletes a live object; every tombstone eventually collected; mass deletion stopped |
| storage transfer and audit (`worker/storage_transfer*.go`, `storage_audit.go`, `pgstore/storage_transfer.go`) | media_asset_copies, transfer progress and attempts, temporary files | reserve, lock, copy in slices, hand over, verify, publish, activate; prune, revert, reclaim | stores, delete | crash or deadline at any step; two policies at once; source deleted meanwhile | some active copy at every moment, and it has its bytes; the policy is fulfilled in the end |
| job queue (`jobq`, `jobq/riveradapter`) | River jobs | enqueue unique, once, run, retry, rescue | every worker | unique only while queued or running; rescue runs a job twice | a request made while a job runs is not lost |
| notifier (`notifier`) | LISTEN connection, subscribers | fan out hints | api, web | slow subscribers, reconnects | hints are only hints: a gap makes everyone refetch |
| streamer (`streamer`) | live sessions, HLS segment caches | open, share, expire sessions; cut and cache segments | mirakc, ffmpeg | last reader leaves while another joins; idle timeouts | a session in use is not closed, an unused one is |
| circuit breaker (`breaker`) | circuit_breakers | trip, observe, resume | ruler, reconciler, delete | read before the transaction it guards | latched until a person resumes it |
| capacity (`capacity`) | none | overlap of reservations against tuners | api | boundaries | never more programs than tuners are called feasible |
| TS statistics (`tsstat`), TS scan (`tsscan`) | counters per PID | feed packets | ingest | 4-bit continuity counter, duplicates, discontinuity | a drop is counted once |
| catalog (`catalog`, `catalogdoc`, `pgstore/catalog_*.go`) | documents in the library | export, scan, restore | object store | newest valid document, partial upload | restore never loses a user's intent |
| api, web, config, metrics, webhook, db migrations, deployment | none of their own | translate, render, configure | all | I/O and formats | not a matter for a model checker |

## 2. Reservations: `ReservationStore`, `EpgSync`, `RulerPass`

The three modules form one specification: `RulerPass` extends `EpgSync`, which
extends `ReservationStore`; `MCRulerPass` gives the constants values.

| Module | Models | State and where it lives in the code |
|---|---|---|
| `ReservationStore` | the tables the API writes and the ruler reads | `rule`, `accepts` (rules and their conditions), `intent`, `overrides`, `snapshot`, `reservation` (with its `rule_id`), `originals` (recordings in the library), `epg` (the projection), `revision` (`ruler_input_revisions`), `clock`; `lost` is a history variable: the cause of the last step that removed a reservation |
| `EpgSync` | `worker/epg.go` | `sync` (the step of the one running sync), what it fetched, what mirakc broadcasts, `faults` left |
| `RulerPass` | `ruler/ruler.go`, `pgstore/rulerpass.go` | per pass `step` and `plan` (everything `runPassForSiteAttempt` holds in local variables), `breaker` |

Every query a pass makes is an action (`GetRevision`, `ObserveBreaker`,
`ListEnabled`, `MatchRule` once per rule, `ListIntents`, ...), because between
two of them anything may commit. The write is one action, `ApplyPass` or
`RollbackPass`, because it is one transaction whose last statement locks and
compares the revision: a concurrent API write or bump either commits before
that comparison, and rolls the pass back, or waits for it. The statements of
the transaction re-read tables, so they are evaluated in the state in which it
commits.

What is abstracted: the content of rules, overrides and snapshots (a rule is
the set of programs it accepts, a snapshot is the program's start); every
program lasts one unit of the clock; the dedupe evaluation and the options
(part of a reservation's opaque base); loop markers, `never_scheduled` pruning,
the detector of reused program ids (it logs), the services' own rows, metrics.
Two EPG syncs of a site do not overlap. Importing EPGStation rules is a batch
of rule creations and is not an action.

### Runs

| Run | Question | Bounds |
|---|---|---|
| `ruler_pass` | Do the guards of the deletions hold whatever a pass has read? `BreakerHolds`, `DerivedRemovalsBounded`, `InvestmentsKept`, `SkipsRespected`, `RulelessLostByUser`, and the types | one pass at a time, 2 programs, 1 rule, a bounded number of bumps of the revision (`MaxRevision`), of syncs and of faults; `MaxDeletes` is small enough for the breaker to trip |
| `ruler_live` | Does the reservation table reach what a full evaluation gives, although passes fail, roll back, give up and a sync dies? `Converges`, `SkipReleases` | starts at a site that is synced and has a rule, with nothing booked (`MCSyncedInit`); 2 programs and `MaxDeletes` 1, so that disabling the rule trips the breaker, 2 syncs, so that a program leaves the EPG and returns, 2 user writes, 1 fault, 1 tick. The bounds on writes make the inputs stop changing, which is the premise of convergence |

The bounds are small because every interesting case needs few actors: one
program that is invested in and one that a rule found, one user write between
two queries, one sync caught half-way. In
`ruler_live` the cases the two properties are about are all reached: a program
is skipped while the breaker is tripped and is released all the same, one is
skipped while the EPG has lost it, and one loses its reservation in mid-sync
although its rule accepts it, and gets it back. One rule is enough for that, and
the price is that no run compares ranks under fairness; nothing is recorded in
this run either (`Recordable` is empty). `BreakerHolds` and
`RulelessLostByUser` are checked in `ruler_pass`, with one pass at a time, because
they depend on passes not overlapping; their theorems have that as a hypothesis.

### Fairness

`Fairness` is weak fairness of each pass's own steps and of the steps of a sync
that has started: River re-delivers a job until it completes and the periodic
jobs enqueue a pass and a sync again and again. Nothing is assumed of users, of
mirakc, of the clock, or of the operator who resumes a breaker.

### What the model shows and no run fails on

- The breaker is read before the transaction, so a pass that runs beside the one
  that trips it still deletes (give `MCRulerPass.cfg` two `Rulers`: `BreakerHolds`
  fails). Passes of a site overlap only when a job is rescued.
- The match and the list of still-projected candidates are two reads; a program
  that an EPG sync adds between them loses its reservation although an enabled
  rule accepts it. The next pass books it again, which is why `Converges` holds
  and nothing stronger is claimed of a single deletion.
- Resuming the breaker does not let an oversized deletion through: as long as
  more than `max_deletes_per_pass` are due the next pass trips it again, however
  often it is resumed (`ruler_test.go:1957` leaves one program less before it
  resumes). `Converges` therefore excuses deletions while too many are due, and
  not only while the breaker is tripped; it excuses nothing but such deletions.
- The GC of another site's pass deletes intents without bumping the revision; a
  program id that is projected again at that moment gets a reservation without
  rule and without investment, which a later pass releases outside the breaker.
  With two passes `RulelessLostByUser` is therefore false, and the theorem is
  the weaker `RulelessWasInvested`.

### Proofs: `RulerPassProofs`

Assumed: `StoreAssumption`, `SyncAssumption` and `RulerAssumption`, the types of
the constants and that no two rules have the same rank (the order is
`priority DESC, id ASC`).

The inductive invariant is `TypeOK /\ PlansValid`. `SkipsRespected`,
`InvestmentsKept` and `RulelessWasInvested` speak of what `ApplyPass` commits,
which depends on what was read many steps ago; none is inductive. `PlansValid`
says what the revision protects: *while `revision` is the one the pass read*,
the pass's list of skips contains every present skip, every investment it read
still stands or was collected by the GC, and its deletions are programs it did
not desire. Every action that would break this for some pass bumps the
revision, and the premise goes; the GC is the one writer that does not bump,
which is why its case is part of the invariant. The theorems hold for any
number of concurrent passes, rules and programs.

`BreakerHolds` and `RulelessLostByUser` need one hypothesis more, `OneRuler`: no two
passes of a site run at once. River's unique job gives that except when a job
is rescued, and without it both are false (above). Under it `AloneInv` is
inductive: after `ObserveBreaker` a tripped breaker is one the pass knows of,
since the pass that trips it ends with that (`TripSeen`), and while the inputs
are unchanged the investments it read are still there, the GC being its own
last step (`InvestmentsHeld`). `BreakerIsHeld` and `ReleasesFollowUsers` follow
for any number of programs, rules, faults and retries. Everything under fairness
stays with TLC.

## 3. The reconciler: `ReconcilePass`

`ReconcilePass` models one package, `reconciler/reconciler.go`, with the option
arithmetic of `schedulesync/options.go`; `MCReconcilePass` gives it constants.
mirakc is external: it is modelled as far as the pass depends on it (one
schedule per program, a state that moves on by itself, no update).

| State | In the code |
|---|---|
| `decision[p]` | what a pass would make of `p`'s reservation: options, an effective skip, options that do not parse (`Broken`), no reservation |
| `title[p]` | what `contentpath` would generate for `p` at present |
| `never`, `recorded` | rows of `never_scheduled_events`, live rows of `recordings` |
| `breaker` | the row `reconcile_total_loss` of `circuit_breakers` |
| `schedule[p]` | mirakc's schedule of `p`: state, whether it carries our tag, priority, path |
| `step[w]`, `view[w]` | where pass `w` is in `RunPass`, and its local variables: the one listing, the one evaluation, the one reading of the clock, the programs of the current loop that are left |
| `declined` | history: programs that were not to be recorded at some time |
| `first[p]` | history: the path of the first schedule made for `p` |

`RunPass` is a straight line of loops, and each loop is a set of actions:
`ObserveBreaker`, `ListSchedules`, `ListDesired`, then `CreateSchedule` once per
missing program, `CollectDeletes` and `DeleteSchedule`, `CollectRecreates` with
`RecreateDelete` and `RecreatePost`, `CollectNever` and `RecordNeverScheduled`.
Every HTTP call and every query is an action of its own, so anything may happen
between two of them; `CallFails` is the failure of one call, after which the
loop goes on, `TripFails` the failure to record the trip of the breaker, and
`PassFails` a failed query or the death of the process. A call either takes
effect or fails; a call whose effect is kept and whose answer is lost is the
former followed by `PassFails`, or a `CallFails` and a `Meddle`.

A recreation carries the path that the listing saw. mirakc returns the path it
was given, and every schedule of ours is posted with one, so the third branch of
`recreateSchedule` (no path observed: generate one, which may fail before the
DELETE) is not modelled; it would be reached only through a schedule that bears
our tag and was made by someone else.

What is abstracted: effective options are a priority and a path (the tag that
carries the description, which is compared too, is one more field that
behaves like the priority); a schedule of ours with changed options of any kind
is recreated. `schedule_sync` is written by the pass and read only by the API,
so its replacement is not modelled. The end of a program does not move (`End`);
a moved end only changes when `ProgramEnded` becomes true. The detection of
delayed starts, gauges and events are left out. mirakc's `tracking`,
`recording` and `rescheduling` are one state. The watcher appears as
`ObserveRecord`, which creates a recordings row while mirakc's schedule is
there. `Booked` and `Tidied` are claims about a system that has come to rest.

### Runs

| Run | Question | Bounds |
|---|---|---|
| `reconcile_pass` | Do the guards of deletions hold when the world moves on after the listing, does a tripped breaker stop every deletion until it is resumed, what may a fault cost, and does a pass make up for what an earlier one failed to delete? `LatchHolds`, `DeletedOnlyDeclined`, `OneLossPerFault`, `Tidied` | 2 programs that are not over (the clock stands still), at first under one title and wanted with the first of 2 priorities or not at all, 2 titles, 2 changes of reservations or titles (the desired set may vanish and return, both programs may be recreated by one pass), 1 fault, up to 2 recreations a pass, one pass at a time, any number of passes; the watcher's records are left out (`Recordable`), as only programs that are over are looked up there |
| `reconcile_options` | Does a recreation, which may lose its POST, end with the present options, and is a program that ended unscheduled recorded as such, but only then? `Booked`, `NeverRecorded` | 1 program that ends after the first instant of three, an explicit path or a generated one, two titles, 2 changes, 1 fault, any initial state |
| `reconcile_race` | a statement of the docs that the code does not keep | the smallest instance that shows it |

Two programs are enough for one to be desired, unresolved or skipped while the
other is the loss, and for one to be recreated while the other waits in the
memory of the pass; a third would only add to a set. `MaxRecreates` is 2 in
`reconcile_pass`, so that one pass recreates both. That more programs than
`MaxRecreates` are carried over to the next pass is reached by no run
(`reconcile_options` has one program); it is in the model (`ToRecreate`), and the
theorems hold for every `MaxRecreates`.

What `OneLossPerFault` does not say matters as much. Between its DELETE and its
POST a schedule is in the memory of the pass alone. If the POST is lost, or the
process dies there, the next pass creates the schedule anew, and a generated
path is then that of the present title: docs/recording/reconciler.md:85 says
without that limit that it never changes. `Harmed` counts such a program, and the
property says that each fault makes it one at most, and that renaming and
recreating alone make it none. A path that a user gave is no loss. That the program is scheduled again is `Booked`.

Fairness is weak fairness of the steps of each pass (not of its faults): the
periodic job enqueues a pass again after each one. Nothing is assumed of
mirakc, of the clock, of users or of the operator.

### Findings

- `reconcile_race`: the state `recreateChanged` checks is the one of the
  listing. Creations and deletions, each an HTTP call, and earlier recreations
  come between it and the DELETE; if mirakc starts recording in between, a
  schedule that is being recorded is deleted and posted again.

The total-loss breaker asks only whether anything is desired, so skipping the
last program that was to be recorded trips it, although docs/recording/breaker.md:151
says that user operations do not. `Tidied` makes that exception.

### Proofs: `ReconcilePassProofs`

Assumed: `ReconcileAssumption`, the types of the constants. A pass carries out a
plan that is as old as its listing, so what a deletion or a recreation does
right cannot be seen from the state it acts on. `PlanTrue(at, v)` says what
remains true of the plan `v` of a pass at step `at`, whatever reservations, mirakc
and the clock do meanwhile: whatever it evaluated to absent or skipped was
declined at some time, what it is about to delete is declined, what it is about
to create or recreate has options it evaluated and a schedule it saw, what it is
about to give up is over. This is kept because `declined` only grows and the
clock only goes on (`Later`); a pass's own loops only take programs off their
lists. With the types, `DeclinedInv` and `NeverMeansEnded` it is inductive, for any
number of overlapping passes.

From it follow `DeletedOnlyDeclined` and `NeverMeansEnded` (only a
program that is over is recorded as never scheduled, and so taken out of every
later pass). `LatchHolds` has the hypothesis `OnePass`: two overlapping passes
break it, as the breaker is read once, before the listing. With one pass
`LatchInv` is inductive: until its deletions a tripped breaker is one the pass
knows of, and then nothing is left to delete.

`LossesAreFaults` proves `OneLossPerFault` for one pass at a time and any finite
set of programs. `PathInv` is what makes it inductive: as long as a program is on
the list of recreations, the path the listing saw is the one its schedule has, if
that is still ours, because the pass itself creates only what it did not
see and takes a program off the list when it posts it. So a DELETE takes nothing
that the pass does not remember, a POST brings it back, and `HarmIsPaidFor` says of
every step that it harms no one, or is a fault and harms one. `Tidied`, `Booked`
and `NeverRecorded` are liveness and stay with TLC.

## 4. Records and recordings: `RecordObservation`, `Watcher`

`RecordObservation` is the database side: the tables `recordings` and
`record_sync` and every transaction that changes them when something is
observed. `Watcher` extends it with the processes: mirakc (external), the
watcher, the sweeps and a coarse ingest. `MCWatcher` gives constants.

| State | In the code |
|---|---|
| `recording[i]` | row `i` of `recordings`: event, status, trashed, superseded, whether a `recording.failed` was appended, and which record its original came from |
| `sync[r]` | the row of `record_sync`: none, without a recording, or linked |
| `reserved` | which events have a reservation (`HasReservation`, `GetReservationBySiteAndProgramID`) |
| `record[r]`, `failedSchedules` | mirakc's records and the schedules it keeps as failed |
| `events[w]`, `seen[w]` | the channel between `Subscribe` and `eventLoop`, and the record `handleEvent` has fetched and not yet applied |
| `step[s]`, `view[s]` | where `Sweep` is, and what it listed |
| `job`, `ingest[g]` | River's unique ingest job of a record, and what a worker does |
| `attributed`, `swept` | history: the rows a record was ever linked to, and the linked records whose row a sweep deleted |

A transaction is one action: `AcquireRecordSync` takes the row lock of the
record before anything else, and the unique index decides between two records
of one event. What is *not* atomic is kept apart: fetching a record
(`TakeSaved`) and applying it (`ProcessSaved`), listing (`ListSchedules`,
`ListRecords`), deleting stale rows (`DeleteStale`), applying each listed record
(`SweepRecord`). The enqueue of the ingest job comes after the commit and may
fail alone. `TablesOK` is the shape of the rows (`RowsOK`) and the unique index:
an invariant and not a guard, because `CreateRecording` has to clear its way first
(`SupersedeFailedRecording`).

What is abstracted: an event is identified with its start, so the index has one
key; a failed record always has a reason; the same event waiting twice in the
channel is one (the watcher fetches the record when it gets to it); the
reservation check before a failure is recorded and the one in the transaction
are one. Snapshots, sources, priorities, webhooks, metrics and
`recording.record-broken` are left out. The ingest job looks up its recording,
commits the whole record at one stroke and purges it: `IngestContract`
(section 5); the lease, the temporary files and the hash are in `Ingest`.

### Runs

| Run | Question | Bounds |
|---|---|---|
| `watcher` | Are the outcomes independent of the order of observations? `NoFalseFailure`, `OneRecording`, `TerminalStays` | 2 records of one event, which may fail, finish or be canceled; one watcher, one sweep at a time, 3 rows |
| `watcher_live` | Do sweeps alone, without one event, get every finished record of ours ingested and does mirakc delete it only then (`Ingested`)? | 1 managed record and 1 foreign one of the same event, 2 workers, one of them after a rescue, 2 trashings or restores, 1 fault, nothing canceled |
| `watcher_swept` | a statement of a comment that the code does not keep | the smallest instance of it |

Two records of the same event are the interesting case: two of different events
share nothing. `watcher_live` assumes weak fairness of the sweep (a periodic
job) and of the workers (River runs a queued job again until it completes or is
discarded); the watcher's events are hints and no fairness of them is needed.
It leaves out the two causes that are known to break `Ingested`: a watcher that
runs beside the sweep (`watcher_swept`), and canceled records. A live canceled
row keeps the event's place in the unique index, because `createRecording`
supersedes only failed rows, and the next record of the event is never linked.

### Finding, and one more case

- `watcher_swept`: the deletion of stale rows runs before the snapshot is
  processed so that it does not catch rows made since the listing; it runs after
  the listing, so it does. The recording that lost its `record_sync` row still
  holds its event's place, every later observation of the record conflicts with
  it, and the record stays in mirakc.
- `CreateFailedRecording` appends to whichever row is live; the check that
  `CreateOrGetFailedRecording` has for the sweep is missing for the event. The
  model has it; no run is spent on it.

### Proofs: `WatcherProofs`

Assumed: `WatcherAssumption` (the bounds are numbers, there are finitely many
records, `Idle` and `Absent` are nobody and nothing) and `NoRowAssumption`, that "no
row" is neither a row nor a record. The theorems hold for any number of records,
events, rows, watchers, sweeps and workers.

None of the properties is inductive, because an observation is applied long after it
was fetched. `Inv` relates the tables to what the processes hold:

- `UniqueInv`: an event has one live row. With `RowsOK` this is what the transactions
  have to establish before they insert or restore.
- `LinkInv`, `OnceInv`: `sync` and `attributed` agree, and a record whose `record_sync` row
  no sweep has deleted was linked to one recording only.
- `RowInv`: a row marked failed was only ever linked to failed records, and any other
  row to a single record. This is the invariant behind `NoFalseFailure` and is
  kept only because `CreateOrGetFailedRecording` refuses a row that is another's.
- `OriginalInv`: an original comes from a record linked to its row which mirakc had
  finished.
- `SeenInv`, `ViewInv`: a failure that a watcher has fetched, or a sweep has listed, is one
  still; a record's terminal state does not change at mirakc.
- `IngestInv`, `PurgedIsIngested`: a worker's recording is linked to its record; one that
  is to delete the record has committed its original. So mirakc loses no record of
  which the library has no original.

The proof has one lemma per transaction of `RecordObservation`, shared by the event and
by the sweep, and on top of these one per action of the processes. Results:
`TypeCorrect` (with the unique index), `FailuresAreReal`, `RecordedOnce`,
`TerminalIsKept`, and `NothingIsLost`, the safety half of `Ingested`. The liveness half stays
with TLC, and so does the finding: `watcher_swept` is about a row that `OnceInv`
leaves out (`swept`).

## 5. One record into the library: `IngestContract`, `Ingest`

`IngestContract` is the abstract specification: a record that has finished comes
into the library whole, at one stroke and once, and only then goes from mirakc.
`Ingest` is how `worker/ingest.go` and the checkpoint tables do that, and is
shown to implement it under the mapping `original <- Original`: what a reader of
the library finds under the row of the original.

| State | In the code |
|---|---|
| `record`, `grown`, `sha256` | mirakc's record, its length so far, whether it will have a hash |
| `job` | River's unique ingest job of the record |
| `checkpoint` | `recording_ingest_checkpoints`: owner, lease, canonical path, writer generation, handoff and its hash |
| `progress`, `asset` | `recording_ingest_progress`; the original's rows in `media_assets` and `media_asset_copies` |
| `file`, `temps`, `canonical` | the media store: inodes, temporary names, canonical paths (a hard link shares the inode) |
| `lock` | the row lock of the checkpoint that `CommitOriginal` holds while it links |
| `at[w]` | the local variables of one attempt |
| `doomed` | temporary files that `deleteOrphanIngestTemp` has judged and not yet unlinked |

Every transaction is an action, and everything between two transactions is one:
writing a slice, the handoff, renaming or linking a file. `Crash` may come after
any of them; a lease runs out while its holder goes on (`LeaseOfDead` for one
that died, otherwise unnoticed), `LoseTransaction` ends a transaction behind a
client that then goes on to link the file, `LoseTemp` is a restored volume, and
`Transfer` may damage a chunk. `CheckOrphan` and `UnlinkOrphan` are two steps of
`delete_reconcile`.

Abstracted: a file holds the numbers of its chunks, a hash is the sequence it
was computed from; paths, the marker of the media store, waiting times and the
choice of the encode policy are left out.

| Run | Question | Bounds |
|---|---|---|
| `ingest` | With two workers on one job, is a handoff what the next attempt resumes (`HandoffIntact`), is what a viewer is shown there (`ShownIsThere`), is what is committed what mirakc has (`Verified`), is a temporary file written by one worker (`OneWriter`), and does the job implement the contract, its liveness included (`FulfilsContract`)? | 2 workers, 1 chunk, 2 faults of any kind, damage; `MaxGeneration` 8 is never reached |

Two faults are enough for the takeover by another worker and its death between
the link and the commit; the safety properties were also checked with three.
`FulfilsContract` is the whole of `IngestContract`: every step of `Ingest` is a
step of the contract or leaves its state alone, and a finished record is
committed and purged in the end. Beyond two faults the liveness is not claimed: a
damaged file that a lost transaction leaves under the canonical path stops every
later attempt until an operator looks (`Stuck`). Fairness: a worker that has a job goes on, a slice of the transfer that can make progress again and again
does (`SF`: mirakc answers infinitely often), the lease of a dead worker runs
out, and the sweep queues a job for a record that still is in mirakc.

### Proofs: `IngestProofs`

Assumed: `IngestAssumption`, that the bounds are numbers and `NoOne` is no
worker, and `NoneAssumption`, that "no row" is not a row and "no file" not the
contents of one. The safety properties are far from inductive: that a handoff is
intact depends on which names workers with lost leases may still write, and that
on how generations are given out. The invariant `Inv` has, beside the types, for
each worker

- `LeaseInv`: the lease is held by an attempt that is at the checkpoint's path and
  generation, its open file is there, and the transaction's lock is the owner's;
- `PlaceInv`: no attempt is ahead of the checkpoint or at a path not yet made;
- `FileInv`: its name is still free, or names a file with exactly the bytes it
  has hashed; from the last chunk on these are the whole record (`Done`);
- `AfterInv`: an attempt past the commit works on the original's path;

for each two workers `Apart`: they have one name only if what it names is
complete, which is how a final handoff whose lease ran out is resumed while its
writer goes on to publish; and for the rows and files `PathsInv` (a second path
is made only after the commit), `NamesInv` (no file is ahead of paths and
generations, so a new generation's name is free), `CanonicalInv`, `HandoffInv`,
`DoomedInv` (what is about to be unlinked is older than the checkpoint and not
shown), `ShownInv`, `OriginalInv` and `EndedInv`. The proof has one lemma per
action; the lemmas `Bookkeeping`, `OneGoesOn`, `WriterBegins` and `FilesGo` say
once what attempts that end, go on or begin, and collected files, preserve, and
`SteadyKeeps` that a worker stays in order under what the others do.

From `Inv` follow `TypeOK`, `HandoffIntact`, `ShownIsThere`, `Verified`, `OneWriter`,
and `StepsOfTheContract`: every step of `Ingest` maps to a step of `IngestContract` or to
a stutter. So safety holds for every number of workers, chunks, faults and
generations. The liveness half of `FulfilsContract` stays with TLC.


## 6. What is kept and what goes: `Library`, `DeleteReconcile`

`Library` is one recording as the schema sees it: its original and its encoded
versions with the state of each copy's row, the policy, removal and rebuild
requests, chapters. Its operators are the named predicates of the schema
(`encodable_recordings`, `unencoded_desired_profiles`,
`until_encoded_deletable_originals`, `removed_encoded_assets`,
`old_generation_media_asset_copies`, ...) and its actions are the transactions of the
stores: the user's, those of the encode job, those of the deletion.
`DeleteReconcile` and `Encode` (section 7) extend it with the processes that call them.

`DeleteReconcile` is the pass of `worker/delete_reconcile.go` and
`delete_execute.go`.

| State | In the code |
|---|---|
| `file[c]` | whether the copy's file is there; `unlinked` or `reclaimed` say what took it |
| `breaker`, `pass.tripped` | the row of `circuit_breakers`, and what the pass has read of it |
| `pass.step`, `pass.todo`, `pass.arm`, `pass.current`, `pass.there` | the local variables of one pass: the copies in deleting that nothing wants deleted (`resolve`, `settle`), those that wait (`pending`), the four lists of candidates (`list`), the deletion of each (`delete`, `unlink`, `unlinked`), the reserved copies (`reclaimed`) |
| `job` | one encode job between its plan and its publication |
| `appending` | `AppendProfiles` between its look at the original and its transaction |

Each list is one query, and so an action; every file is stat'ed, marked, unlinked
and marked again in actions of its own. Between any two of them the user edits,
the job moves, a call fails (`DeleteFails`, `ReclaimFails`) or the process dies
(`PassDies`, `EndJob`).

Recordings share nothing but the pass and the breaker, so there is one
recording. There is one store and no file vanishes by itself. The time of grace
of the trash and the overlap of two generations are choices of a pass
(`BeginPass(aged, overlapped)`), which may be made at any time after the trash
or the publication. Left out: orphans and missing files, placement and transfer
copies, a second store, notifications.

| Run | Question | Bounds |
|---|---|---|
| `deletion` | Has every active row its file (`ActiveHasFile`), is what was purged gone (`PurgedIsGone`), is a spare copy always left (`SpareRemains`), does a tripped breaker withhold every deletion (`BreakerLatched`), does the original go last (`OriginalReplaced`)? | 2 profiles, one of them cut, 2 ranges, 2 versions made, 2 transactions of the user (trash and restore, remove and append), 1 fault, 2 deletions per pass, any number of passes |

No liveness is claimed, and no fairness assumed: what a pass does not finish the
next one lists again.

### What the model shows and no run fails on

- A candidate that was listed is marked without a second look at its predicate
  (`MarkDeleting`; only the original of `until_encoded` is looked at again,
  `MarkUntilEncodedDeleting`), although docs/invariants.md:77 asks for that at
  the time of application. A restore from the trash between the listing and the
  mark loses the file, which is why `OriginalReplaced` excepts what was listed as
  trash.
- In the same way a version that was listed as removed can go after its profile
  was appended again; if the original was listed in the same pass both may go.
  `SpareRemains` is therefore a property of the predicates, state by state,
  and not of a whole pass.
- `AppendProfiles` looks at the original without the lock of the recording; the
  original may be deleting when the profile is added.
- `ReclaimPendingMediaAssetCopy` deletes the object inside its transaction. If the
  transaction is lost the row stays pending without its object and a job may
  publish it: the exception `reclaimed` in `ActiveHasFile`.

### Proofs: `LibraryProofs`, `DeleteReconcileProofs`

Assumed: `LibraryAssumption` (the cut profiles are profiles, the original is no
version, at least one generation) and `DeleteAssumption` (the limit and the
bounds are numbers).

`LibraryProofs` has the facts on the transactions that both processes need, and
`DeletableApart`: whatever the requests are, the removed versions and the
replaced original never make up all that a live recording has to show. Its
argument is that each of the two predicates asks for a copy that the other does not let go: the
original needs every *wanted* version, and a version is removed only while it is
*not wanted* and something else is left.

`DeleteReconcileProofs` proves all six properties of the run. None is inductive:
whether an active row has its file depends on what a pass saw of it three
transactions ago. `DeletionInvariant` says what stays true of that knowledge:
the copy in hand stays in deleting, because no one but the pass takes a copy out
of it (`CurrentDeleting`); the file that was seen is still there (`SeenHolds`);
the job's pending copy has its object or was reclaimed (`PutIsThere`); an
original that is deleted has no file (`OriginalRow`); no job of a purged
recording holds a reservation (`NothingReserved`); a tripped pass deletes
nothing new and the original is a candidate of the first two arms only
(`PassOrdered`). The two action properties follow from `OnlyCandidatesGo`: only
the deletion of a candidate takes an active copy to deleting.

## 7. Making the versions: `Encode`

`Encode` extends `Library` with `encode_reconcile`, the queue and the workers
that run `worker/encode.go`.

| State | In the code |
|---|---|
| `objects` | the keys of the derived store that hold an object |
| `jobs` | encode jobs that River has not completed: unique by profile and ranges |
| `attempt[p]` | the row of `recording_encode_attempts`: running or failed, and its count |
| `at[w]` | what worker `w` holds: its job, its plan (`observeEncodePlan`), its attempt's token, the count before it |
| `dead` | history: workers whose attempt `Begin` has declared dead while the row that counts was there |

An attempt goes `Begin`, `ObservePlan`, `Reserve`, `Put`, `Publish` or `Drop`,
`Finish`; it may fail (`FailAttempt`), be put off (`RestoreAttempt`), die
(`Crash`), and a rescued job runs a second time while the first worker goes on
(`Handed` lets a job be taken from a worker that still runs it). `Breaks` is a
command that fails. `DeleteCopy` and `ReclaimPending` are the deletion as far as
it takes what a worker relies on. Command lines, subtitles, scratch directories,
progress, the back-pressure of a full transfer backlog and the paging of the
listing are left out.

| Run | Question | Bounds |
|---|---|---|
| `encode` | Is a version published only with ranges that are confirmed then (`OnlyConfirmed`), does the current one stay (`StaysViewable`), is a dead attempt silent (`DeadNeverPublishes`), is every wanted profile made (`Encoded`) and every rebuild honoured (`RebuildHonoured`), or given up for a reason? | 1 cut profile, 2 ranges, 2 workers, 2 attempts, 3 generations, 2 transactions of the user, 1 fault |

Two profiles share only the policy, so one is enough; the invariant was also
checked on two. The limit of 2 lets an attempt die, another be counted and the
third be refused. Fairness: a worker that holds an attempt goes on, the periodic
`encode_reconcile` runs, and a queued job is taken. River gives all three.
`GivenUp` names the ways out: the attempts are used up, the original is gone or
trashed, the profile is not wanted any more, or the bound of generations.

Attempts are counted from 1 again once their row is gone, so the sentence of
docs/storage/publish.md:25 that an attempt with an old token publishes nothing is
true while the row lives; beyond that `OnlyConfirmed` bounds what it may publish.

### Proofs: `EncodeProofs`

Assumed: `EncodeAssumption` and `LibraryAssumption`. `EncodeInvariant` is `Type`
and four facts: a worker that has planned has a plan (`Planned`), a reserved
generation belongs to one worker (`Owned`), an attempt counts one more than what
it found (`Counted`), and a dead attempt is behind the row that counts
(`DeadBehind`).
`OnlyConfirmed`, `StaysViewable` and `DeadNeverPublishes` follow, for any number
of workers, profiles, generations and attempts. The two liveness properties stay
with TLC.

## 8. From store to store: `StorageTransfer`

`StorageTransfer` is one original and two file stores, with the job of
`worker/storage_transfer.go`, the transactions of `pgstore/storage_transfer.go`
and what the delete pass of each store does to placement (`delete_execute.go`).
A policy is the store it wants; while it is switched, processes with the old and
with the new one run side by side.

| State | In the code |
|---|---|
| `copy[c]` | the rows of `media_asset_copies`; a copy has a path of its own, so `dest[c]` and `temp[c]` belong to the row |
| `sha`, `attempts[c]` | `media_assets.sha256`, `media_asset_transfer_attempts` |
| `progress[c]` | `media_asset_copy_transfer_progress`: owner, lease, generation, handoff, what was saved, whether the source is being verified |
| `inode[c][g]`, `temp[c]`, `dest[c]` | what the file of a generation holds, which have their temporary name, which one the canonical path is a link to |
| `lock[s]` | the advisory lock on a source store |
| `worker[w]`, `pass[s]` | the local variables of a job and of a delete pass |
| `policies`, `policy`, `trashed` | the processes' configurations, the newest, `recordings.deleted_at` |
| `torn` | history: copies whose files a reclaim removed although its transaction was then lost |

A job goes `Prepare`, `AcquireBandwidth`, `AcquireProgress`, then either adopts
what is there (`AdoptExistingDestination`), or opens its temporary file
(`OpenSlice`) and copies (`CopyBlock`) until it is whole (`Publish`,
`Complete`) or the slice ends (`EndSlice`) or the source fails (`ReadFails`). A
mismatch is verified against the source before it counts as a failure
(`StartVerification`, `ReadBlock`, `FinishVerification`); a refused completion
takes its link back (`RemoveRefused`, `DiscardPending`). `Crash` comes
anywhere. `Stall` is a call on the file system that outlasts the job's deadline
and, if it goes on, its lease: after it no statement of the job's own context
succeeds, but the releases and the saving of a slice have contexts of their
own. `LoseLock` loses the connection under a job that goes on, `GiveUp` is a
statement that fails, `Rot` damages the source.

A file is the sequence of its blocks and its SHA-256 is that sequence. Left out:
derived assets and object stores (with resumable uploads and ownership records),
sources over HTTP, `missing_media_assets` and the overlap, originals that are
given up for their versions, the backlog, the storage audit. The two deferred
releases of a job are one step.

| Run | Question | Bounds |
|---|---|---|
| `transfer` | Is some row active at every moment (`LastCopyStays`), has an active row a file with the bytes its SHA-256 speaks of (`ActiveIsIntact`), is a temporary file written by one job (`OneWriter`), is what was handed over there (`HandoverIntact`), and does the recording end up where the policy wants it and only there (`Settles`)? | 2 workers, 2 blocks (a slice may end between them), 1 switch, 1 trashing, 1 fault of any kind, 2 attempts, 2 copies, 2 generations |

Fairness: a job that runs goes on, the periodic jobs enqueue transfers and passes
again, leases expire, a slice reads something again and again (`SF` of
`ReadsOn`: it has minutes), a restore follows a trashing, and processes with the
old policy stop. `Exhausted` names where the limit of attempts or the model's
bounds end the story.

The bound of one fault is not generous, and two of them break `ActiveIsIntact`:
a job whose completion was refused while the recording was in the trash removes
the canonical path it had linked (storage_transfer.go:1441). If it stalls before
that beyond its lease, and has lost its lock, a second job has adopted the very
file, and after a restore activates a row whose file the first then removes.
Without trash (`MaxTrash` 0) two faults break neither `ActiveIsIntact` nor
`LastCopyStays` (one block, one attempt: 257,000 states). Likewise
`torn` is an exception that is needed: `ReclaimObsoletePendingMediaAssetTransferCopy`
removes the files inside its transaction, and if that is lost, a
restore or a second switch makes the row wanted again without them.

`StorageTransferProofs` proves what survives any number of faults. `TypeCorrect`
is the type invariant, which holds that a store has at most one live row.
`LastCopy` needs only that: the row a pass takes on is in another store than
the active row it has seen. `OneWriterEach` rests on the invariant `Writers`.
A job that writes is in one of three positions towards the lease of its copy:
it owns it and has not handed over; a later generation has begun; or the lease
is gone and the row is past `pending`, so that no job can claim it anew (a row
never returns to `pending`). And two jobs that write one copy have different
generations, which the three positions alone would not say of two jobs
whose lease is gone. A claim either continues a generation that was
handed over, whose writer has therefore stopped, or begins the next one.

`ActiveStaysIntact` and `HandoverStaysIntact` have a hypothesis, `LockKept`: no
connection that holds the lock of a source store is lost under its job
(`LoseLock` never happens). Crashes, stalls, expired leases, lost replies,
reclaims whose transaction is lost, a source that goes bad, switches and
trashings are all allowed, any number of them. Without the hypothesis both are
false once two faults are allowed: a lost lock and a stall beyond the lease give a
copy two jobs. The proof has two layers.

- `Held`: a job past `AcquireBandwidth` has the lock of every store its copy is
  not in, and its copy's row never changes store. There being two
  stores, two jobs at work on one copy would have the same lock (`Alone`). That is why a
  step of one job leaves what the others know alone (`OwnStep`), and why
  `TransferAssumption` names the two stores: with a third, two jobs could
  read different sources into one copy.
- `Inv`: what each actor knows of the row and the files while it is between two
  of its steps. `JobTrue`: a job at work has a row that is `pending` or given up;
  if it is `pending`, the lease has the job's generation and is not handed over, and the
  files are as the job's position says (`FileTrue`: a copy has in its
  temporary file what it has read, a job at `complete` has the canonical path linked
  to what it has hashed). `RowTrue`: a lease belongs to a `pending` row, an `active`
  row is intact, one in `deleting` is intact until its path is unlinked, and a
  handover has its file. `PassTrue`: the row of a pass stays in `deleting` as long
  as the pass has it, and a pass that reverts has seen the file.

TLC has checked `Held` and `Inv` before (1 block, 2 faults, 3 copies: 13 million
states without a violation; 2 blocks, 2 faults, 2 copies: complete, 1.46 million).

## 9. What is proved and what is only checked

Every run is exhaustive for its bounds. Proved by TLAPS, for every value of the
constants that the named assumptions allow:

| Module | Proves |
|---|---|
| `RulerPassProofs` | types, `PlansValid`, `InvestmentsKept`, `SkipsRespected`, `DerivedRemovalsBounded`, `RulelessWasInvested`; for one pass at a time `BreakerHolds`, `RulelessLostByUser` (section 2) |
| `ReconcilePassProofs` | types, `DeletedOnlyDeclined`, `NeverMeansEnded`; for one pass at a time `LatchHolds`, `OneLossPerFault` (section 3) |
| `WatcherProofs` | types with the unique index, `NoFalseFailure`, `OneRecording`, `TerminalStays`, the safety half of `Ingested` (section 4) |
| `IngestProofs` | types, `HandoffIntact`, `ShownIsThere`, `Verified`, `OneWriter`, the safety half of the refinement of `IngestContract` (section 5) |
| `DeleteReconcileProofs` | types and all five other properties of `deletion` (section 6) |
| `EncodeProofs` | types and the three safety properties of `encode` (section 7) |
| `StorageTransferProofs` | types, `LastCopyStays`, `OneWriter`; as long as no lock of a source store is lost `ActiveIsIntact`, `HandoverIntact` (section 8) |
| `LibraryProofs` | the lemmas on the predicates and the transactions of `Library` |

Model-checked only: every liveness property, the liveness half of
`FulfilsContract` among them, since fairness and `ENABLED` are out of the prover's
reach; and `ActiveIsIntact` and `HandoverIntact` when one lock is lost and nothing
else goes wrong, which the run covers and the theorems' hypothesis leaves out.
The type invariants of `ReconcilePass`, `Watcher`, `Ingest` and `StorageTransfer` are proved;
no run spends a property on them.

## 10. What is left

| Module | Would model | Properties it is for |
|---|---|---|
| `Leader` | the advisory lock, heartbeats, lost connections | who may act after its lock is gone, and for how long |
| `StorageTransfer`, derived assets | resumable uploads, ownership records, missing files | no object without a row that will delete it |
| `LiveSession`, `SegmentCache` | sessions, readers, leave hints, reaping | a session in use stays; an unused one goes |
| `JobQueue`, `Notifier` | abstract specifications of the queue's promises and of hints | a request made while its job runs is not lost |
| `Capacity`, `ContinuityCounter`, `EffectiveOptions` | pure operators | equality with a reference definition |

## 11. What is not modelled

Formats (PSI, HLS playlists, query syntax, paths), rendering, configuration,
metrics, webhooks, the HTTP layer and the deployment have no state a property
would be about. mirakc, the object stores, ffmpeg and the file system are
external: they enter as far as the modelled code depends on them. The
components that are not yet modelled are listed in `PROJECT.json` with the hazards
that wait for them.
