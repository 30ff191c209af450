# StackUnderflow in TLA+

TLA+ modules, TLC configurations and TLAPS proofs for the Rust implementation of
StackUnderflow (`src/rust/crates`).  StackUnderflow reads the session files that
coding agents leave on disk, stores their messages in one SQLite file, derives
usage events and aggregate tables ("marts") from them, serves a dashboard, and
can replicate the marts between the devices of one user.

What is hard in this program is not any one computation.  It is that several
processes and threads write one store without a lock between them, that most
statements commit on their own, that everything is incremental (a watermark, an
offset, a hash or a generation says how far something got), and that a process
can be killed between any two statements.  The modules are about that.

## 1. The system

Paths are relative to `src/rust/crates/`.

### Components and their state

| Component | State it keeps | Operations | Correct when |
|---|---|---|---|
| Mart refresh (`stax-etl/src/marts`) | one table per mart, `mart_watermark` | `refresh_all_marts`: read the watermark, read `MAX(id)`, fold the window, store the watermark | an event at or below a watermark is in the mart; it is there once |
| Normalize pass and backfill (`normalize/pass.rs`, `backfill.rs`) | `usage_events` | chunked scan of all messages; `--force` wipes events, watermarks and marts first | every convertible message gets one event |
| Ingest writer (`ingest/writer.rs`) | `messages`, `ingest_log` | one transaction per file: messages, events, resume offset; refresh afterwards | no message lost or doubled, whatever the resume offset |
| Filesystem watcher (`ingest/watcher.rs`) | debouncer, a thread | drain events, ingest the changed paths, repair recent events, refresh | a write to a session file is ingested in the end |
| Ingest sweep (`ingest/mod.rs`) | none of its own | enumerate the files, skip / reparse / tail each | an unchanged file is skipped only if it was read in full |
| Resumable read (`stax-adapters/src/jsonl.rs`, `claude.rs`) | the file, written by another program | iterate the lines past an offset, while the file grows | every complete line past the offset is delivered, but one it met half written |
| Watcher lock (`ingest/lock.rs`, `stax-cli/src/start.rs`) | `server.lock`, an flock, a pid in the file | acquire, drop, show the holder | one watcher runs |
| Device sync (`stax-sync/src/runner.rs`) | `sync_outbox`, remote objects and manifest, `sync_cursors`, `sync_remote_devices`, `*_remote` tables | `push`, `pull` | a peer shows what the device committed, never something older, and gets all of it in the end |
| Schema migrations (`stax-core/src/schema.rs`) | the tables, `user_version` | `apply_upto`: read the version once, run each later migration in a transaction of its own | the version claims nothing that is not there; the store gets to the last one |
| Agent inbox (`stax-core/src/agent_inbox.rs`) | message files with a seen mark | send, list, render, mark seen, print | every message is shown, and shown once |
| Nudge gate (`stax-hooks/src/proactive.rs`, `stax-server/src/routes/patterns.rs`) | `proactive_state.json`, a lock file | admit (decide and record the fire), dismiss, steal a stale lock | a nudge is shown once per session while it is remembered, a dismissal is not forgotten |
| Backfill job slot (`stax-server/src/services/etl_backfill.rs`) | the running and the last job, in memory | claim, complete, expire, status | a status shows the newest job until 30 s after its end |
| Statistics memo (`stax-server/src/services/stats_memo.rs`) | an LRU of computed statistics, in memory | signature, lookup, compute, put, invalidate | no answer is older than its request |
| Server routes, settings (`stax-server/src/routes`) | JSON files | mostly queries; tags and budgets are read-modify-write | an edit is not lost |
| Reports, other adapters, wasm, UI, hooks installation, history import, backup | - | pure computations, parsers, one-shot tools | - |

### How they interact

* The **watcher thread**, an **ingest** started by a request or by the command
  line, and a **backfill** (a blocking task of the server or another process)
  share the store.  SQLite serialises their statements, nothing serialises their
  sequences of statements.  Each ends in `refresh_all_marts`.
* The **session file** is written by a program that knows nothing of the reader:
  a line may be half written, appended during the read, or gone with a rewrite.
* **Sync** reads the marts that refreshes are changing, writes to a store that
  promises atomic objects and nothing between objects, and is read by peers in
  the middle.
* Every process that opens the store for writing first brings its **schema** up to
  date, at the same time as others may.
* The coding agent spawns a **hook** for every prompt and tool call, several at a
  time, and kills the slow ones.  Hooks announce the messages of the inbox and
  ask the nudge gate; the server dismisses nudges through the same state file.
* The **server** answers requests on a pool of threads that share its memo and
  its job slot; each is behind a mutex that is held for one lookup or update.
* The **watcher lock** is between processes only.  A `--no-lock` start, the server's own
  ingest and every command-line ingest do not take it, so that it is no
  substitute for the protocol of the watermarks.

The hazards are listed one by one, at their lines, under `hazards` in
`PROJECT.json`, with the properties that cover each.

## 2. The modules

### MartRefresh (and MartView)

State: `messages`, `event` (the id of a message's row in `usage_events`), `top`
(the largest id handed out), `wm` (the watermarks), `counted[m][x]` (how many
times mart `m` includes event `x`), and for each worker its job, the phase of the
job, the statement it is at (`pc`) and its local variables (`old`, `new`,
`pend`).  An action is one statement or one transaction:

| Actions | Code |
|---|---|
| `Start` | a request, a command or the watcher begins a job |
| `Commit`, `CommitNothing` | the transaction of `ingest_file`; normalizing may stop half way and leaves the messages committed.  A cycle that added nothing skips `normalize_recent`, unless another worker's commit fell between its two counts of `messages` |
| `GetWatermark`, `ReadMax` | the two SELECTs before a fold |
| `ApplySum`, `ApplyReplace` | marts that fold their window in one statement: adding (`daily`, `provider_day`, `model_day`), or recomputing the rows it touches (`session`, `project`) |
| `FetchWindow`, `UpsertBucket`, `InsertOrIgnore`, `RowsDone` | marts that fetch the window and write row by row (`tool`, `command`; `message_tool`) |
| `SetWatermark` | the upsert with its MAX guard |
| `SelectRecent`, `InsertRecent`, `SkipRecent`, `RecentDone` | `normalize_recent` of the watcher, a failed insert being swallowed |
| `FetchChunk`, `ConvertChunk` | `pass::run` |
| `DropEvents`, `DeleteWatermarks`, `ClearMart` | `backfill --force` |
| `Die`, `Noted` | a kill or an error at any statement; the watcher notes the error and lives on |

`MartView` is what a dashboard may rely on: facts become known, views show only
known facts, never stop showing one, and show every one in the end.  Without
forced backfills MartRefresh implements it (`ImplementsView`), with
`shown[m] = {x : counted[m][x] > 0}`.

### TailIngest

One session file.  `lines` and `torn` are the file, `log` its `ingest_log` row,
`stored` the sequence numbers in `messages`.  A line is two units long so that a
size, an offset or a read position may fall in the middle of it.  Nobody locks the
file, so that a pass is a sequence of steps between which the writer goes on:

| Actions | Code |
|---|---|
| `StartSweep`; `StartCycle`, `DropBatch` | `run_ingest` begins; the watcher drains its events, and drops them if the store cannot be opened |
| `Enumerate` | the stat that the row will carry |
| `SweepFresh`, `SweepSkip`, `SweepReparse`, `SweepForget`, `SweepTail` | `resume_offset` and its DELETE, which commits on its own |
| `CycleResume` | `watermark_for`, the watcher's own lookup |
| `DeliverLine`, `PassLine` | the next line is whole: a record past the offset, or nothing to insert |
| `ReadHalf`, `ReadRest` | the next item is half a line, or the rest of one that was completed after its half was read; neither parses, and the read goes on |
| `EndOfFile`, `ReadBreaks` | the iterator ends; a file that cannot be opened and a read that fails look the same |
| `CommitPass` | rows, offset and stat in one transaction |
| `Busy`, `Abort` | the pass rolls back: another one writes (`Free`), or a statement fails, or the process dies |

A pass is given its records inside its transaction: from the first on it holds the
store's write lock.  History variables: `apart`, the lines a pass read in two
pieces; `missed`, the lines an offset was moved past without their having been read;
`clean`, no truncation and no failed read since the stat; `gaveUp`, the watchers
whose last batch came to nothing.

### DeviceSync (and Replica)

One pushing device, the store, and one peer.  A shard's rows and its content
hash are one version number.  `push` is `BuildShard`* (one SELECT per family),
then `PushNothing` or `PlanPush`, then `PutShard` and `RecordPushed` for each
pending shard, then `PutManifest`; `pull` is `GetManifest`, `RejectStale` or
`Accept`, for each shard of the manifest `SkipShard`, `WarnShard`, or
`DeleteLanded`, `InsertLanded`, `AdvanceCursor`, then `FinishPull`.  `PushFails`
and `PullFails` may come between any two.  With `StaleReads` the store answers
with any manifest it ever held.  `torn` is a history variable: shards over which
a pull died while the cursor still named the rows it had begun to replace.

`Replica` is what a user may rely on: the device offers one edition of its shards
after the other, the peer moves to one of them and from there only to later ones, and
a shard changes only to what the edition it has moved to says, being blank for a while
in between.  DeviceSync implements it (`ImplementsReplica`), with `offered` the
manifests the store ever held, `seen` the generation recorded last, and `shown` the
landed rows.

### WatcherLock

The path, inodes, an flock per inode, the pid written in each, and `stax start`
processes from `Peek` (read the recorded pid), `Blank` (blank a stale file),
`Open`, `TryLock` or `Refused`, `WriteMetadata`, `StartWatcher` to `Release`,
`CloseFile`, `RemoveFile`, `Join` and `Die`.

### SchemaMigrate

`version` is `user_version`, `done` the migrations whose tables, columns and rows
are there, and each caller has the statement it is at and the last version it
has dealt with.  `ReadVersion` is the only reading of the version.  Then, for the
next migration in the list: `GuardHit` (the column is there: the version is set,
the body skipped), or `GuardMiss` and then `RunBody` (one transaction) or
`BodyFails`; `ReturnOk` at the end of the list; `Die` anywhere.  What a migration
does is reduced to whether it is done and whether its body can run a second time
(`CreateTable`, `AddColumn`, `UpdateMessages`, `Rebuild`).  `v005` also needs a
rule the caller injects; it is taken to be there.

### AgentInbox

`file[m]` goes from `none` over `part` to `unseen` or `torn` (`WritePart`,
`MovePart`) and by a rename to `seen`.  A reader, a hook or `inbox --ack`, lists
the names (`ListNames`), reads file after file (`ReadFile`), puts the text together
for at most `MaxInject` messages if it is a hook (`Render`), renames one file
after the other (`Mark`) and prints (`PrintText`).  Messages are numbered in the
order of their paths.  `again` and `cut` are history variables: messages that two
processes had read at the same time or whose rename failed, and messages that a
process renamed and was killed before it printed.

### NudgeGate

`state` is the state file, `lock` the lock file beside it with who created it and
whether it looks stale, `proc` the hooks and dismissals.  `CreateLock`, `SeeStale`
and `StealLock` are `FileLock`; `ReadState` reads, decides (`ShouldSurface`),
records (`Fired`) and prunes (`Prunings`); `WriteState` writes; `DropLock` removes the
lock file of that name, whoever made it.  `LockAges` lets a lock file pass
`LOCK_STALE_S`; `ReadFails`, `WriteFails`, `DropFails` and `Die` are the faults,
and `StealFails` a removal that is tried again.  Waiting for the lock is being idle: a
waiting process has done nothing, and one that gives up is silent.  `Threshold` and `Cooldown` are the settings and may be 0,
which turns suppression and cooldowns off, as in the code.  History variables:
`shown` is when the hook that showed a nudge in a session last had asked; `pruned` are the nudges
whose record went with their session when the state was pruned; `spoiled`: the lock of
a process at work was removed, a fire was not written, or an unreadable state was
reset.

### ServerMemory

The memo: `ReadSignature`, `Hit` or `Miss`, `Compute` (or `ComputeFails`), `Put`
with the eviction of the least recently used entry, `Invalidate` by a refresh
(`RefreshIngests`, `RefreshInvalidates`) or by an edit of the model aliases
(`EditAlias`).  The rows of a project are a version; a commit moves it, and the
signature with it.  The slot: `StartJob`, `CompleteJob`, `Panic`, `TimeOver` for the
30 seconds of the last job, and a status in two steps, `StatusFirst` and
`StatusSecond`, one per locking.  `Restart` loses all of it.

### External parts

The program that writes the session file, open, flock and the kernel's clean-up
of a dead process are not in the repository.  They are modelled as far as the
code uses them and marked external in the map.

## 3. Runs

| Run | What it asks | Bounds |
|---|---|---|
| `marts_race` | the watermark protocol under interleaving and kills | 2 workers, 2 jobs, 1 failure, 3 messages, a mart of each kind, chunks of 1 |
| `marts_alone` | exactness of every mart after any sequence of jobs of one worker, forced backfills included | 1 worker, 4 jobs, 1 failure, 3 messages, a mart of each kind, chunks of 2 |
| `marts_live` | progress, and the refinement of `MartView` | 2 workers, 2 jobs, no failure, 2 marts |
| `marts_counted_twice` | a claim the code does not keep (section 6) | the smallest instance that shows it |
| `tail_race` | loss, skipping, catching up, progress | a sweep and the watcher, 2 message lines, one failed pass or dropped batch |
| `tail_reparse` | healing by a read from 0 | sweeps, 3 lines of any kind, two of: a failed pass, a failed read, a truncation |
| `sync_faults` | generations, manifests, landing, the refinement of `Replica`, and convergence after failures | 2 shards, 2 contents, 3 changes, 2 failures, stale reads |
| `lock_starts` | one watcher | 3 starts with the lock, 1 without, kills anywhere |
| `schema_races` | the version, completeness and progress of migrations that overlap | 3 callers, 1 kill, 13 of the migrations, stores of 12 ages |
| `inbox` | loss, repetition and progress of announcements | 1 hook after another beside an `inbox --ack`, 3 messages, `MaxInject` 2, 1 kill, 1 failed rename |
| `nudges` | repetition, dismissals, leaked locks | 2 hooks and a dismissal, 2 sessions, room for 1, 2 nudges, 2 ticks, a cooldown of 1, 1 fault |
| `server_memory` | fresh answers, visible jobs | 2 requests, 2 projects, room for 1 entry, 1 commit each, 2 jobs, 1 panic, 1 restart |

Why the bounds are enough.  The steps of a refresh involve one mart and its
watermark; a race needs two refreshes of one mart, and the four kinds of mart are
all there are.  Three messages allow a window of two, an event between two
windows, and two messages in one aggregate row beside one in another.  In a file,
an offset can retreat by a line, pass a torn line and be overtaken: two lines are one
that is torn while it is read and one behind it; the reparse has a third, so that
something is left after a truncation.  Failed reads and lines that are no messages
beside a second reader are left to the proofs.  In a sync, two shards are what it
takes for one to be uploaded and one not; two failures allow a failed push and a
failed pull, or a failed retry.  For the lock, three locked starts are what
unlinking takes.  Of the migrations, the run has every one up to the one that makes
`messages` a view (v008), and of those after it one of each kind: guarded
additions of one and of several columns, a guarded table, bodies that can be
repeated.  Three messages and `MaxInject` 2 leave one for the next hook.  Room for
one session, and for one entry of the memo, makes every second one an eviction;
the bounds are 256 and 8 in the code, and nothing else depends on their size.
What the bounds cannot give the proofs do, where there are any.

Deadlock is not checked where the bounded environment may come to an end (jobs,
lines, starts, messages, ticks used up, every worker idle); a worker that stands
still in the middle of a job would violate the liveness properties.  `sync_faults`
and `schema_races` check it: a push can always be started, and so can an apply.

### Properties

* `WatermarkCovered`: a watermark is a promise.  `MartInv` is its inductive
  strengthening.  `WatermarkNeverRetreats` and `QuiescentFresh`: the failure
  that the comment at `set_watermark` reports is gone.  `RecomputedOnce`: the
  recomputing and ignoring marts are immune to the double count that the
  additive ones are exposed to.  `BackfillRecovers`: the advice "run `stax etl
  backfill` to recover" is sound, also while others ingest.  `QuiescentExact`:
  one worker at a time gets every aggregate right, also after a forced backfill.
* `LossOnlyAtTheEdge`: in a file that only grows nothing below the offset is
  missing but lines that stood at the end of the file as some pass read it
  (`missed`, section 6): one torn when it was read and completed before the next
  read, or one behind the end of a pass that inserted nothing.  `SkipIsSafe`: the
  skip of an unchanged file is sound, with the same exception, because the stat is
  taken before the read.  `CaughtUp`: when no event waits and the last batch did not
  fail, nothing is left unread, although lines arrive between the drain, the stat, the end of the
  read and the commit.  `EventuallyIngested`: and that is so in the end, or the
  watcher is left with a failed batch and no further event.  `FullReadHeals`: a read
  from 0 brings back whatever was lost, as far as it was whole at the stat.
* `GenerationGrows`, `ImplementsReplica`: the order of generations survives failed
  pushes, and a peer follows it, also when the store answers with old manifests
  (`NoReplay` is the part of it that is about those).  `LandedWasCommitted`: a peer
  never shows an object that was uploaded and not committed.  `Readable`,
  `ManifestBacked`: what a manifest names is there; the objects are the named
  ones as long as no push failed.  `SkipIsComplete`: a skip is sound, except
  when a pull died in the middle of a shard that then returns to its old hash.
  `Converges`: every content that stays reaches the peer, also after the last of the
  failures, unless the next push takes an unfinished one for finished
  (`LooksPushed`).
* `SingleUntilDropped`, `DisplayHonest`: one watcher, and the pid on display is
  its holder's, whatever is killed.
* `VersionIsBacked`, `OkMeansComplete`: an apply with an old reading sets the
  version back and repeats bodies, but never claims what is not there.
  `EventuallyCurrent`: and the store gets to the last version all the same, unless
  it is older than the last migration that can neither be repeated nor skipped.
* `NothingSwallowed`, `AnnouncedOnce`, `EventuallyShown`: the exact exceptions to
  "surface exactly once": a kill between the rename and the print, two readers at
  the same time, a failed rename; and no other.
* `NeverTwice`, `StaysMuted`: the gate holds across hooks that run at the same time,
  kills, prunings, and the server's own copy of the code; `spoiled` says what breaks
  it.  A nudge whose record was pruned with its session is still held back by its
  cooldown, and only shown again when that is over.  `NeverWedged`: a leaked lock is stolen, by whatever process goes on.
* `FreshAnswers`: the entry is signed with what was read before the computation,
  so that an ingest in between makes the entry look older than it is, never newer.
  `JobNeverVanishes`: the status asks for the running job first.

### Fairness

* `MartRefresh`: `WF(Step(w))`, that is, a thread that is in a job executes its
  next statement.  `Start`, the failures and `Die` are not fair: nobody has to
  start a job, and none need fail.
* `TailIngest`: the watcher is a loop in a thread of its own, so `StartCycle` and
  the steps of a pass are weakly fair.  A sweep that began goes on;
  `StartSweep`, the writer and the failures are not fair.
* `DeviceSync`: `sync push` and `sync pull` are run again and again by the user
  or by cron (weak fairness of each), and a store that answers with old manifests
  answers with the current one now and then (strong fairness of that answer).
* `SchemaMigrate`: `WF(Step(p))`: commands are run again, and an apply goes on.
* `AgentInbox`: the agent works on and spawns hooks; an `inbox --ack` that was begun
  goes on, but nobody has to begin one.  The sender is not fair.
* `NudgeGate`: a file left behind grows old, and some process goes on: weak
  fairness of all steps together, not of each process.  The removal of a stale file
  may fail any number of times, but not for ever (strong fairness of `StealLock`).
* `ServerMemory`: none; its properties are safety properties.

## 4. Proofs

The proofs hold for every number of workers, marts, messages, processes and for
every bound.

`MartRefreshProofs`
* `TypeCorrect`: `Spec => []TypeOK`, with forced backfills.
* `MartInvariant`, `WatermarksKeepTheirPromise`: `Spec => []MartInv` and
  `Spec => []WatermarkCovered`, assuming `NeverForced` (no worker starts a
  forced backfill) and the assumptions on the constants.

`WatermarkCovered` is not inductive: `SetWatermark` stores a number that the
worker has computed steps before, and only the history of the worker says why it
is safe.  `MartInv` adds that history.  `RefreshSound`: at `max` and `apply` the
old watermark is covered, at `rows` every event up to the new one is in the table
or still pending, at `set` the new one is covered.  `IdsBelowTop`: a new event
gets an id above every number a worker may be about to store, so that another
worker's commit cannot break a promise that is being made; this is what the
forced backfill breaks, since it starts the ids again.  `ControlOK`: a worker is
at a statement of its phase.  The lemmas go by group
of actions, with a case for each one, and the other workers are carried by the fact that no action takes an event out of a mart or
gives a message a smaller id.

The rest of the module:
* `RecomputingCountsOnce` (`[]RecomputedOnce`) and `WatermarksGrow`
  (`WatermarkNeverRetreats`), with forced backfills: the types are all they need,
  and one look at each statement that writes a mart or a watermark.
* `MartsSimulateView`: assuming `NeverForced`, `Spec` implies `View!Init` and
  `[][View!Next]_(View!vars)`, the safety half of `ImplementsView`.  `Backed` is what
  it adds to the types: what a mart counts, and what a refresh has fetched and not
  yet applied, has an event.
* `FreshWhenQuiet` (`[]QuiescentFresh`) and `PassCoversStore` (`BackfillRecovers`),
  for any number of workers, assuming `SoleForcer`: a worker that may force a
  backfill is the only one.  Divergence 5 is the reason: beside it a worker may put
  back the watermark it read, and a pass goes on past messages whose events are
  deleted under its cursor.  `FreshInv` says that a mart is behind only
  as long as some worker still owes it a refresh (`Owes`): a worker owes every mart
  from its commit on, one mart after the other until it has stored the watermark of
  each, and a number it is about to store is `top` or owed by another.  `BackInv`
  says of a pass that every message up to its cursor has its event.
* `MartsExactAlone` (`[]QuiescentExact`), assuming `OneWorker`, with forced
  backfills.  Two workers count twice (divergence 1), so that there is no more to
  prove.  `ExactInv` has an account of the mart at hand at every statement: at `rows`
  it holds the events that are not pending, at `set` all of them, and every other
  mart holds exactly the events up to its watermark; after a job that died this is
  not known (`Trusted`) until a forced backfill has come through its wipe, and
  `Wiping` says what that has emptied so far.

`TailIngestProofs`, for any readers, lines, rewrites and faults
* `TailTypesHold` (`[]TypeOK`).  `TailTyped` adds that no offset and no size a reader
  has seen is beyond the largest file.
* `OffsetPassesNoMessage` (`[]LossOnlyAtTheEdge`).  Not inductive: a reader stores
  its own offset after a pass, and may have looked it up before another's.
  `Sealed` says that every offset in use, that of the row and those in the hands of
  readers, has only passed lines that are stored, no messages, or missed.  `PassOK`
  says of a pass at every step of its read that each line between its offset and its
  read position was given to it, is no message, is not yet passed by what it would
  store, or is in `apart`; the writer may complete the last line meanwhile, which
  puts no line that was read behind the position.
* `SkipLosesNothing` (`SkipIsSafe`).  `Finished`: what lies below the size in the row
  was read to its end, because the size is the one from before the read.
* `WatcherCatchesUp` (`[]CaughtUp`).  `Chased`: a message that is not stored has an
  event waiting for it, or a watcher on its way whose read is still to come to it.
* `FullReadStoresAll` (`FullReadHeals`), from `PassOK`: as long as `clean` holds, a read
  from 0 has been given every message behind it that was whole at the stat.

`NudgeGateProofs`, for any hooks, dismissals, sessions, nudges and times
* `GateTypesHold` (`[]TypeOK`), with the bound on the sessions that are kept.
* `ShownOnce` (`[]NeverTwice`) and `MutedForGood` (`[]StaysMuted`).  The invariant
  is `Sound`, until something is `spoiled`.  `Exclusive`: a process between its read
  and its drop is the owner of the lock file.  `Files`: what was shown is on disk or
  its session was pruned, and so is every dismissal.  `Proper`: what a process is
  about to write contains what is on disk and its own fire (`Prepared`), and once it
  is written it is on disk.  A steal of the lock of a process at work breaks
  `Exclusive`, which is what `spoiled` records.

`WatcherLockProofs`
* `LockTypeCorrect`: `Spec => []TypeOK`.
* `OneWatcher`: `Spec => []SingleUntilDropped`.  The strengthening, `LockInv`,
  says of each process that until the first drop it has no file open or the one
  the path names, that it holds that file from `TryLock` to `CloseFile`, that a
  lock is held only by a process in those steps, and that it reaches `remove` or
  `join` only after a drop.  Two watchers before the first drop would then hold
  the same file.
* `DisplayTellsTheTruth`: `Spec => []DisplayHonest`, also after drops.  `Written`: a
  pid is in no file that was not created yet, and is of a process that has begun.

`DeviceSyncProofs`
* `SyncTypeCorrect`: `Spec => []TypeOK`.  Its strengthening also says at which
  statements a push or a pull has a shard in hand, and that the generations of the
  outbox are bounded, so that there is a greatest one (`GreatestInOutbox`).
* `ManifestIsBacked`: `Spec => []ManifestBacked`, for any number of pushes at a time.
  `Backed` adds that a row of the outbox stands for an object, and that a push has
  still to upload, or has uploaded, or found in the outbox, all that its
  snapshot lists.
* `PeersShowCommitted`: `Spec => []LandedWasCommitted`, for any number of pulls.  A
  pull works from a manifest the store held, of a generation recorded before.
* `GenerationsGrow`: with one push at a time.  `Ordered`: the manifest is not ahead of
  the outbox, and what a push is about to commit is ahead of both, which is why
  a push killed between its records and its commit cannot have its number reused.
* `ReplayRefused`: with one push and one pull at a time, `NoReplay`.
* `ManifestReadable` (`[]Readable`): with one push at a time, since two could
  overwrite what the other's manifest names.  `Stored`, as long as nothing failed:
  an object differs from its row of the outbox only between the put and the record,
  and what a push has sent, or found recorded, is what its manifest will name.
* `SkipsAreComplete` (`SkipIsComplete`): with one pull at a time.  `Trailed`: a
  cursor names the rows that are there, but for the shard a pull has in hand and
  those a pull died over; the one in hand is never one its cursor has already, or a
  death over it would leave no trace in `torn`.
* `PeerIsReplica` (`ImplementsReplica`), with one push and one pull at a time, from
  `Ordered`, what `ReplayRefused` needs (`Numbered`), and that a pull has one shard in
  hand (`OneInHand`): a commit offers an edition, an accepted manifest moves the peer or
  is the one it was at, a DELETE hides a shard and its INSERTs show it.  Every other
  statement, the uploads and the cursors included, is invisible.

`SchemaMigrateProofs`
* `SchemaTypeCorrect`, `VersionTellsTheTruth` (`[]VersionIsBacked`) and `OkIsComplete`
  (`[]OkMeansComplete`), for any callers, migrations and guards.  The strengthening is
  that each caller has found done, or done, all migrations up to its own position:
  that, and not the version it once read, is what it sets the version to.

`AgentInboxProofs`
* `SeenIsAnnounced` (`[]NothingSwallowed`) and `NeverAnnouncedTwice`
  (`[]AnnouncedOnce`), for any number of hooks, commands, kills and failures.  The
  second needs, of every message that is not in `again` (`Once`), that at most one
  reader has it in hand, that a reader past its rename finds it seen, and that one
  announced is seen and in nobody's hands.

`ServerMemoryProofs`
* `AnswersAreFresh` (`[]FreshAnswers`): an entry is never older than its signature, and a
  request never computed less than the signature it read.
* `JobsDoNotVanish` (`[]JobNeverVanishes`): between the two questions of a status the
  newest job is running, is the last one, or is forgotten.
* `MemoKeepsItsBound` (`[]TypeOK`): the queue names every entry of the memo once and
  never more than `MaxEntries`.  `Without` (what `retain` leaves) is a recursive
  function; what it computes is proved by induction on the length of the queue, over
  the set of lengths for which it holds (`SetInduction`, `WithoutKeeps`).

Only model-checked: the liveness properties, and with them the fairness of
`ImplementsView`, which are out of the prover's reach.

## 5. Abstractions, and what is not modelled

* Tokens, costs and session counts are reduced to which events a row includes.
  `rebuild_all_marts` has no caller but a parity tool.
* A message is convertible; providers without a normalizer never get events.
* The reader's buffer: of a file that is appended to it holds nothing that the file
  does not hold.  A rewrite is a truncation in place and the appends after it.
* Debounce intervals and directory watches: an event waits or was drained.
* The contents of a line: a truncated file that grows past its logged size again
  is not told from one that only grew, and keeps old records at reused offsets.
* Encryption, enrolment, garbage collection and the ssh protocol; two pushes or
  two pulls of one device at a time (`Pushers` and `Pullers` are parameters, the
  runs have one of each, and the code promises nothing for more).
* The relevance of a nudge, the texts of hooks, and the limits of 1024 cooldowns and
  feedback entries of the gate, which are pruned like sessions.
* The memory block that the inbox hook also prints, and readers that do not rename.
* The statistics themselves are the version of the rows they were computed from.
  Prices are not in the signature of the memo either; they change with a new
  release or a reload, which is outside of this model.
* Settings files (`tags.json`, `config.json`) are rewritten without a lock: two edits at
  a time keep one of them.  No text promises otherwise, and there is no state
  beyond one file to relate; only a model of the routes around them would add to that.
* The components with status `not_modelled` in `PROJECT.json`, each with a reason.

## 6. Divergences

`marts_counted_twice` is a run that TLC must find violated.  The others are exceptions
that a property names, each as narrow as TLC allows, or that no property is about.

1. `marts/daily.rs:4-6` says summing is safe "because the watermark guarantees no
   `event_id` is processed twice".  Two overlapping refreshes of an additive mart
   both fold the window between the watermark they read and the maximum they read
   (`marts_counted_twice`).
2. `claude.rs:266-268` skips the record at exactly the resume offset because "the
   caller already saw the record at exactly that offset".  After a pass without a
   new message the offset is the size of the file (`writer.rs:425-429`), where the
   next line begins; and a line that is completed while it is read comes in two halves,
   which are both dropped (`claude.rs:276-278`), while the next line moves the offset
   past it (`missed` in `LossOnlyAtTheEdge`).
3. `runner.rs:349-353` says a retry completes a failed push.  If only the manifest
   failed, every shard is recorded in the outbox and the retry is a no-op
   (`runner.rs:395-407`) until some shard changes; and an object that was uploaded
   and not recorded stays when the content returns to the recorded one
   (`LooksPushed` in `Converges`).
4. `LockHandle::drop` (`lock.rs:40-43`) releases and then unlinks.  A start that took
   the lock in between holds an inode without a name, and the next one locks a new
   file (`SingleUntilDropped` ends at the first drop).
5. `watermark.rs:33-35` calls `--force` safe beside the MAX guard: a refresh that
   is in flight while the watermarks are deleted puts its own back, and the ids
   that start again below it are skipped by every later refresh.  That is why
   `MartInv` is proved under `NeverForced`.
6. `watcher.rs:280`: the watermark is looked up "exactly the way run_ingest
   does".  `watermark_for` (326-346) has no check for a file that shrank, so that the
   watcher resumes behind its end, and stores a row from which no sweep can tell that
   the file shrank.  `FullReadHeals` holds of reads from 0, which only sweeps make.
7. `writer.rs:422-424`: the file size is stored for "empty / non-conversational
   files"; a file that could not be opened once (`jsonl.rs:260-292`) is recorded
   as read to its end as well.
8. `start.rs:554-555`: dropping the watcher "stops the thread and releases the
   lock"; the pair is dropped in the other order, lock first.
9. `runner.rs:15-16`: a crash between the phases leaves "orphan shards the
   current manifest does not reference".  The object key does not contain the
   content (`runner.rs:139-141`), so it overwrites the referenced ones.
10. `docs/specs/multi-device-sync.md:180`: cursors record "what we last
    ingested".  `land_shard` (`runner.rs:578`) replaces rows in several
    statements under the old cursor; see `torn` and `SkipIsComplete`.
11. `schema.rs:388`: the version is read once and every migration beyond that reading
    is run.  An apply that overlaps another on a store before v008 may run a body
    that cannot run again, and, having set the version back at a guard, leave a
    version from which every later apply fails at the same body
    (`EventuallyCurrent`).
12. `agent_inbox.rs:8-13`: messages "surface exactly once", and "a crash mid-delivery
    costs at most one re-announcement".  The rename comes before the print, so a
    kill in between loses the message and re-announces nothing; and two hooks of one
    prompt announce it twice (`cut` and `again`).
13. `agent_inbox.rs:281`: `list_messages` returns messages "oldest first"; paths are
    sorted, by sender first, so the `MaxInject` a hook announces are not the oldest.
14. `proactive.rs:338-343`: a nudge is shown only when "the fire was recorded", "never a
    duplicate".  `write_json` swallows its errors, and a lock file may be removed
    under a process that is at work, by another that saw the stale one before or by the
    `Drop` of one that stalled (`spoiled`).
15. `etl.rs:212-222`: the backfill worker "always releases the slot", unconditionally.
    A panic unwinds past `complete_job` (`Panic`), and the slot is held until a restart.
16. `watcher.rs:798-807`: a batch whose connection cannot be opened, or whose pass fails,
    was drained and is not tried again before the file's next event (`gaveUp` in
    `CaughtUp` and `EventuallyIngested`; line 805 says "a failed cycle is a skipped cycle").  A pass fails at
    once when another one writes, since its first statement reads before it writes.
17. `proactive.rs:936-937`: a stale lock file that cannot be removed is tried again
    without looking at the deadline, so that "a crashed hook can never wedge the
    feature" (911-912) holds only if the removal succeeds in the end (`StealFails`,
    and the strong fairness of `StealLock`).

## 7. Plan

Next, in this order:

1. `TailIngest` for sources that are databases (rowids that may be reused), and a
   version per line, so that a file regrown past its logged size is told from one
   that grew.
2. The rows of a shard one by one, and two pullers; a device restored from a backup.
3. The settings files of the server beside the composition of `ServerMemory` with
   the forced backfill of `MartRefresh`.

Proofs next: what is left of `Replica` when several pulls run at a time.

## 8. Reading order

`MartRefresh`, `MartView`, `MCMartRefresh`, `MartRefreshProofs`; then `TailIngest`,
`DeviceSync` and `Replica`; then `WatcherLock`, `SchemaMigrate`, `AgentInbox`, `NudgeGate` and
`ServerMemory`, which are independent of each other, each with its `MC` module and
its proofs.  Operators marked as mutants are plausible mistakes in the definition
they stand beside; `PROJECT.json` says which property must notice each.
