# Formal models of Youta

Youta is a media player and library (terminal and graphical) written in Rust. One
reducer thread (`AppController`, `src/src/app.rs`) owns all interface state; bounded
channels connect it to worker threads for file operations, providers, downloads and
playback; a `StateStore` keeps the library on disk, by default as a set of TOML
documents that are each replaced by one atomic rename.

This directory holds TLA+ models of the parts of that program whose correctness
depends on *order*: what a crash, a failed write, a late answer or a second actor may
do between two steps. TLC checks them on small instances; TLAPS proves the invariants
that matter most for every value of the constants.

## Files

| file | what it is |
| --- | --- |
| `LocalMove.tla` | moving and renaming local files together with the library's identities |
| `LocalMoveContract.tla` | its contract: a move changes file and identities in one step |
| `MCLocalMove.tla`, `LocalMove*.cfg` | its instances for TLC |
| `LocalMove_proofs.tla` | its theorems and their proofs |
| `LocalMoveIdentity_proofs.tla` | the proofs that every identity can be found again and that moving is atomic |
| `PlaybackCheckpoint.tla` | saving the playback position and the seconds listened |
| `ListeningLedger.tla` | its contract: a ledger whose every save is one step |
| `MCPlaybackCheckpoint.tla`, `Playback*.cfg` | its instances for TLC |
| `PlaybackCheckpoint_proofs.tla` | its theorems and their proofs |
| `FoldTheorems.tla` | induction over finite sets and numbers, and that finite sums exist |
| `MpvIpc.tla` | what the mpv adapter makes of the lines of mpv's control channel |
| `PlaybackSupervision.tla` | mpv, its reader thread, the supervisor thread and the reducer that drives them |
| `MCPlaybackSupervision.tla`, `Supervision*.cfg` | its instances for TLC |
| `PlaybackSupervision_proofs.tla` | its theorems about wake-ups, and their proofs |
| `PlaybackReading_proofs.tla` | its theorems about what the adapter reads: types, tickets, stranding, seeks |
| `ActivityPrivacy.tla` | switching the saving of activity off and on, cache workers, playback's records |
| `MCActivityPrivacy.tla`, `Activity*.cfg` | its instances for TLC |
| `ActivityPrivacy_proofs.tla` | its theorems and their proofs |
| `DownloadQueue.tla` | the durable queue of manual downloads, its slot and its workers |
| `MCDownloadQueue.tla`, `Downloads*.cfg` | its instances for TLC |
| `DownloadQueue_proofs.tla` | its theorems and their proofs |
| `PROJECT.json` | components, runs, mutants, source map, findings, hazards, theorems |

Run `tlc -config LocalMoveFiles.cfg MCLocalMove` (and likewise the others), and
`tlapm LocalMove_proofs.tla` (and likewise the other `_proofs` modules; the longest takes
a few minutes). A definition whose name has a suffix
(`Movable_ReplacingTarget`) is a *mutant*: the definition after it as a plausible bug
would have it. No specification uses one; `PROJECT.json` says which property each must
break.

## Inventory

**Local move and rename** (`local_move.rs`, `local_browser.rs`, `app.rs` 33150-34400
and 39470-39550). State: the approved plan, the worker's position in it, the
controller's queue of completed mappings, and the *journal*, a document that holds the
exact moves before the first file is touched. Operations: open, confirm or dismiss a
move; rename; execute entry by entry (rename without replacement, across file systems
copy, publish, detach the source); report; persist the mappings (rewrite all documents
that name paths, the journal last); reconcile the journal by looking at the endpoints;
retry; discard; block new moves and quit while an intent is ambiguous. Hard: a worker
running while the controller autosaves, crashes between any two renames or document
replacements, failing writes, other programs creating files, a panicking worker, the
media that is playing being moved. Correct when no file is lost or overwritten, every
identity can be found again, nothing unresolved is forgotten, and every call, move and
shutdown ends.

**Playback checkpoint** (`persistence_files.rs` 560-700, 1207-1228, 1629-1705;
`app.rs` 27480-27600, 27782-27845, 28157-28360, 36497-36612). State: the progress and
statistics documents, the small checkpoint document (one row, one total), the counter
of seconds not saved yet. Operations: account a tick, save, start, replace, end, exit,
publish, recover. Hard: publication takes three writes, each may fail or be the last one;
it is repeated by whoever comes next; a change of item or source publishes the previous
one first; timestamps decide which row wins. Correct when an acknowledged position
survives and is read back, and every second counts exactly once, for its own source.

**File state store** (`persistence_files.rs`, `durability.rs`, `private_files.rs`).
State: one in-memory copy and one file generation per document, a lock on the directory,
a flag that blocks publication. Operations: open (initialise, migrate, quarantine a
damaged document, recover), replace a document, reload. Hard: first start interrupted,
external edits, a write that fails after its rename. Correct when memory and disk agree
wherever writing is still allowed, and an interrupted open is repeated.

**Controller** (`app.rs`). The reducer: drains every channel on a tick, dispatches
commands, autosaves every 30 seconds, shuts workers down in order. Late answers are
discarded by request generations.

**Playback supervision and the mpv adapter** (`playback/threaded.rs`, `mpv.rs`,
`mpv_ipc.rs`, `cache_export.rs`, `worker_wake.rs`). A thread owns the blocking backend;
the reducer reads a published snapshot. State: a job channel, one pending wake-up flag,
an event channel, status, first failure, an epoch that revokes export handles; in the
adapter a bounded queue of parsed events, the load it waits for, a retained seek.
Operations: load, stop, seek, shutdown with their answers; event passes, status,
publication; the reducer's drain of events. Hard: wake-ups coalesced by one flag, event
bursts above the bound of one pass, events that name no load, a seek or a stop racing a
replacement, failures and exits at any point. Correct when nothing waits without a
wake-up, no stale handle is used, seeks and events reach the load they are about, and
every request is answered.

**Activity privacy storage** (`activity_storage.rs`, `persistence/activity_privacy.rs`,
`app/search_privacy.rs`, `app.rs` 35740-35830). State: the policy that cache workers lease
(enabled, a generation, a session directory), the in-memory overlay that takes the store's
writes while saving is off, and the setting in `config.toml`. Operations: capture the
policy for an operation, lease a path, make the session directory, switch each of the
three copies, undo the earlier ones when a later one fails. Hard: a worker that started
under another policy, the upgrade from a read to a write lock, positions and seconds
gathered while saving was off, an end of the process between two steps. Correct when
nothing automatic that is done while saving is off is ever written to the configuration
directory, the three copies agree between changes, and neither a worker nor a change waits
for ever.

**Manual download queue** (`download_queue.rs`, `app/manual_downloads.rs`,
`app/download_choice.rs`, `app/queued_yandex_download.rs`, `app/cached_download.rs`).
State: the queue shown, the one whose save failed, the store's copies, the attempt that
owns the slot, the job whose format is asked for, three kinds of worker with their late
answers. Operations: enqueue, retry, cancel, choose, poll, begin, launch, finish, recover.
Hard: every handler saves in its middle and the save may fail; a cancelled thread or copy
lives on; transfers that are not the queue's share the slot; a process ends at any step.
Correct when the number of an attempt is never used twice, an answer reaches only its own
attempt, a cancelled job stays cancelled, a restart finds what the user was shown, and
every job ends.

**In-memory playback cache** (`playback/ram_cache.rs`, `memory_budget.rs`): a
byte budget shared by ranges. **Prewarming and live start**: at most one preparation
whose answer may be late. **Archive cache**: partial files renamed when complete.
**LAN share**: listener, peers, transfers with deadlines. **Git synchronisation**: runs
after an exit that saved everything. **Backends, child processes**: adapters to mpv and
yt-dlp. **Providers, uploads, media analysis, artwork**: single-request workers around
parsing, remote protocols and signal processing. **Interfaces, configuration, links,
subscriptions**: rendering, tables and conversions.

How they interact: the reducer calls the store synchronously; it sends requests to
workers over bounded channels and drains answers on each tick; workers wake the front
end through `WorkerNotifier`; the local move and the playback checkpoint meet in the
store, where a remap publishes the pending checkpoint first, and in the reducer, which
saves no position by timer, replacement or exit while a remap is queued. The save of a start
of playback does not look at that queue (Findings).

## Plan

1. `LocalMove` with contract and runs: done, every safety property of its passing runs and
   the refinement of the contract proved. It comes first because it is the only component
   that can lose a user's files or detach everything known of them.
2. `PlaybackCheckpoint` with the ledger: done; every safety property of its runs and the
   refinement of the ledger proved.
3. `PlaybackSupervision` over `MpvIpc`: done, and every safety property of its runs
   proved. Next: held ends of a file, the RAM-cache retry, and an abstract player that the
   whole implements.
4. `ActivityPrivacy`: done, and every safety property of its run proved.
5. `DownloadQueue`: done, and every safety property of its run proved.
6. `StateStoreOpen`: first start, migration, quarantine, generations. Two documents, two
   crashes. Abstract specification: a store that is either absent or initialised.
7. In-memory cache budget, prewarming, archive cache, LAN share, Git synchronisation.

## LocalMove

**State.** `fs` is the directory tree cut down to what each path holds. `disk` and `mem`
are the documents and the store's copies; `stale` the documents whose recorded
generation no longer matches; `blocked` is `publication_blocked`. `exec`, `selection`,
`queue`, `pending`, `failure`, `playing` are the controller's fields named in comments,
`starting` the progress row that is made when playback is requested and saved when it starts;
`op` is the synchronous call in progress, one document replacement per step, so that
`Crash` can happen between any two. `worker` is the worker's position in its plan.

**Actions.** Controller calls: `PersistPending`, `Reconcile`, `RemapIdentities`,
`RemapJournal`, `DiscardUntouched`, `FlushProgress`, `FlushClear`, `LinkTarget`,
`UnlinkSource`, `UndoIntent`, `InsertHistory`, `NotePosition`, with `HandleResponse` and
`HandleDisconnect`. The user: `BeginMove`, `ConfirmMove`, `DismissMove`, `SubmitRename`,
`Play`, `Quit`. The player: `PlaybackStarted`, which inserts the history row and saves the row
of `starting` whatever is queued. Timers: `Autosave`, `SavePosition`. The worker: `StartPlan`,
`MoveEntry`, `PublishEntry`, `DetachSource`, `FinishEntry`, `StopMove`. Environment:
`ExternalExit` (the window is closed), `Crash`, `Start`, `WorkerPanic`, `Intrude`
(another program creates a file), `Repair` (the user resolves an ambiguous pair).

**Abstractions.** Two of the seven documents a remap rewrites stand for all, plus the
checkpoint and the journal: their order matters, their number does not. A path is an
atom: a mapping of a directory is a mapping. Reconciliation looks at all endpoints in one
step, although the code looks at one after the other. Request generations are left
out: at most one move is outstanding (`exec`). A history row of media that already has one
is the same row. A rollback that itself fails and hidden
staging residue are not modelled. A crash ends the process, not the machine: renamed
files stay renamed. `Intrude` only creates; nothing but Youta and `Repair` removes files.

**Runs.** All allow the process to be down or stopped at a bound, so deadlock is not
checked.

| run | bounds | shows |
| --- | --- | --- |
| `local_move_files` | 5 paths, 3 files, 3 moves, 1 fault, 1 crash, renames, slow moves, dying worker, late errors | `FilesKept`, `MemoryPublished`; under fairness `MoveReported`, `CallsReturn`, `ShutdownEnds` |
| `local_move_identity` | 5 paths, 3 files, 4 moves, 2 faults, 1 crash, renames, playing without late starts | `TypeOK`, `IdentityRecoverable`, `RemapStaysPossible`, `MovesAreAtomic` (refinement of the contract) |
| `local_move_blocking` | 4 moves, 2 crashes, no faults | `IntentRemembered`, `BlockedWhileUnsettled` |
| `local_move_autosave` | autosaves that meet a slow move, 1 crash, no faults | the finding below |

Two moves in a batch are the least that can be half done; a move and its reverse, and two
moves of one source, give every kind of conflict; a row whose file is gone makes a
collision possible. Two faults (`local_move_identity`) let a write and its retry fail; a
second crash (`local_move_blocking`) lets a recovery be interrupted. `LateStarts` is off in
all runs because of a finding below: what plays then starts before a move or rename of its own
file was applied. The moves of other files, and all moves of a file once it plays, meet every save.

**Fairness.** `WF(ControllerStep)`: a synchronous call runs on the reducer's thread and
nothing can stop it half-way but a crash. `SF(HandleResponse or HandleDisconnect)`:
every tick drains the worker's channel before it does anything else, and other calls only
interrupt it between ticks. `WF(WorkerStep)` while the process runs: the thread is
scheduled and its file operations end. Users, restarts, autosaves and faults are never
promised.

## PlaybackCheckpoint

**State.** `disk`, `mem`, `stale` as above for progress, statistics and the pending
checkpoint; `current`, `playing`, `begun`, `unflushed` are the controller's media, its
phase, the row made when playback was requested, and `unflushed_listen_time` in whole
seconds. `op` is the call in progress, `op.then` what its caller does afterwards.
`heard`, `lost`, `acked`, `tried` are history variables: no action is guarded by them
except for the bound on `heard`.

**Actions.** `Play`, `Started`, `Tick`, `Stop`, `Exit` are the reducer's;
`FlushProgress`, `FlushStatistics`, `FlushClear`, `SaveCheckpoint`, `Saved`, `Returned`
the writes and returns of their calls; `Start` loads the documents and recovers the
checkpoint; `Crash`, `TimePasses`, `Edit` (another program rewrites a document with the
same content) are the environment.

**Abstractions.** Fractions of a second are dropped. Durations, the explicit played
mark and row limits are not modelled. A load that is retried or fails is a `Stop` or `Play`
before `Started`. Functions of the store that only tests call (`upsert_progress`,
`add_listen_seconds`, ...) are not modelled. The clock only advances; what happens when
it is set back is described under Findings. The mode without saved activity is not
modelled.

**Runs.**

| run | bounds | shows |
| --- | --- | --- |
| `playback_positions` | 2 items of one source, 2 positions, clock 0..1, 1 second, 1 fault, 1 crash or exit | `TypeOK`, `SavesSurvive`, `SavesAreRead`, `ClosedIsPublished`, `SavesAreAtomic` (refinement of the ledger) |
| `playback_seconds` | a video and a live station, 2 seconds each, 2 faults, 2 crashes or exits, late errors | `EverySecondOnce`, `CountIsDurable` |

Two items are the least for a change of item, a live station the least for a save
without a row; two positions in one second make equal timestamps matter; a fault and a
crash fall on either side of every write. With late write errors a document may already
hold what the failed write reported as not saved, and a later row equal to the memory copy
is then not written again; positions are therefore checked without them, seconds with
them. No liveness is stated: every call is synchronous and none waits.

## PlaybackSupervision

**State.** `mpv` is the player process: the file it has open and how far it is, the load
and the stop it has accepted. `lines` and `notice` are the reader thread's queue and the
notification it still owes. `ipc` and `cache` are the adapter's fields (`MpvIpc`):
`pending_keep_open` (`accepted`), `load_in_progress`, `pending_absolute_seek`, the event
queue, and the state that export tickets are checked against. `pending`, `jobs` and
`worker` are the supervisor: the coalescing flag, the inbox, its place in `run`. `events`,
`shared`, `reply` and `woken` connect it to the reducer; `ui` holds the reducer's place in
a tick or request, `playback_phase`, `current_media`, `ignore_replaced_stop`. Loads are
numbered by `epoch`, which is also `cache_epoch`. Lines and events carry a load for the
properties only; no guard of the program's actions reads it. `history` and `ui.dropped` are
history: the last seek and the file it reached, whether loads crossed, whether the last
poll failed, whether the reducer dropped a failure it had read.

**Actions.** mpv: `MpvStart`, `MpvAbandon`, `MpvAdvance`, `MpvRedirect`, `MpvEnd`,
`MpvExit`. Reader: `Notify`. Supervisor: `TakeRefresh` and `ClearPending` (taking a
`Refresh` and clearing the flag are two steps), `ExecutePlay`, `ExecuteStop`,
`ExecuteSeek`, `ExecuteShutdown`, `PollEvent`, `WakeAfterEvent`, `Rearm`,
`PublishStatus`. Reducer: `Tick`, `DrainEvent`, `TooManyEvents`, `CaughtUp`, `ReadStatus`,
`ApplyStatus`, the requests `StartPlayer` with `AttachWaker`, `Play`, `Stop`, `Seek`,
`Close`, and their answers `PlayAnswered`, `CommandAnswered`, `SeekAnswered`, `Joined`. A
call into the adapter is one step: only the supervisor's thread touches the adapter, and
mpv's lines queued until the answer are read by it.

**Abstractions.** mpv is external: it may replace, end, redirect or finish a file whenever
its protocol allows, and its requests may fail or time out, a load that timed out being
carried out or not; once told to stop, it takes no seek. Only position-independent state is kept: properties, volume, speed,
pause, percent and relative seeks are not modelled, nor held ends of file, the RAM-cache
retry, YouTube's and Funkwhale's retries, live starts, malformed lines, the limit of 128
messages per answer, the initial volume and speed commands, and the periodic polling of
a backend that cannot wake its supervisor (none with mpv). A worker thread that could not
be started is not modelled.

**Runs.** Deadlock is checked.

| run | bounds | shows |
| --- | --- | --- |
| `supervision_requests` | 2 loads or stops, 1 seek; 2 lines, 1 line per drain, 1 event per pass, 3 events kept and per tick | `WakeIsQueued`, `TicketIsLatest`, `SeekReachesItsLoad` |
| `supervision_exit` | 1 load or stop, 1 seek, 1 failure or exit; 2 lines, 2 per drain, 1 event kept, 2 per tick | `TypeOK`, `FrontIsTold`, `NothingStranded`; under fairness `RequestsAnswered`, `ExitIsNoticed` |

Two loads are a replacement and, with a stop, every pair of requests that can cross. The
code's bounds (512 lines, 64 events, 32 kept) are made small enough that a drain, a pass,
a tick and the event queue are all exhausted; a single event per pass makes every event a
full pass. One fault is a failing request or an exit, at any step: the reducer gives the
player up after the first it sees.

`SeekReachesItsLoad` speaks of executions in which mpv does not report the start of an
older load after a newer one was accepted, in which no load that was reported failed
is carried out, and in which no load or stop fails while the last accepted load has still
to begin (the adapter then forgets, or keeps, what it retained for a load that mpv carries
out all the same). The adapter takes any `start-file` for the latest load's: without the
condition TLC finds, for two loads in quick succession, a seek of the second applied to
the first. `NothingStranded` leaves out the events and the exit after a poll that failed, and
`ExitIsNoticed` a reducer that dropped a failure it had read: both are in the code, and are
described under Findings. `FrontIsTold` leaves out the rest of a batch after the end of a file: the tick
returns at that event and the rest waits for the next tick, at most `IDLE_TICK`.

**Fairness.** Weak fairness of mpv's start of an accepted load and of its replacement or
stop of a file, of the reader thread's notification, of the supervisor, of the reducer's
next step, and of `Tick`: the desktop's loop (`gui/src/reducer.rs`) and the terminal's wake
at least once a second. Nothing is assumed of how long mpv plays, of users, faults or
exits. `SupervisorRuns` is the weak fairness of `Supervise` written without `ENABLED`.

## ActivityPrivacy

**State.** `policy` is `StorageState` (enabled, generation, whether the session directory
exists); `job` the cache workers, with what `for_operation` captured and how far they are in
`with_path`. `overlay` is `StateStore::activity`, `durable` the state directory, cut down to
one position per item and one count of seconds. `setting` is the preference in memory,
`saved` the one in `config.toml`, `change` the step at which a change of it is. `player`,
`unflushed`, `elapsed` are `current_media` with its position and `current_playback_progress`,
`unflushed_listen_time` and the time since `last_tick`. `crossed`, `files`, `seen`, `heard`
are history: which operations saw saving off, what was written under the configuration
directory, which positions were reached and how many seconds played while saving was on.
Only `heard` stands in a guard, its bound.

**Actions.** Workers: `Begin`, `Resolve`, `Lease`, `Prepare`, `Release`, `End`. Playback:
`Play`, `Started`, `Second`, `Tick`, `Stop`. A change of the preference: `Submit`, `Disable`
and `Cover` (with `Revert`), `SaveSetting` (with `Restore`), `Enable`. The process: `Close`,
`Crash`, `Start`.

**Abstractions.** The steps of a change run on the reducer's thread but may wait for leases
and fail one by one, so each is an action; playback only advances by `Second` meanwhile. A
save of playback is one step: `PlaybackCheckpoint` divides it. The rewind at resume is any
earlier position. The lock is that of the standard library on Linux: no reader enters while
a writer waits. The generation wraps at 2^64 in the code and is a natural number here.
Search history and other redirected records take the same calls and are not told apart.
Workers that never call `for_operation` (the target of a LAN share, the read-only look at the
playback cache) are left out.

**Runs.** Deadlock is checked.

| run | bounds | shows |
| --- | --- | --- |
| `activity` | 1 worker, 1 item, 2 positions, 2 changes, 1 second unsaved and 1 public, 1 fault, any number of ends of the process | `NothingPrivateKept`, `PublicPositionsOnly`, `PublicSecondsOnly`, `OnePolicy`, `OffIsSilent`; under fairness `LeasesEnd`, `ChangesEnd` |
| `activity_loading` | the same without workers, seconds and faults, but with quitting while media loads | the finding below |

Workers meet each other and the reducer in the lock only, so one worker against a change
shows every order of the two; the theorems hold for any number. Two changes take the
setting off and on again, which is what a worker of an old generation needs to go wrong. One
fault reaches every error path of a change. `QuitWhileLoading` is off in `activity` because
of the finding.

**Fairness.** Weak for the steps of a change and for a worker's file operations: they run
on a thread that nothing blocks. Strong for the acquisition of a lease: writers come from the
user's changes and from workers that prepare the session directory once, so the lock is free
again and again. Users, playback and ends of the process are not promised.

## DownloadQueue

**State.** `queue`, `pending_write`, `blocked`, `active`, `choosing`, `deferred_cache` and
`yandex_generation` are the fields of `ManualDownloads`; `choice` is the open popup;
`transfer` is `active_download` with its owner, `cached` the pending copy, `gate` the flag
`PREPARING_CACHE`, `native` and `generation` the native provider's thread, `responses` its
channel. `memory`, `disk` and `drifted` are the store's copy, the document and whether its
recorded generation is stale. `reducer` is the place in a handler: every save ends a step,
so that a failure and an end of the process fall on either side of it. `launched`,
`fetched`, `dropped`, `closing`, `refused`, `asked` are history.

`Valid` is `DownloadQueue::validate` in two parts. `Orderly` is what the handlers see to
themselves: numbers below `next`, sources that are fit to be kept, formats that agree with
their provider, started jobs with an attempt and a format. `WithinLimits` is what they leave to
the save: the number of records (`MaxEntries`, 10,000 in the code), the encoded size (`Fits`,
8 MiB) and the names of completed files (a job completed by one that is refused is
`misnamed`). A queue that fails either is refused by the store, and stays in `pending_write`
with `blocked` set.

**Actions.** The user: `Enqueue` (one or a marked batch), `Retry`, `CancelJob`,
`CancelActive`, `DismissChoice`, and the two transfers that are not the queue's,
`StartChannel` and `StartBatch`. The queue: `PollDeferred`, `PollChoose`, `PollBegin`,
`PollNothing`, `ConfirmChoice`, `ChoiceFails`, `BeginChosen`, `LaunchNative`,
`LaunchCached`, `LaunchDeferred`, `LaunchTransfer`, `LaunchFails`. Workers: `CopyEnds`,
`GateOpens`, `NativeEnds`. What the tick takes from them: `TransferOutcome`, `CopyOutcome`,
`Respond`, `Reap`. The process: `Crash`, `Close`, `Start`.

**Abstractions.** An identifier is the number of its record: records are never removed, and
a test of the store that refuses reused numbers is part of `Replaces`. A format is the native
provider's own, another or none; a source is fit or not (`Unfit`), and `Captured` leaves the unfit
ones out because `selected_manual_download_source` validates what it captures in a queue of its
own. The address a choice of format adds is one of the captured source, or a file of the same
Archive item, and is taken to be fit. Other texts, paths and progress are left out: a transfer whose
file lies outside the download directory is one that fails. Names come from the downloader process,
whose choice is not the program's and may be one that `validate` refuses; the native provider and
the copy from the cache replace such characters first. A repeated cancellation of a thread that was told
already changes nothing. Popups of other panels that hold the queue while they are open, a
queue that cannot be read at the start, and a native worker that panics (its slot is then
kept until the user cancels it) are not modelled. The automatic checks of channels start a
subset of what `StartChannel` may. With a channel transfer running beside a queued job that
waits for the gate, the key for the active download ends both, as in the code. A transfer
that ends after the last tick of a process is downloaded again by the next one.

**Runs.** Deadlock is not checked: at the bounds, with every job done, nothing is left to do.

| run | bounds | shows |
| --- | --- | --- |
| `downloads` | a video, a track and a source that is not fit; 2 records are allowed, a third can be asked for, the size allows one completed job; 2 of: retries, transfers that are not the queue's, batches beyond the limit, failed saves, ends of the process | `CompletedIsFetched`, `SlotIsOwned`, `OnlyLimitsAndFaultsBlock`, `AttemptsAreFresh`, `CancelledIsLeftAlone`, `RestartKeepsTheQueue`; under fairness `JobsEnd` |
| `downloads_serialized` | the same | the finding below |

Two jobs are the least for an answer to reach another job's slot, and for a batch; they can
be of one kind or of both. Two troubles are the least for a cancelled attempt to be retried
while its old worker lives on and a save fails, or for a failed save to be followed by a
restart. Each limit is reached without a fault: by a batch or a third record, by the second
completion, by a misnamed file. The safety properties are proved for any number of all of
them and for any limits.

**Fairness.** Weak for the reducer's own steps (`Poll`, `Launch`, an answer found in the
settings), for the workers' end and for the tick that takes their outcome: the reducer's
thread keeps ticking, and a worker ends by itself or by its limits. A user who is asked for a
format is never promised to answer, and `JobsEnd` excepts him. It speaks of the numbers up to
`MaxEntries`: records stay, so no saved queue has more.

## Findings

Each is a run that violates the property named, with the lines in `PROJECT.json`.

- *Autosave during a slow move* (`local_move_autosave`, `IdentityRecoverable`): the autosave
  after 30 seconds reconciles the journal while the worker still moves; entries not reached
  yet look untouched and lose their intent, so a crash before the answer leaves their
  identities behind.
- *Quit while media loads* (`activity_loading`, `PublicPositionsOnly`): media that was
  played in private is played again and resumes there; saving is switched on while it loads;
  a quit saves the position it resumes at. The row made for the checkpoint is replaced by
  the durable one, the player's position is not, and `persist_position` at shutdown does not
  ask whether anything plays.
- *Channel transfer beside a native download* (`downloads_serialized`, `OneTransfer`):
  `confirm_channel_download` asks `download_in_progress`, which does not know the native
  provider's thread; the README says that one transfer runs at a time.

Read in the code while modelling; no run is kept for them:

- A failed rename clears the block that an older ambiguous intent needs. With write errors
  `BlockedWhileUnsettled` fails another way too: an explicit retry that persists the
  completed part of a batch returns before it looks at the unresolved part.
  `local_move_blocking` therefore runs without renames and write errors.
- Reconciliation while the process runs does not move the playing identity.
- *Moving what is still loading.* `apply_completed_local_move_mappings` (`app.rs:34083`) remaps
  `current_media` and `pending_history`, but not `current_playback_progress`, the row made when
  playback was requested; `checkpoint_playback_started` (`app.rs:28277`), called for
  `PlaybackStarted` (`app.rs:27727`), saves that row without looking at
  `local_move_persistence_queue`, which `current_progress_at_player_position` does. A file
  that is moved or renamed between the two gets a checkpoint at its old path, beside or instead
  of its row at the new one, and no journal entry leads there; moving it back is accepted,
  happens, and then its remap is refused for ever. No fault or crash is needed.
  `LocalMoveIdentity.cfg` with `LateStarts = TRUE`, `MaxFaults = 0`, `MaxCrashes = 0` gives TLC
  both behaviours: `IdentityRecoverable` fails after 12 states, `RemapStaysPossible`, checked
  alone, after 15.
- A write of the checkpoint that reports an error after its rename leaves a row on disk that
  memory does not know; a later move remaps memory's rows and leaves that one behind.
- One counter of unsaved seconds serves all sources: replaying an item and switching before
  it starts credits the next source.
- Player events name no load. A `MediaLoaded` of the replaced item, drained after the new
  load was accepted, clears `ignore_replaced_stop`, and the stop of the old item then resets
  the new one while mpv goes on playing it.
- The preflight of a move (`persistence_files.rs:2139`) does not see the row that is only in
  the playback checkpoint, so an accepted move onto that row's path cannot be remapped: a
  file that only the checkpoint knows, moved onto the path of a row whose file is gone. The
  comment there says "Prove that the complete durable state can accept this exact remap".
- With the clock set back (`persistence_files.rs:1655`) saves succeed, but their positions
  are dropped until the clock has caught up.
- A published failure is taken before the tick's second drain (`app.rs:27502`); an end of the
  file in that drain returns first and the failure is not shown.
- `poll_event` services a retained seek before it looks at the events it has queued and at
  the exit of mpv (`mpv.rs:1811`, 418, 306). On a pipe that is already dead that seek fails, the
  poll publishes the failure and what was queued waits for the next signal; with the item
  above the failure may be dropped as well, and the exit is then noticed only at the next
  request. `push_event` intends otherwise (`mpv.rs:920`: "Keep that newly parsed event
  runnable").
- A stop of a load that mpv has not started yet gives no event; the reducer stays in its
  loading phase.
- The directories of moved files are not synchronised before the journal is cleared
  (`local_move.rs:807`): after a loss of power the files may be back at their old places.
- After saving was switched off the flush at shutdown (`app.rs:36594-36599`) goes to the
  overlay: a checkpoint that was pending on disk is published by the next start only.
- *The limits of the download queue block it.* Records are never removed and no handler looks at
  the limits of `DownloadQueue::validate` before it saves, so the record after the 10,000th
  (`download_queue.rs:118`), a queue whose encoding exceeds 8 MiB (147), or a completed file
  whose name `validate_completed_relative_path` refuses though `validated_relative_download`
  (`manual_downloads.rs:755`) took it (143; a colon or a control character) makes a save fail and the
  whole queue stay blocked until the next start (`manual_downloads.rs:58`), with no write that
  failed. After it the first two come back with the next request, and a misnamed file is downloaded
  again. `OnlyLimitsAndFaultsBlock` says that without failed writes nothing else blocks the queue.
- A save of the download queue that fails while a job is active can be followed by a later
  one, made from the queue that is shown, that succeeds: what the first one asked for is
  dropped. The user was told that it could not be saved. `RestartKeepsTheQueue` says exactly
  this much.
- Retrying a cancelled job while the same media is queued again gives two unfinished jobs
  for one media.

## Proofs

`LocalMove_proofs.tla` proves, for sets of paths, files and mappings of any size, any bounds
and, but for the last theorem, every switch:

- `TypeCorrect`: `Spec => []TypeOK`. The induction needs `PositionHeld`: a call that
  saves a position is only in progress while something is playing, which is what makes
  the row it writes a row.
- `NoFileLost`: `Spec => FilesKept`. The only step that removes a name whose file stays
  is the unlink or detach that follows a copy or link. `TwinInv` says that while such a
  step is due the target still holds the same file; it is inductive because other
  programs only create, and because no call of the controller ends in the middle of
  another one's rename.
- `PublishedIsServed`: `Spec => []MemoryPublished`. Between calls memory and disk agree;
  inside a remap they differ in exactly the documents already replaced (`Ahead`), and the
  last write either copies all of them to memory or blocks publication (`PublishInv`).
- `IntentsRemembered`: `Spec => []IntentRemembered`, assuming `NeverUndone`: no renames (a
  finding), and no dying worker or no faults. `FlagInv` says where an intent of the journal is
  while a call runs: flagged, queued, or in the hands of a remap that puts it back if it
  fails; and that what a scan will leave in the journal is what it found unresolved.

`LocalMoveIdentity_proofs.tla` proves four theorems, for any number of paths, files, moves
and restarts. `IdentitiesRecovered`: `Spec => []IdentityRecoverable`, with and without renames
and with any number of faults.

- `InStep` is what the property needs initially: a row whose file exists leads to it.
- `Careful` excludes what breaks the property in the code, as TLC shows for each part: an
  autosave that falls into a move (`SlowMoves`, a finding), and, when anything can be played
  (`Playable`), a dead worker or media that is an endpoint of an unresolved intent (the
  playing identity is then not moved by the reconciliation), a write that fails behind
  its rename (a checkpoint then lies on disk that memory does not know, and a later move
  leaves it behind) and playback that starts after its own file was moved or renamed
  (`LateStarts`, a finding). When nothing is played all four are allowed. A start whose file was
  not moved meanwhile is in the theorems, with any moves of other files before and after it.
- `RowsInv`: every row on disk, and what is playing, is `Sound`: it leads to its file, and
  no move that has not happened yet has its target at the row's path. The lemmas
  `Sound...` say what becomes of such a row when a file is copied, detached, renamed, a copy
  is undone, an intent is written, withdrawn or remapped, or another program creates a file.
- `ControlInv` says why an intent is dropped only when no row needs it: `JournalInv` (intents
  never meet, and one that only memory has was never begun), `MoveInv` (while a move executes
  exactly the sources of its entries done are gone), `QueueInv`, `OpInv` (a batch that is
  remapped has happened, one that is withdrawn has not, documents already rewritten have no
  row at its sources), `CheckpointInv` and `PlayInv`. `HeldRow`: the row that is being saved
  is the identity of what plays, which is where `~LateStarts` is used.

`RemapsStayPossible`: `Spec => []RemapStaysPossible`, from the same invariant and `ReserveInv`.

- `Clean` excludes failed writes that took effect (or any fault). `Foreseen` excludes the row
  the preflight does not see (a finding, below): nothing plays, or no initial row has lost
  its file, or every file and every occupied path has its row.
- `ApartInv`: no journaled move has a row at both its ends, and a document has one row for a
  path. `ClearInv`: nothing that plays or waits in the checkpoint is at the target of a move
  that is under way. `PlaysInv` and `SaveInv`: what plays at a target after the move waits for
  the remap, and a row is saved only while no remap that led what plays away is queued. `HoldInv` and `KnownInv`: a file
  that plays has kept its row, or none has lost its file.
- Since these relate pairs of rows to pairs of moves, `WriteNext` and `ChangeNext` first say in
  a few cases what any step may do to the documents, the files and the identity that plays.
  The preservation lemmas use those cases instead of the actions.

`UnsettledBlocks`: `Spec => BlockedWhileUnsettled`, from both and `PromptInv`, assuming
`FaultFree`: no renames and no faults (dropping either gives a finding). `NoCollision` concludes
from `ApartInv` that a remap is never refused. Hence a queue lasts for one call only,
and what the journal holds while the popup is open is in hand or still selected; the preflight
of a confirmed move, which refuses the paths of the journal, then finds it empty.

`MovingIsAtomic`: `Spec => MovesAreAtomic`, the refinement of the contract, with any number
of faults, crashes and recoveries, renames included.

- It assumes `Careful`, `InStep` and `Clean` as above, and `Single`: the program starts with
  every file at one path. `Clean` and `~LateStarts` are used by the proof; TLC finds no
  counterexample without either on the bounds of `local_move_identity`.
- `AtomInv` adds two parts to the invariant of the first theorem. `TwiceInv`: a file is at two
  paths only as source and target of one journaled move. `CallInv`: a call withdraws only
  intents of which no copy exists, clears only a checkpoint that was merged, and writes one
  only when none of another path is waiting.
- From these the mapping is computed once and not again: `At` is where a file is that is not
  a fresh copy, `LocatedInv` says that `Location` is that path, and `FoundInv` that a file that
  exists is known as soon as a document has a row for it, because `Follow` always arrives.
- A step then changes files or documents but not both (`OneChange`, `OneWrite`): `FileSteps`
  shows that copying or retracting stutters and that renaming, detaching the source and a new
  file are the contract's `Move` and `Appear`; `WriteSteps` that only a new checkpoint can
  teach the library a file (`Learn`), and that merging, clearing, remapping and the journal's
  writes stutter.

`PlaybackCheckpoint_proofs.tla` proves every safety property of both runs, and the
refinement, for any number of items, sources, positions, seconds, faults and restarts:

- `SpecInv`: `Spec => []IInv`, where `IInv` has four parts. `StoreInv`: the rows on
  disk follow those in memory even after a late error (`RowsFollow`: they are what memory
  holds or the checkpoint that replaces it), and no row is from the future. `SecondsInv`:
  the same of the seconds, and every second heard is in the store's totals, still
  unflushed or lost to a crash. `SavedInv`: reading memory gives the row that was
  acknowledged last. `ControlInv`: at every step of a flush or a save, what `op` carries is
  what the documents lead to.
- `TypeCorrect`, `ReadsWhatWasSaved` (`SavesAreRead`), `SecondsCountOnce`
  (`EverySecondOnce`), `CountsSurvive` (`CountIsDurable`) and `ExitPublishes`
  (`ClosedIsPublished`) follow, with or without late errors.
- `SavedSurvives` proves `SavesSurvive` assuming `~LateErrors`, as its run does;
  `SavedNeverOlder` says what is left of it with them: the disk never falls behind the
  acknowledged time.
- `SavingIsAtomic`: `Spec => SavesAreAtomic`. A checkpoint that is saved, even by a
  write that reports an error, is one step of the ledger, and so may be the clearing of
  the checkpoint after such an error; the other writes of a publication are invisible to a
  reader of the documents.

The seconds are sums over all sources. `FoldTheorems.tla` has what these need and what the
library states only with an operator parameter: induction over the natural numbers and
over finite sets, from the well-foundedness of `<`, and that a function with the equations of a sum exists.

`PlaybackSupervision_proofs.tla` proves, from no assumption on the constants:

- `WakeCoalesced`: `Spec => []WakeIsQueued`. The invariant `InboxInv` adds that the wake-up
  just taken counts: between taking a `Refresh` and clearing the flag none is queued, so
  clearing makes the flag agree with the queue again. What the adapter does with a line
  does not matter to it, only that it rings or not.
- `FrontToldAlways`: `Spec => []FrontIsTold`. `ToldInv` follows the reducer through a tick,
  which acknowledges the front end's flag before it looks: after the first drain an event
  in the channel was sent, and told, since; after the failure is taken so is everything
  unread; and only then does the reducer wait for input. It needs that there is a
  supervisor while a waker is registered, and that it ends only for a reducer that waits
  for its end.

`PlaybackReading_proofs.tla` proves the other safety properties of both runs, for any
capacities, budgets and any number of requests, seeks and faults. The adapter reads lines by
a fold; `FoldKeeps`, by the induction of `FoldTheorems`, says that what each line keeps and
each step relates, a whole reading keeps and relates. The proofs say so much for each line
and each call into the adapter (`Readings`, `Later`, `Kept`):

- `TypesKept`: `Spec => []TypeOK`. The bound of the event queue is that of `Pushed`, whatever
  call reads the lines; `AskInv` bounds the numbers of loads by what was asked: the reducer
  waits for at most one request, and only when it is closing may the number pass
  `MaxRequests`.
- `TicketsAreLatest`: `Spec => []TicketIsLatest`. `AdapterInv` says that a valid ticket
  carries the adapter's present input and a number no newer than the last job taken up, and
  that this input is the reducer's latest load unless a load waits in the inbox or the
  player is being closed; in both cases, by `AskInv`, the number taken up is behind `epoch`.
- `NothingIsStranded`: `Spec => []NothingStranded`. `StrandInv`: once a pass of events is
  over, either a signal is on its way (a notification that is owed, a wake-up in the inbox)
  or nothing is left that the pass could have taken. A drain that used its budget rings again, a
  pass that used its events rings itself, and the snapshot, which reads too, leaves no seek due.
- `SeeksReachLoads`: `Spec => []SeekReachesItsLoad`. `SeekInv`: until loads cross there is at
  every moment one load that can be sought in; what the reducer aims at, what mpv was told to
  play, the seek that is retained and the file that can be open when it is released are that load
  or none. `Aligned` compares for it what the adapter believes with what mpv does, and `Before`
  says that of the lines on their way none begins that load before mpv has opened it.

`ActivityPrivacy_proofs.tla` proves every safety property of the run `activity`, for any
number of workers, items, positions, changes and failures:

- `Typed`: `Spec => []TypeOK`.
- `OnePolicyAlways`: `PolicyInv` says what the three copies hold at each step of a change.
- `NothingPrivateKeptAlways`: `LeaseInv` says that an operation that could write under the
  configuration directory captured the present generation and has never seen saving off,
  and that one which is writing there holds its lease on a policy that is still on. It needs
  that the generation grows with every switch, and that a switch waits for the leases.
- `OffIsSilentAlways`: by the two, while saving is off the overlay takes every save and no
  worker writes under the configuration directory.
- `PublicSecondsOnlyAlways`: `SecondsInv` counts what is on disk together with what would be
  saved there next.
- `PublicPositionsOnlyAlways`, assuming `~QuitWhileLoading`: `PositionInv` adds that while
  saving is on the position of what plays is public, and so is the row of what loads, unless
  it is the position that playback starts at.

`DownloadQueue_proofs.tla` proves every safety property of the run `downloads`, for any
media, any number of jobs, retries, transfers, faults and restarts:

- `Invariant`: `Spec => []IInv`. `IInv` is the type together with `StoreInv` (the queue shown
  is the one in memory, or empty after a start that could not save what it recovered;
  neither the disk nor a queue that waits to be saved is behind memory; no copy has lost a
  cancellation or an attempt that was launched) and `SlotInv` (the slot's attempt is the one
  running in the queue, the popup asks about a queued job that is not the native provider's, and
  an attempt that is being launched, or waits for the gate, is newer than every launch of its job).
- `OnlyLimitsAndFaultsBlockAlways`: with `IInv`, every queue a handler builds is `Orderly`
  and passes `Replaces` (`Legal`; there is a lemma for each way to build one), so that without
  failed writes each refused one is beyond the limits, whatever `MaxEntries` and `Fits` are.
- `AttemptsAreFreshAlways`, `CancelledIsLeftAloneAlways`: by `IInv`, since only a launch
  gives an attempt of the queue a worker.
- `RestartKeepsTheQueueAlways`: `RestartInv` says that the disk recovers to the same queue as
  the one that is shown or one whose save failed, and after a successful end as the last
  one asked for.
- `CompletedIsFetchedAlways`: `FetchInv` follows completed jobs through every copy of the
  queue (`ReportInv`) and native answers through their generations (`GenerationInv`).
- `SlotIsOwnedAlways`: `SlotOwned` adds at every step of a handler who may be running
  (`RunInv`) and whose the workers are (`OwnerInv`): none before the launch, one kind after
  it, and no thread of the present generation but the active attempt's.

Each invariant is shown to hold initially, to be preserved with one step per action, and
to imply the property.

Only model-checked: liveness (temporal induction under fairness is out of the prover's
reach), that is `MoveReported`, `CallsReturn`, `ShutdownEnds`, `RequestsAnswered`,
`ExitIsNoticed`, `LeasesEnd`, `ChangesEnd` and `JobsEnd`.

## Not modelled

See `PROJECT.json` for the reason of each component. In short: parsing, rendering,
remote protocols and signal processing have no interleaving to check; the components of
the plan from 6 on are not modelled yet; power loss, SQLite and the file-system trees
under a moved directory are outside the models above.
