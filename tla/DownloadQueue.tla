--------------------------- MODULE DownloadQueue ---------------------------
(***************************************************************************)
(* The durable queue of manual downloads.  The reducer saves the whole     *)
(* queue before it acts on it: an attempt is numbered and written as       *)
(* running before its worker starts, and a worker's answer is taken only   *)
(* for the attempt that owns it.  Workers of three kinds (a downloader     *)
(* process, a copy from the playback cache, a native provider thread)      *)
(* share one slot with transfers that are not the queue's; a cancelled     *)
(* provider thread keeps the slot until it ends, a cancelled copy keeps    *)
(* its gate.  A queue beyond the limits of the store is refused, a save    *)
(* may fail, before or after it reached the disk, and the process may stop *)
(* between any two steps.                                                  *)
(***************************************************************************)
EXTENDS Integers, Sequences, FiniteSets

CONSTANTS
  Media,         \* what can be downloaded
  NoMedia,       \* the media of a number that was not given out
  Native,        \* media of the native provider: their format is fixed
  Unfit,         \* media whose source DownloadSource::validate refuses
  MaxEntries,    \* MAX_DOWNLOAD_QUEUE_ENTRIES: the records a saved queue may have
  Fits(_),       \* the encoded queue is within MAX_DOWNLOAD_QUEUE_BYTES
  MaxJobs,       \* bound: the numbers of download records
  MaxTroubles    \* bound: retries, other transfers, batches beyond MaxEntries,
                 \*   failed saves and ends of the process

ASSUME ConstantsAssumption ==
  /\ Native \subseteq Media /\ Unfit \subseteq Media /\ NoMedia \notin Media
  /\ MaxJobs \in Nat \ {0} /\ MaxEntries \in Nat \ {0} /\ MaxTroubles \in Nat

Jobs == 1..MaxJobs
\* "misnamed" is completed by a file whose name validate refuses.
States == {"queued", "running", "completed", "misnamed", "failed", "cancelled"}
\* The format is the native provider's original, or another that is asked for.
Formats == {"none", "original", "other"}

\* An owner: a job and the number of its attempt.
NoOwner == [job |-> 0, attempt |-> 0]
\* A number that was not given out, no pending write, nothing in the slot.
NoEntry == [media |-> NoMedia, format |-> "none", state |-> "none", attempt |-> 0]
NoEntries == [j \in Jobs |-> NoEntry]
NoWrite == [next |-> 0, entry |-> NoEntries]
NoTransfer == [owner |-> NoOwner, running |-> FALSE]
NoCopy == [owner |-> NoOwner, result |-> "none"]
NoThread == [generation |-> 0, cancelled |-> FALSE, done |-> FALSE, owner |-> NoOwner]

VARIABLES
  queue,             \* manual_downloads.queue: what the user is shown
  pending_write,     \* the queue whose save failed
  blocked,           \* a save failed, or the queue could not be restored
  active,            \* the attempt that owns the slot
  choosing,          \* the job whose format is asked for
  deferred_cache,    \* the active attempt waits for the gate of the cache
  yandex_generation, \* the native thread of the active attempt
  choice,            \* pending_download_choice: the popup is open
  transfer,          \* active_download and its manual_queue_owner
  cached,            \* pending_cached_download: its owner and result
  gate,              \* PREPARING_CACHE: a copy worker has not ended
  native,            \* yandex_music_download_thread
  generation,        \* yandex_music_download_generation
  responses,         \* answers of native threads, not read yet
  memory, disk,      \* the state store: documents.downloads and downloads.toml
  drifted,           \* the file is not the one the store last wrote or read
  reducer,           \* the handler in progress, and the job it is about
  launched,          \* history: the last attempt of a job a worker was started for
  fetched,           \* history: attempts whose worker reported a file
  dropped,           \* history: jobs whose cancellation was confirmed
  refused,           \* history: queues this process could not save
  asked,             \* history: the queue of the last save, whether it failed or not
  closing,           \* history: what the last end of the process reported
  retries, extra, faults, restarts

store == <<queue, pending_write, blocked, memory, disk, drifted, refused, asked, faults>>
slot == <<active, deferred_cache, yandex_generation>>
question == <<choosing, choice>>
workers == <<transfer, cached, gate, native, generation, responses>>
history == <<launched, fetched, dropped, closing>>
bounds == <<retries, extra, restarts>>
vars == <<store, slot, question, workers, reducer, history, bounds>>

More == retries + extra + faults + restarts < MaxTroubles

\* The state of a job, "none" for a number that was not given out yet.
State(q, j) == q.entry[j].state
Unfinished(q, m) ==
  \E j \in Jobs : State(q, j) \in {"queued", "running"} /\ q.entry[j].media = m

EmptyQueue == [next |-> 1, entry |-> NoEntries]

\* new_entry: only the native provider's format needs no confirmation.
NewEntry(m) == [media |-> m, format |-> IF m \in Native THEN "original" ELSE "none",
                state |-> "queued", attempt |-> 0]

Appended_Short(q, batch) ==          \* mutant: a batch takes one number
  [next |-> q.next + 1,
   entry |-> [j \in Jobs |-> IF j \in q.next..(q.next + Len(batch) - 1)
                             THEN NewEntry(batch[j - q.next + 1]) ELSE q.entry[j]]]
Appended(q, batch) ==
  [next |-> q.next + Len(batch),
   entry |-> [j \in Jobs |-> IF j \in q.next..(q.next + Len(batch) - 1)
                             THEN NewEntry(batch[j - q.next + 1]) ELSE q.entry[j]]]

WithState(q, j, s) == [q EXCEPT !.entry[j].state = s]

\* DownloadQueue::recover_running
RecoverRunning_Cancelled(q) ==       \* mutant: everything unfinished is queued again
  [q EXCEPT !.entry = [j \in Jobs |-> IF State(q, j) \in {"running", "cancelled"}
                                      THEN [q.entry[j] EXCEPT !.state = "queued"]
                                      ELSE q.entry[j]]]
RecoverRunning(q) ==
  [q EXCEPT !.entry = [j \in Jobs |-> IF State(q, j) = "running"
                                      THEN [q.entry[j] EXCEPT !.state = "queued"]
                                      ELSE q.entry[j]]]

-----------------------------------------------------------------------------
(* Saving the queue *)

\* What DownloadQueue::validate asks of the numbers, sources, formats and states.
Started == {"running", "completed", "misnamed"}
Orderly(q) ==
  /\ q.next > 0
  /\ \A j \in Jobs : State(q, j) # "none" =>
       /\ j < q.next /\ q.entry[j].media \notin Unfit
       /\ q.entry[j].format # "none" =>
            (q.entry[j].format = "original" <=> q.entry[j].media \in Native)
       /\ State(q, j) \in Started => q.entry[j].attempt > 0 /\ q.entry[j].format # "none"

\* What it asks of their count, of the encoded size and of the names of files, which
\* the reducer does not look at before it saves.
WithinLimits(q) ==
  /\ Cardinality({j \in Jobs : State(q, j) # "none"}) <= MaxEntries
  /\ Fits(q)
  /\ \A j \in Jobs : State(q, j) # "misnamed"

\* DownloadQueue::validate
Valid(q) == Orderly(q) /\ WithinLimits(q)

\* validate_download_queue_replacement
Replaces(previous, next) ==
  /\ next.next >= previous.next
  /\ \A j \in Jobs : State(next, j) # "none" =>
       IF State(previous, j) # "none" THEN next.entry[j].attempt >= previous.entry[j].attempt
                                      ELSE j >= previous.next

\* save_download_queue
Accepts(next) == Valid(next) /\ Replaces(memory, next)

Stored(next) ==
  /\ ~drifted /\ Accepts(next)
  /\ memory' = next /\ disk' = next
  /\ UNCHANGED <<drifted, refused, faults>>

\* The queue is refused, the file is not the known one, or the write fails, before
\* the file changed or after it.
NotStored(next) ==
  /\ \/ (drifted \/ ~Accepts(next)) /\ UNCHANGED <<disk, drifted, faults>>
     \/ /\ ~drifted /\ Accepts(next) /\ More /\ faults' = faults + 1
        /\ \/ UNCHANGED <<disk, drifted>>
           \/ disk' = next /\ drifted' = TRUE
  /\ refused' = refused \cup {next}
  /\ UNCHANGED memory

\* save_manual_download_queue, when it succeeds and when it does not.
Saved(next) ==
  /\ Stored(next)
  /\ queue' = next /\ pending_write' = NoWrite /\ UNCHANGED blocked
Refused(next) ==
  /\ NotStored(next)
  /\ pending_write' = next /\ blocked' = TRUE /\ UNCHANGED queue

Save(next) == (Saved(next) \/ Refused(next)) /\ asked' = next
Confirmed == pending_write' = NoWrite

-----------------------------------------------------------------------------
(* The slot *)

\* download_in_progress
DownloadInProgress == cached # NoCopy \/ transfer.running
Busy == DownloadInProgress \/ native # NoThread

\* A handler goes on with another step, of a job where it matters.
Continue(step, j) == reducer' = [step |-> step, job |-> j]
Idle == reducer.step = "ready"
Done == Continue("ready", 0)
Tick == reducer.step \in {"ready", "poll"}

FreeSlot ==
  active' = NoOwner /\ yandex_generation' = 0

\* change_queued_download_state(id, Cancelled): confirmed when it is saved.
CancelEntry(j) ==
  /\ Save(WithState(queue, j, "cancelled"))
  /\ dropped' = IF Confirmed THEN dropped \cup {j} ELSE dropped

\* cancel_manual_download_owner
CancelOwner ==
  /\ deferred_cache' = FALSE
  /\ FreeSlot
  /\ IF active = NoOwner THEN UNCHANGED <<store, dropped>> ELSE CancelEntry(active.job)

\* finish_manual_download_for, and finish_manual_download for the active attempt.
Finish_Any(owner, state) ==          \* mutant: whoever owns the slot is finished
  IF active # NoOwner /\ State(queue, active.job) = "running"
  THEN FreeSlot /\ Save(WithState(queue, active.job, state))
  ELSE UNCHANGED <<store, active, yandex_generation>>
Finish(owner, state) ==
  IF /\ owner # NoOwner /\ active = owner
     /\ State(queue, owner.job) = "running" /\ queue.entry[owner.job].attempt = owner.attempt
  THEN FreeSlot /\ Save(WithState(queue, owner.job, state))
  ELSE UNCHANGED <<store, active, yandex_generation>>

\* The native provider and the publication of a copy replace what validate refuses
\* in a name; the downloader process reports the name it chose.
Outcomes == {"completed", "failed"}
TransferOutcomes == Outcomes \cup {"misnamed"}

-----------------------------------------------------------------------------
(* Requests of the user *)

\* The selected item, or a marked batch in the order of its marks, less what the
\* batch names twice.  selected_manual_download_source captures only what validate
\* accepts in a queue of its own.
Captured == Media \ Unfit
Batches ==
  {b \in UNION {[1..n -> Captured] : n \in Jobs} : \A k, l \in DOMAIN b : b[k] = b[l] => k = l}

\* enqueue_selected_manual_download skips what is unfinished: the rest is a batch.
\* It is the save that refuses a batch beyond the limits.
Enqueue(batch) ==
  /\ Idle /\ ~blocked
  /\ \A k \in DOMAIN batch : ~Unfinished(queue, batch[k])
  /\ queue.next + Len(batch) - 1 <= MaxJobs
  /\ IF queue.next + Len(batch) - 1 <= MaxEntries THEN UNCHANGED extra
                                                  ELSE More /\ extra' = extra + 1
  /\ Save(Appended(queue, batch))
  /\ Continue(IF Confirmed THEN "poll" ELSE "ready", 0)
  /\ UNCHANGED <<slot, question, workers, history, retries, restarts>>

\* retry_queued_download
Retry(j) ==
  /\ Idle /\ ~blocked /\ More
  /\ State(queue, j) \in {"failed", "cancelled"}
  /\ Save(WithState(queue, j, "queued"))
  /\ dropped' = dropped \ {j} /\ retries' = retries + 1
  /\ Continue("poll", 0)
  /\ UNCHANGED <<slot, question, workers, launched, fetched, closing, extra, restarts>>

\* cancel_yandex_music_download; a thread that has ended is reaped at once.
CancelNative ==
  LET owned == active # NoOwner /\ yandex_generation = generation
  IN /\ native # NoThread /\ ~native.cancelled
     /\ generation' = generation + 1
     /\ native' = IF native.done THEN NoThread ELSE [native EXCEPT !.cancelled = TRUE]
     /\ IF owned THEN CancelOwner ELSE UNCHANGED <<store, slot, dropped>>
     /\ UNCHANGED <<transfer, cached, gate, responses>>

\* cancel_cached_download_at: its worker notices later.
CancelCached ==
  /\ native = NoThread /\ cached # NoCopy
  /\ cached' = NoCopy
  /\ IF cached.owner # NoOwner /\ cached.owner = active
     THEN CancelOwner ELSE UNCHANGED <<store, slot, dropped>>
  /\ UNCHANGED <<transfer, gate, native, generation, responses>>

\* cancel_active_download_at: the process is joined; or the active attempt waits.
CancelTransfer ==
  /\ native = NoThread /\ cached = NoCopy /\ (transfer.running \/ active # NoOwner)
  /\ transfer' = NoTransfer
  /\ CancelOwner
  /\ UNCHANGED <<cached, gate, native, generation, responses>>

\* The key for whatever is running.
CancelActive ==
  /\ Idle
  /\ CancelNative \/ CancelCached \/ CancelTransfer
  /\ UNCHANGED <<question, reducer, launched, fetched, closing, bounds>>

\* cancel_queued_download
CancelJob(j) ==
  /\ Idle /\ ~blocked
  /\ \/ active.job = j /\ (CancelNative \/ CancelCached \/ CancelTransfer) /\ UNCHANGED question
     \/ /\ active.job # j /\ choosing = j
        /\ choosing' = 0 /\ choice' = FALSE
        /\ CancelEntry(j) /\ UNCHANGED <<slot, workers>>
     \/ /\ active.job # j /\ choosing # j /\ State(queue, j) = "queued"
        /\ CancelEntry(j) /\ UNCHANGED <<slot, question, workers>>
  /\ UNCHANGED <<reducer, launched, fetched, closing, bounds>>

\* dismiss_download_choice
DismissChoice ==
  /\ Idle /\ choice /\ choosing # 0
  /\ choosing' = 0 /\ choice' = FALSE
  /\ CancelEntry(choosing)
  /\ UNCHANGED <<slot, workers, reducer, launched, fetched, closing, bounds>>

-----------------------------------------------------------------------------
(* poll_manual_download_queue, and what it goes on with *)

Resumable == ~blocked /\ ~DownloadInProgress /\ deferred_cache
Startable == ~blocked /\ active = NoOwner /\ choosing = 0 /\ ~choice /\ ~Busy
FirstQueued(j) ==
  State(queue, j) = "queued" /\ \A k \in 1..(j - 1) : State(queue, k) # "queued"

\* The attempt that waited for the gate goes on.
PollDeferred ==
  /\ Tick /\ Resumable
  /\ deferred_cache' = FALSE
  /\ IF active = NoOwner THEN Done ELSE Continue("launch", active.job)
  /\ UNCHANGED <<store, active, yandex_generation, question, workers, history, bounds>>

\* choose_manual_download opens the popup, or finds the answer in the settings.
PollChoose(j) ==
  /\ Tick /\ ~Resumable /\ Startable /\ FirstQueued(j) /\ queue.entry[j].format = "none"
  /\ choosing' = j
  /\ \/ choice' = TRUE /\ Done
     \/ choice' = FALSE /\ Continue("capture", j)
  /\ UNCHANGED <<store, slot, workers, history, bounds>>

\* begin_manual_download_attempt: numbered and saved before any worker.
Begun_Renumbered(j) ==               \* mutant: the attempt keeps its number
  [queue EXCEPT !.entry[j].state = "running",
                !.entry[j].attempt = IF @ = 0 THEN 1 ELSE @]
Begun(j) ==
  [queue EXCEPT !.entry[j].state = "running", !.entry[j].attempt = @ + 1]

BeginAttempt(j) ==
  /\ State(queue, j) = "queued"
  /\ Save(Begun(j))
  /\ IF Confirmed
     THEN /\ active' = [job |-> j, attempt |-> Begun(j).entry[j].attempt]
          /\ Continue("launch", j)
     ELSE UNCHANGED active /\ Done
  /\ UNCHANGED <<deferred_cache, yandex_generation, workers, history, bounds>>

PollBegin(j) ==
  /\ Tick /\ ~Resumable /\ Startable /\ FirstQueued(j) /\ queue.entry[j].format # "none"
  /\ BeginAttempt(j) /\ UNCHANGED question

PollNothing ==
  /\ reducer.step = "poll" /\ ~Resumable
  /\ ~(Startable /\ \E j \in Jobs : State(queue, j) = "queued")
  /\ Done /\ UNCHANGED <<store, slot, question, workers, history, bounds>>

Asking == choosing # 0 /\ (reducer.step = "capture" \/ (choice /\ Idle))

\* launch_manual_download with an answer: capture_manual_download_choice.  Its address
\* is one of the captured source, or a file of the same Archive item.
ConfirmChoice ==
  /\ Asking /\ choice' = FALSE
  /\ Save([queue EXCEPT !.entry[choosing].format = "other"])
  /\ choosing' = IF Confirmed THEN 0 ELSE choosing
  /\ IF Confirmed /\ ~Busy THEN Continue("begin", choosing) ELSE Done
  /\ UNCHANGED <<slot, workers, history, bounds>>

\* finish_manual_download_choice: no answer could be found.
ChoiceFails ==
  /\ Asking /\ choice' = FALSE /\ choosing' = 0
  /\ Save(WithState(queue, choosing, "failed")) /\ Done
  /\ UNCHANGED <<slot, workers, history, bounds>>

BeginChosen ==
  /\ reducer.step = "begin"
  /\ BeginAttempt(reducer.job) /\ UNCHANGED question

-----------------------------------------------------------------------------
(* launch_manual_download and start_queued_yandex_download *)

Launching == reducer.step = "launch" /\ active # NoOwner
Wants(native_media) == (queue.entry[active.job].media \in Native) = native_media
Note(owner) == launched' = [launched EXCEPT ![owner.job] = owner.attempt]

LaunchNative ==
  /\ Launching /\ Wants(TRUE) /\ ~Busy
  /\ generation' = generation + 1 /\ yandex_generation' = generation'
  /\ native' = [generation |-> generation', cancelled |-> FALSE, done |-> FALSE,
                owner |-> active]
  /\ Note(active) /\ Done
  /\ UNCHANGED <<store, active, deferred_cache, question, transfer, cached, gate, responses,
                 fetched, dropped, closing, bounds>>

\* try_cached_manual_download: a copy of what plays, if its gate is free.
LaunchCached ==
  /\ Launching /\ Wants(FALSE) /\ ~Busy /\ ~gate
  /\ cached' = [owner |-> active, result |-> "none"] /\ gate' = TRUE
  /\ Note(active) /\ Done
  /\ UNCHANGED <<store, slot, question, transfer, native, generation, responses,
                 fetched, dropped, closing, bounds>>

\* defer_manual_download_cache
LaunchDeferred ==
  /\ Launching /\ Wants(FALSE) /\ ~Busy /\ gate
  /\ deferred_cache' = TRUE /\ Done
  /\ UNCHANGED <<store, active, yandex_generation, question, workers, history, bounds>>

\* start_prepared_manual_download
LaunchTransfer ==
  /\ Launching /\ Wants(FALSE) /\ ~Busy
  /\ transfer' = [owner |-> active, running |-> TRUE]
  /\ Note(active) /\ Done
  /\ UNCHANGED <<store, slot, question, cached, gate, native, generation, responses,
                 fetched, dropped, closing, bounds>>

LaunchFails_Silent ==                \* mutant: the attempt is not finished
  /\ Launching /\ Done
  /\ UNCHANGED <<store, slot, question, workers, history, bounds>>
LaunchFails ==
  /\ Launching /\ Finish(active, "failed") /\ Done
  /\ UNCHANGED <<deferred_cache, question, workers, history, bounds>>

-----------------------------------------------------------------------------
(* Workers, and the outcomes the tick takes from them *)

Fetched(owner, state) ==
  fetched' = IF state # "failed" /\ owner # NoOwner THEN fetched \cup {owner} ELSE fetched

\* poll_download_at: the process has exited; any error counts as a failure.
TransferOutcome(state) ==
  /\ Idle /\ transfer.running /\ transfer' = NoTransfer
  /\ Fetched(transfer.owner, state)
  /\ Finish(transfer.owner, state)
  /\ Continue("poll", 0)
  /\ UNCHANGED <<deferred_cache, question, cached, gate, native, generation, responses,
                 launched, dropped, closing, bounds>>

\* The worker answers before it gives up its gate.
CopyEnds(result) ==
  /\ cached # NoCopy /\ cached.result = "none"
  /\ cached' = [cached EXCEPT !.result = result]
  /\ UNCHANGED <<store, slot, question, transfer, gate, native, generation, responses, reducer,
                 history, bounds>>
GateOpens ==
  /\ gate /\ (cached = NoCopy \/ cached.result # "none")
  /\ gate' = FALSE
  /\ UNCHANGED <<store, slot, question, transfer, cached, native, generation, responses,
                 reducer, history, bounds>>

\* poll_cached_download: published, or downloaded after all.
CopyOutcome ==
  /\ Idle /\ cached.result # "none" /\ cached' = NoCopy
  /\ IF cached.owner # active THEN UNCHANGED <<store, active, yandex_generation, transfer, fetched>>
     ELSE \/ /\ cached.result = "hit"
             /\ Fetched(active, "completed") /\ Finish(active, "completed")
             /\ UNCHANGED transfer
          \/ /\ transfer' = [owner |-> active, running |-> TRUE]
             /\ UNCHANGED <<store, active, yandex_generation, fetched>>
          \/ /\ Finish(active, "failed")
             /\ UNCHANGED <<transfer, fetched>>
  /\ Continue("poll", 0)
  /\ UNCHANGED <<deferred_cache, question, gate, native, generation, responses, launched,
                 dropped, closing, bounds>>

\* yandex_music_download_batch_worker: cancelled or not, it answers once.
NativeEnds(state) ==
  /\ native # NoThread /\ ~native.done
  /\ native' = [native EXCEPT !.done = TRUE]
  /\ responses' = Append(responses, [generation |-> native.generation, state |-> state])
  /\ Fetched(native.owner, state)
  /\ UNCHANGED <<store, slot, question, transfer, cached, gate, generation, reducer, launched,
                 dropped, closing, bounds>>

\* drain_yandex_music_media_job_responses: an answer of another generation is dropped.
Respond ==
  LET r == Head(responses)
  IN /\ Idle /\ responses # <<>> /\ responses' = Tail(responses)
     /\ IF r.generation # generation
        THEN UNCHANGED <<native, store, active, yandex_generation>>
        ELSE /\ native' = NoThread
             /\ IF active # NoOwner /\ yandex_generation = generation
                THEN Finish(active, r.state)
                ELSE UNCHANGED <<store, active, yandex_generation>>
     /\ Continue("poll", 0)
     /\ UNCHANGED <<deferred_cache, question, transfer, cached, gate, generation, history,
                    bounds>>

\* reap_cancelled_yandex_music_download
Reap_Never ==                        \* mutant: the cancelled thread is not looked for again
  FALSE /\ UNCHANGED vars
Reap ==
  /\ Idle /\ native.cancelled /\ native.done
  /\ native' = NoThread /\ Continue("poll", 0)
  /\ UNCHANGED <<store, slot, question, transfer, cached, gate, generation, responses,
                 history, bounds>>

-----------------------------------------------------------------------------
(* Transfers that are not the queue's *)

\* confirm_channel_download: it asks only whether a download is in progress.
StartChannel ==
  /\ Idle /\ ~DownloadInProgress /\ More /\ extra' = extra + 1
  /\ transfer' = [owner |-> NoOwner, running |-> TRUE]
  /\ UNCHANGED <<store, slot, question, cached, gate, native, generation, responses, reducer,
                 history, retries, restarts>>

\* start_yandex_music_download_batch
StartBatch ==
  /\ Idle /\ active = NoOwner /\ ~Busy /\ More /\ extra' = extra + 1
  /\ generation' = generation + 1
  /\ native' = [NoThread EXCEPT !.generation = generation']
  /\ UNCHANGED <<store, slot, question, transfer, cached, gate, responses, reducer, history,
                 retries, restarts>>

-----------------------------------------------------------------------------
(* The end of the process, and the next one *)

\* Workers end with their process, and so does what the reducer had in mind.
EmptySlots ==
  /\ active' = NoOwner /\ deferred_cache' = FALSE /\ yandex_generation' = 0
  /\ choosing' = 0 /\ choice' = FALSE
  /\ transfer' = NoTransfer /\ cached' = NoCopy /\ gate' = FALSE
  /\ native' = NoThread /\ generation' = 0 /\ responses' = <<>>
  /\ Continue("down", 0)

Crash ==
  /\ reducer.step # "down" /\ More /\ restarts' = restarts + 1
  /\ EmptySlots /\ closing' = "crashed"
  /\ UNCHANGED <<store, launched, fetched, dropped, retries, extra>>

\* shutdown, which joins the workers, and shutdown_manual_downloads.
Latest_Shown == queue                \* mutant: what could not be saved is not tried again
Latest == IF pending_write = NoWrite THEN queue ELSE pending_write

Close ==
  LET last == RecoverRunning(Latest)
  IN /\ Idle /\ More /\ restarts' = restarts + 1 /\ EmptySlots
     /\ IF last # Latest \/ pending_write # NoWrite
        THEN (Saved(last) \/ Refused(last)) /\ UNCHANGED asked
             /\ closing' = IF Confirmed THEN "saved" ELSE "failed"
        ELSE UNCHANGED store /\ closing' = IF blocked THEN "failed" ELSE "saved"
     /\ UNCHANGED <<launched, fetched, dropped, retries, extra>>

\* restore_manual_downloads: what the store read is saved again if it was changed.
Restored(recovered) ==
  /\ recovered = disk \/ (Valid(recovered) /\ Replaces(disk, recovered))
  /\ queue' = recovered /\ memory' = recovered /\ disk' = recovered
  /\ blocked' = FALSE /\ pending_write' = NoWrite
  /\ drifted' = FALSE /\ refused' = {}
  /\ UNCHANGED faults
NotRestored(recovered) ==
  /\ recovered # disk
  /\ \/ /\ ~(Valid(recovered) /\ Replaces(disk, recovered))
        /\ drifted' = FALSE /\ UNCHANGED <<disk, faults>>
     \/ /\ Valid(recovered) /\ Replaces(disk, recovered)
        /\ More /\ faults' = faults + 1
        /\ \/ UNCHANGED disk /\ drifted' = FALSE
           \/ disk' = recovered /\ drifted' = TRUE
  /\ queue' = EmptyQueue /\ memory' = disk
  /\ blocked' = TRUE /\ pending_write' = recovered /\ refused' = {recovered}

Start ==
  LET recovered == RecoverRunning(disk)
  IN /\ reducer.step = "down" /\ Done
     /\ Restored(recovered) \/ NotRestored(recovered)
     /\ asked' = recovered /\ closing' = "none"
     /\ UNCHANGED <<slot, question, workers, launched, fetched, dropped, bounds>>

-----------------------------------------------------------------------------
Init ==
  /\ queue = EmptyQueue /\ memory = EmptyQueue /\ disk = EmptyQueue /\ asked = EmptyQueue
  /\ pending_write = NoWrite /\ blocked = FALSE /\ drifted = FALSE /\ refused = {}
  /\ active = NoOwner /\ deferred_cache = FALSE /\ yandex_generation = 0
  /\ choosing = 0 /\ choice = FALSE
  /\ transfer = NoTransfer /\ cached = NoCopy /\ gate = FALSE
  /\ native = NoThread /\ generation = 0 /\ responses = <<>>
  /\ reducer = [step |-> "ready", job |-> 0]
  /\ launched = [j \in Jobs |-> 0] /\ fetched = {} /\ dropped = {} /\ closing = "none"
  /\ retries = 0 /\ extra = 0 /\ faults = 0 /\ restarts = 0

Request ==
  \/ \E batch \in Batches : Enqueue(batch)
  \/ \E j \in Jobs : Retry(j) \/ CancelJob(j)
  \/ CancelActive \/ DismissChoice
  \/ StartChannel \/ StartBatch

Poll == PollDeferred \/ PollNothing \/ \E j \in Jobs : PollChoose(j) \/ PollBegin(j)
Answer == ConfirmChoice \/ ChoiceFails
Launch ==
  BeginChosen \/ LaunchNative \/ LaunchCached \/ LaunchDeferred \/ LaunchTransfer \/ LaunchFails
WorkerEnds ==
  \/ \E r \in {"hit", "miss"} : CopyEnds(r)
  \/ \E s \in Outcomes : NativeEnds(s)
  \/ GateOpens
Outcome == (\E s \in TransferOutcomes : TransferOutcome(s)) \/ CopyOutcome \/ Respond \/ Reap
Restart == Crash \/ Close \/ Start

Next == Request \/ Poll \/ Answer \/ Launch \/ WorkerEnds \/ Outcome \/ Restart

Spec == Init /\ [][Next]_vars

\* The reducer's thread ends its handlers and keeps ticking; workers end.
Fairness ==
  /\ WF_vars(Poll \/ Launch \/ (Answer /\ ~Idle))
  /\ WF_vars(WorkerEnds) /\ WF_vars(Outcome)
FairSpec == Spec /\ Fairness

-----------------------------------------------------------------------------
(* Properties *)

Entries == [media : Media \cup {NoMedia}, format : Formats,
            state : States \cup {"none"}, attempt : Nat]
Queues == [next : Nat, entry : [Jobs -> Entries]]
Owners == [job : Jobs, attempt : Nat] \cup {NoOwner}
Threads == [generation : Nat, cancelled : BOOLEAN, done : BOOLEAN, owner : Owners]

\* Every variable keeps its type.
StoreTyped ==
  /\ queue \in Queues /\ pending_write \in Queues /\ memory \in Queues /\ disk \in Queues
  /\ asked \in Queues /\ refused \subseteq Queues
  /\ blocked \in BOOLEAN /\ drifted \in BOOLEAN /\ faults \in Nat
SlotTyped ==
  /\ active \in Owners /\ deferred_cache \in BOOLEAN /\ yandex_generation \in Nat
  /\ choosing \in Jobs \cup {0} /\ choice \in BOOLEAN
  /\ reducer \in [step : {"ready", "poll", "capture", "begin", "launch", "down"},
                  job : Jobs \cup {0}]
WorkersTyped ==
  /\ transfer \in [owner : Owners, running : BOOLEAN]
  /\ cached \in [owner : Owners, result : {"none", "hit", "miss"}]
  /\ gate \in BOOLEAN
  /\ native \in Threads /\ generation \in Nat
  /\ responses \in Seq([generation : Nat, state : Outcomes])
HistoryTyped ==
  /\ launched \in [Jobs -> Nat] /\ fetched \subseteq Owners /\ dropped \subseteq Jobs
  /\ closing \in {"none", "crashed", "saved", "failed"}
  /\ retries \in Nat /\ extra \in Nat /\ restarts \in Nat
TypeOK == StoreTyped /\ SlotTyped /\ WorkersTyped /\ HistoryTyped

\* The attempts that have a worker.
Working == {transfer.owner, cached.owner, native.owner} \ {NoOwner}

\* A worker is started only for an attempt no worker was started for, in this
\* process or in one before it: begin_manual_download_attempt saves the number
\* first, and a number that was saved is never used again.
AttemptsAreFresh ==
  [][\A o \in Working' \ Working : o.attempt > launched[o.job]]_vars

\* A job whose cancellation was confirmed is not worked on until it is retried,
\* also when the process ended in between.
CancelledIsLeftAlone ==
  [][\A o \in Working' \ Working : o.job \notin dropped]_vars

\* A job is completed by a file its own, last attempt reported: not by the answer
\* of a cancelled attempt, of another job or of a transfer that is not the queue's.
CompletedIsFetched ==
  \A j \in Jobs : State(queue, j) = "completed" =>
    [job |-> j, attempt |-> queue.entry[j].attempt] \in fetched

\* The slot belongs to the active attempt.  While the queue can be saved and no
\* handler is under way, the job shown as running is the active one, and it has a
\* worker or waits for the gate; and at any time no other attempt of the queue has
\* a worker that was not told to stop, nor has the active one two.
Served(o) ==
  \/ o \in {transfer.owner, cached.owner} \/ deferred_cache
  \/ native.owner = o /\ native.generation = generation /\ yandex_generation = generation
SlotIsOwned ==
  /\ ~blocked /\ reducer.step \in {"ready", "poll"} =>
       \A j \in Jobs : State(queue, j) = "running" =>
         /\ active = [job |-> j, attempt |-> queue.entry[j].attempt]
         /\ Served(active)
  /\ {transfer.owner, cached.owner} \subseteq {active, NoOwner}
  /\ native.owner \in {active, NoOwner} \/ native.cancelled
  /\ active = NoOwner \/ transfer.owner = NoOwner \/ cached.owner = NoOwner

\* Every transition of the reducer leads to a queue the store can take: its numbers,
\* attempts, formats and its replacement of the last one are in order.  As long as
\* every write succeeds, the queue is blocked only because what it was to become is
\* beyond the limits: too many records, too large, or with a file name that
\* validate refuses.
OnlyLimitsAndFaultsBlock ==
  blocked => refused # {} /\ (faults = 0 => \A q \in refused : ~WithinLimits(q))

\* The next process shows the queue the last one showed, or one it had reported
\* it could not save; after an orderly end that reported success, exactly what
\* was asked last.
RestartKeepsTheQueue ==
  [][reducer.step = "down" /\ reducer'.step # "down" /\ ~blocked' =>
       /\ queue' \in {RecoverRunning(q) : q \in {queue} \cup refused}
       /\ closing = "saved" => queue' = RecoverRunning(asked)]_vars

\* A queued job is done, failed or cancelled in the end, unless the user is asked
\* for a format, the queue cannot be saved or the process ends.  (No saved queue has
\* a record with a greater number than MaxEntries: records stay.)
JobsEnd ==
  \A j \in {k \in Jobs : k <= MaxEntries} :
    State(queue, j) \in {"queued", "running"} ~>
      \/ State(queue, j) \notin {"queued", "running"}
      \/ blocked \/ choosing # 0 \/ reducer.step = "down"

\* README.md: "One transfer runs at a time, including native Yandex Music
\* downloads."
OneTransfer ==
  ~(transfer.running /\ native # NoThread /\ ~native.cancelled)
=============================================================================
