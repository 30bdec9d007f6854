------------------------------- MODULE MpvIpc -------------------------------
(***************************************************************************)
(* What the mpv adapter makes of the lines of mpv's control channel: the   *)
(* load it has asked for, the lifecycle events it owes the supervisor, a   *)
(* seek retained for a load in progress, and the cache-export state that   *)
(* tickets are read from.  A line carries the load it is about only for    *)
(* the properties: the protocol does not say, and nothing here reads it.   *)
(***************************************************************************)
EXTENDS Integers, Sequences, SequencesExt

CONSTANT MaxBacklog   \* MAX_PENDING_EVENTS

NoLoad == 0

\* accepted: pending_keep_open is set, the load's start-file is still to come;
\* loading: load_in_progress;  synced: status_initialized;  exited:
\* process_exit_reported;  seek: the load a retained timestamp was asked for.
NewIpc == [accepted |-> FALSE, loading |-> FALSE, loaded |-> FALSE, synced |-> FALSE,
           exited |-> FALSE, seek |-> NoLoad, events |-> <<>>]

NoTicket == [input |-> NoLoad, expected |-> 0, valid |-> FALSE]

\* CacheState and the ticket the supervisor published last.  A ticket is valid
\* while the state's epoch is the one it was made with.
NewCache == [input |-> NoLoad, loaded |-> FALSE, alive |-> TRUE, ticket |-> NoTicket]

Invalidated(cache) == [cache EXCEPT !.loaded = FALSE, !.ticket = NoTicket]
CacheShutdown(cache) == [Invalidated(cache) EXCEPT !.alive = FALSE]

\* CacheExportControl::handle, with the supervisor's epoch.
Handle(cache, processed) ==
  IF cache.alive /\ cache.loaded
  THEN [input |-> cache.input, expected |-> processed, valid |-> TRUE] ELSE NoTicket

\* The state the adapter's operations work on: error, when one of its calls
\* failed; rang, when it woke its own supervisor (link.wake).
Reading(ipc, cache, lines, history) ==
  [ipc |-> ipc, cache |-> cache, lines |-> lines, history |-> history,
   rang |-> FALSE, error |-> FALSE]

Pushed_Unbounded(m, line) ==    \* mutant: nothing is dropped
  [m EXCEPT !.ipc.events = Append(@, line), !.rang = TRUE]
\* push_event: a full queue drops its oldest event.
Pushed(m, line) ==
  LET kept == IF Len(m.ipc.events) = MaxBacklog THEN Tail(m.ipc.events) ELSE m.ipc.events
  IN [m EXCEPT !.ipc.events = Append(kept, line), !.rang = TRUE]

\* Any start-file is taken for that of the load accepted last (a history flag
\* records when it was another's).
Started(m, line) ==
  [m EXCEPT !.ipc.accepted = FALSE, !.ipc.loading = TRUE, !.ipc.loaded = FALSE,
            !.cache = Invalidated(@),
            !.history.crossed = @ \/ line.load # m.cache.input]

Loaded_OfAny(m, line) ==    \* mutant: any completed load ends the one in progress
  Pushed([m EXCEPT !.ipc.loading = FALSE, !.ipc.loaded = TRUE,
                   !.ipc.synced = FALSE, !.cache.loaded = TRUE], line)
Loaded(m, line) ==
  Pushed([m EXCEPT !.ipc.loading = @ /\ m.ipc.accepted, !.ipc.loaded = TRUE,
                   !.ipc.synced = FALSE, !.cache.loaded = TRUE], line)

Redirected(m) ==
  [m EXCEPT !.ipc.loading = TRUE, !.ipc.loaded = FALSE, !.cache = Invalidated(@)]

\* The end of a replaced file must not cancel what its successor waits for.
Ended(m, line) ==
  Pushed([m EXCEPT !.ipc.loading = @ /\ m.ipc.accepted, !.ipc.loaded = FALSE,
                   !.ipc.seek = IF m.ipc.accepted THEN @ ELSE NoLoad,
                   !.cache = Invalidated(@)], line)

HandleEvent(m, line) ==
  CASE line.kind = "start"    -> Started(m, line)
    [] line.kind = "loaded"   -> Loaded(m, line)
    [] line.kind = "restart"  -> Pushed(m, line)
    [] line.kind = "redirect" -> Redirected(m)
    [] OTHER                  -> Ended(m, line)

ReadLines(m, count) ==
  [FoldLeft(HandleEvent, m, SubSeq(m.lines, 1, count))
     EXCEPT !.lines = SubSeq(m.lines, count + 1, Len(m.lines))]

\* A synchronous request reads every line that precedes its answer.
Answered(m) == ReadLines(m, Len(m.lines))
=============================================================================
