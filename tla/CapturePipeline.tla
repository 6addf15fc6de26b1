-------------------------- MODULE CapturePipeline --------------------------
(***************************************************************************)
(* From captured audio to rows in the store: the capture thread, the event *)
(* queue, the inference thread (crates/recalld/src/pipeline.rs), the       *)
(* pause switch (control.rs), the store (store.rs) and the daemon's start  *)
(* and stop (main.rs), running together.                                   *)
(*                                                                         *)
(* A session's audio is a sequence of buffers numbered from 1, each with   *)
(* speech in it; a turn is a set of them.  Where a turn begins and ends is *)
(* a free choice here: TurnSegmentation says how the VAD and the merger    *)
(* choose.                                                                 *)
(* The queue is the one of EventQueue, each call one step.  Everything     *)
(* another thread can see between two statements of the inference thread   *)
(* is a state of its own: the pause is read before a turn is written, the  *)
(* clip is written before its row, and the daemon may die in between.      *)
(***************************************************************************)
EXTENDS Integers, Sequences, FiniteSets, FiniteSetsExt

CONSTANTS
    Sessions,     \* session row ids
    Mics,         \* those of a microphone or the room
    Mixed,        \* those of a mixed Discord tap, which may be muted
    Capacity,     \* audio buffers the queue holds
    MaxBuffers,   \* bound: buffers captured, over all sessions
    MaxFailures,  \* bound: writes that fail
    MaxRuns,      \* bound: times the daemon is started
    NoEntry, NoJob

ASSUME PipelineAssumption ==
    /\ Mics \subseteq Sessions /\ Mixed \subseteq Sessions \ Mics
    /\ IsFiniteSet(Sessions)
    /\ Capacity \in Nat \ {0}
    /\ {MaxBuffers, MaxFailures, MaxRuns} \subseteq Nat

VARIABLES
    captured,   \* captured[s]: buffers the session's stream has delivered
    stream,     \* stream[s]: "unborn", "live" or "over"
    queue, closed,
    paused,
    entry,      \* the inference thread's SessionPipeline of each session
    job,        \* the session the inference thread is working on
    turns,      \* the turns that work has yet to write
    step,       \* where in write_segment it is
    flushing,   \* sessions the inference thread flushes before it exits
    row,        \* row[s]: the session's row in the store
    clips,      \* WAV files: the path, and the audio in each
    segments,   \* segment rows: the path, and the audio the row stands for
    daemon,     \* "running", "stopping", "flushing", "stopped" or "dead"
    failures, runs,
    discarded,  \* history: buffers given up, each for a reason
    since_pause \* history: clips written since the pause began

store_vars == <<row, clips, segments>>
work_vars == <<job, turns, step>>
vars == <<captured, stream, queue, closed, paused, entry, work_vars, flushing,
          store_vars, daemon, failures, runs, discarded, since_pause>>

Buffers == [session : Sessions, number : Nat]
Clip == [path : [session : Sessions, seq : Nat, start : Nat],
         audio : SUBSET Buffers]
Entry == [last : Nat, seq : Nat, open : SUBSET Buffers,
          pending : SUBSET Buffers]
Job == [session : Sessions, ends : BOOLEAN]

Event == [kind : {"audio"}, session : Sessions, number : Nat]
           \union [kind : {"end"}, session : Sessions]

ASSUME NothingIsARecord == NoEntry \notin Entry /\ NoJob \notin Job

TypeOK ==
    /\ captured \in [Sessions -> Nat]
    /\ stream \in [Sessions -> {"unborn", "live", "over"}]
    /\ queue \in Seq(Event) /\ closed \in BOOLEAN /\ paused \in BOOLEAN
    /\ entry \in [Sessions -> Entry \union {NoEntry}]
    /\ job \in Job \union {NoJob}
    /\ turns \in Seq(SUBSET Buffers)
    /\ step \in {"pick", "clip", "row", "announce"}
    /\ flushing \subseteq Sessions
    /\ row \in [Sessions -> {"none", "open", "closed"}]
    /\ clips \subseteq Clip /\ segments \subseteq Clip
    /\ daemon \in {"running", "stopping", "flushing", "stopped", "dead"}
    /\ failures \in Nat /\ runs \in Nat
    /\ discarded \subseteq Buffers
    /\ since_pause \in Nat

Init ==
    /\ captured = [s \in Sessions |-> 0]
    /\ stream = [s \in Sessions |-> "unborn"]
    /\ queue = <<>> /\ closed = FALSE /\ paused = FALSE
    /\ entry = [s \in Sessions |-> NoEntry]
    /\ job = NoJob /\ turns = <<>> /\ step = "pick" /\ flushing = {}
    /\ row = [s \in Sessions |-> "none"]
    /\ clips = {} /\ segments = {}
    /\ daemon = "running"
    /\ failures = 0 /\ runs = 1
    /\ discarded = {} /\ since_pause = 0

-----------------------------------------------------------------------------
(* The capture thread.                                                     *)

IsAudio(e) == e.kind = "audio"
Heard(events) == {[session |-> e.session, number |-> e.number] :
                    e \in {events[i] : i \in {j \in DOMAIN events :
                                                IsAudio(events[j])}}}

(* EventQueue.push over its limit: the oldest audio goes, control never.   *)
Oldest(q) == Min({i \in DOMAIN q : IsAudio(q[i])})
Push(q, e) ==
    LET longer == Append(q, e) IN
    IF Cardinality(Heard(longer)) > Capacity
    THEN LET o == Oldest(longer)
         IN  SubSeq(longer, 1, o - 1) \o SubSeq(longer, o + 1, Len(longer))
    ELSE longer

Alive == daemon \in {"running", "stopping", "flushing"}

OpenSession(s) ==
    /\ daemon = "running" /\ stream[s] = "unborn"
    /\ stream' = [stream EXCEPT ![s] = "live"]
    /\ row' = [row EXCEPT ![s] = "open"]
    /\ UNCHANGED <<captured, queue, closed, paused, entry, work_vars, flushing,
                   clips, segments, daemon, failures, runs, discarded, since_pause>>

AllCaptured ==
    UNION {{[session |-> s, number |-> n] : n \in 1 .. captured[s]} : s \in Sessions}

Capture(s) ==
    /\ daemon = "running" /\ stream[s] = "live"
    /\ Cardinality(AllCaptured) < MaxBuffers
    /\ LET b == [session |-> s, number |-> captured[s] + 1]
           longer == Push(queue, [kind |-> "audio", session |-> s,
                                  number |-> b.number])
       IN  /\ captured' = [captured EXCEPT ![s] = b.number]
           /\ queue' = longer
           /\ discarded' = discarded \union
                ((Heard(queue) \union {b}) \ Heard(longer))
    /\ UNCHANGED <<stream, closed, paused, entry, work_vars, flushing,
                   store_vars, daemon, failures, runs, since_pause>>

(* The node is gone, or its rule was switched off.                         *)
EndSession(s) ==
    /\ daemon = "running" /\ stream[s] = "live"
    /\ stream' = [stream EXCEPT ![s] = "over"]
    /\ queue' = Push(queue, [kind |-> "end", session |-> s])
    /\ UNCHANGED <<captured, closed, paused, entry, work_vars, flushing,
                   store_vars, daemon, failures, runs, discarded,
                   since_pause>>

-----------------------------------------------------------------------------
(* The pause switch, an atomic flag the control socket sets and clears.    *)

SetPaused ==
    /\ Alive /\ ~closed /\ ~paused
    /\ paused' = TRUE
    /\ since_pause' = 0
    /\ UNCHANGED <<captured, stream, queue, closed, entry, work_vars, flushing,
                   store_vars, daemon, failures, runs, discarded>>

Resume ==
    /\ Alive /\ ~closed /\ paused
    /\ paused' = FALSE /\ since_pause' = 0
    /\ UNCHANGED <<captured, stream, queue, closed, entry, work_vars, flushing,
                   store_vars, daemon, failures, runs, discarded>>

-----------------------------------------------------------------------------
(* The inference thread: one event at a time.                              *)

NextIs(kind) ==
    Alive /\ job = NoJob /\ queue # <<>> /\ Head(queue).kind = kind

Held(e) == IF e = NoEntry THEN {} ELSE e.open \union e.pending

(* Paused, or a mixed Discord tap muted while the client's own streams are *)
(* live: the buffer goes, and the session's half-built turn with it.       *)
DiscardBuffer ==
    /\ NextIs("audio")
    /\ LET s == Head(queue).session IN
        /\ paused \/ s \in Mixed
        /\ entry' = [entry EXCEPT ![s] = NoEntry]
        /\ discarded' = discarded \union Held(entry[s]) \union Heard(<<Head(queue)>>)
    /\ queue' = Tail(queue)
    /\ UNCHANGED <<captured, stream, closed, paused, work_vars, flushing,
                   store_vars, daemon, failures, runs, since_pause>>

NewEntry(n) == [last |-> n, seq |-> 0, open |-> {}, pending |-> {}]

(* Definitions whose name ends in _Mutant are deliberate mistakes; see      *)
(* EventQueue.                                                             *)
Received_Mutant(s, n) ==
    IF entry[s] = NoEntry THEN NewEntry(n) ELSE [entry[s] EXCEPT !.last = n]

(* The entry a buffer finds or makes; one that follows a hole is emptied   *)
(* first (discard_across_gap).                                             *)
Received(s, n) ==
    CASE entry[s] = NoEntry -> NewEntry(n)
      [] entry[s] # NoEntry /\ n = entry[s].last + 1 -> [entry[s] EXCEPT !.last = n]
      [] OTHER -> [entry[s] EXCEPT !.last = n, !.open = {}, !.pending = {}]

(* What a buffer's frames may make of the open turn and the one waiting to *)
(* be merged: nothing, a turn closed, joined to the waiting one or not,    *)
(* and the waiting one released or not.                                    *)
Segmented(e) ==
    {[left |-> e, out |-> <<>>]}
    \union (IF e.pending = {} THEN {}
            ELSE {[left |-> [e EXCEPT !.pending = {}], out |-> <<e.pending>>]})
    \union (IF e.open = {} THEN {}
            ELSE LET joined == e.pending \union e.open
                 IN  {[left |-> [e EXCEPT !.open = {}, !.pending = joined],
                       out |-> <<>>],
                      [left |-> [e EXCEPT !.open = {}, !.pending = {}],
                       out |-> <<joined>>]})
    \union (IF e.open = {} \/ e.pending = {} THEN {}
            ELSE {[left |-> [e EXCEPT !.open = {}, !.pending = e.open],
                   out |-> <<e.pending>>]})

(* on_audio, up to the turns it has to write.                              *)
OnAudio ==
    /\ NextIs("audio") /\ ~paused
    /\ LET s == Head(queue).session
           e == Received(s, Head(queue).number)
           voice == Heard(<<Head(queue)>>)
       IN  \E seg \in Segmented([e EXCEPT !.open = @ \union voice]) :
             /\ entry' = [entry EXCEPT ![s] = seg.left]
             /\ turns' = seg.out
             /\ job' = [session |-> s, ends |-> FALSE]
             /\ discarded' = discarded \union (Held(entry[s]) \ Held(e))
    /\ queue' = Tail(queue)
    /\ UNCHANGED <<captured, stream, closed, paused, step, flushing, store_vars,
                   daemon, failures, runs, since_pause>>

TurnOf(audio) == IF audio = {} THEN <<>> ELSE <<audio>>

LastTurns_Mutant(e) == IF e = NoEntry THEN {<<>>} ELSE {TurnOf(e.open)}

(* What is left of a session, as the turns its end writes: the waiting one *)
(* and the open one, joined or not.                                        *)
LastTurns(e) == IF e = NoEntry THEN {<<>>}
                ELSE {TurnOf(e.pending) \o TurnOf(e.open),
                      TurnOf(e.pending \union e.open)}
Flushed(e) == IF e = NoEntry THEN NoEntry ELSE [e EXCEPT !.open = {}, !.pending = {}]

StartEnding(s) ==
    /\ \E ts \in LastTurns(entry[s]) : turns' = ts
    /\ entry' = [entry EXCEPT ![s] = Flushed(entry[s])]
    /\ job' = [session |-> s, ends |-> TRUE]

OnSessionEnd ==
    /\ NextIs("end")
    /\ StartEnding(Head(queue).session)
    /\ queue' = Tail(queue)
    /\ UNCHANGED <<captured, stream, closed, paused, step, flushing, store_vars,
                   daemon, failures, runs, discarded, since_pause>>

-----------------------------------------------------------------------------
(* write_segment and write_piece, for the first of the turns.              *)

Writing(at) == Alive /\ job # NoJob /\ turns # <<>> /\ step = at

SkipTurn ==
    /\ Writing("pick") /\ paused
    /\ turns' = Tail(turns)
    /\ discarded' = discarded \union Head(turns)
    /\ UNCHANGED <<captured, stream, queue, closed, paused, entry, job, step,
                   flushing, store_vars, daemon, failures, runs, since_pause>>

PickTurn_Mutant ==
    /\ Writing("pick")
    /\ entry' = [entry EXCEPT ![job.session].seq = @ + 1]
    /\ step' = "clip"
    /\ UNCHANGED <<captured, stream, queue, closed, paused, job, turns,
                   flushing, store_vars, daemon, failures, runs, discarded,
                   since_pause>>

PickTurn ==
    /\ Writing("pick") /\ ~paused
    /\ entry' = [entry EXCEPT ![job.session].seq = @ + 1]
    /\ step' = "clip"
    /\ UNCHANGED <<captured, stream, queue, closed, paused, job, turns,
                   flushing, store_vars, daemon, failures, runs, discarded, since_pause>>

FirstOf(turn) == Min({b.number : b \in turn})

segment_path_Mutant(s, seq, start) == [session |-> s, seq |-> seq, start |-> 0]

segment_path(s, seq, start) == [session |-> s, seq |-> seq, start |-> start]

ClipOf(turn) ==
    [path |-> segment_path(job.session, entry[job.session].seq, FirstOf(turn)),
     audio |-> turn]

(* File::create truncates a file that is already there.                    *)
WriteClip ==
    /\ Writing("clip")
    /\ LET c == ClipOf(Head(turns))
       IN  clips' = {d \in clips : d.path # c.path} \union {c}
    /\ step' = "row"
    /\ since_pause' = IF paused THEN since_pause + 1 ELSE since_pause
    /\ UNCHANGED <<captured, stream, queue, closed, paused, entry, job, turns,
                   flushing, row, segments, daemon, failures, runs, discarded>>

InsertRow ==
    /\ Writing("row")
    /\ segments' = segments \union {ClipOf(Head(turns))}
    /\ step' = "announce"
    /\ UNCHANGED <<captured, stream, queue, closed, paused, entry, job, turns,
                   flushing, row, clips, daemon, failures, runs, discarded, since_pause>>

(* The models run, the event goes out, and the next turn has its turn.     *)
Announce ==
    /\ Writing("announce")
    /\ turns' = Tail(turns) /\ step' = "pick"
    /\ UNCHANGED <<captured, stream, queue, closed, paused, entry, job,
                   flushing, store_vars, daemon, failures, runs, discarded, since_pause>>

(* A write fails: the handler returns, and every turn it had in hand goes. *)
WriteFails ==
    /\ Writing("clip") \/ Writing("row")
    /\ failures < MaxFailures
    /\ failures' = failures + 1
    /\ discarded' = discarded \union UNION {turns[i] : i \in DOMAIN turns}
    /\ job' = NoJob /\ turns' = <<>> /\ step' = "pick"
    /\ flushing' = flushing \ {job.session}
    /\ UNCHANGED <<captured, stream, queue, closed, paused, entry, store_vars,
                   daemon, runs, since_pause>>

Finish_Mutant(close) ==
    /\ Alive /\ job # NoJob /\ turns = <<>>
    /\ job' = NoJob
    /\ entry' = IF job.ends THEN [entry EXCEPT ![job.session] = NoEntry] ELSE entry
    /\ row' = IF job.ends /\ close /\ entry[job.session] # NoEntry
              THEN [row EXCEPT ![job.session] = "closed"] ELSE row
    /\ flushing' = flushing \ {job.session}

Finish(close) ==
    /\ Alive /\ job # NoJob /\ turns = <<>>
    /\ job' = NoJob
    /\ IF job.ends THEN entry' = [entry EXCEPT ![job.session] = NoEntry]
       ELSE UNCHANGED entry
    /\ IF job.ends /\ close THEN row' = [row EXCEPT ![job.session] = "closed"]
       ELSE UNCHANGED row
    /\ flushing' = flushing \ {job.session}

(* The handler returns; a session's end has removed the entry and then     *)
(* closed the row.                                                         *)
HandlerReturns ==
    /\ Finish(TRUE)
    /\ UNCHANGED <<captured, stream, queue, closed, paused, turns, step, clips,
                   segments, daemon, failures, runs, discarded, since_pause>>

(* The entry is gone and the update of the row fails.                      *)
CloseRowFails ==
    /\ failures < MaxFailures
    /\ job # NoJob /\ job.ends /\ Finish(FALSE)
    /\ failures' = failures + 1
    /\ UNCHANGED <<captured, stream, queue, closed, paused, turns, step, clips,
                   segments, daemon, runs, discarded, since_pause>>

-----------------------------------------------------------------------------
(* The daemon stops: the capture loop ends, every stream is dropped, and   *)
(* only the microphone's and the room's say so to the pipeline.            *)

LiveMics == {s \in Mics : stream[s] = "live"}

StopCapture_Mutant ==
    /\ daemon = "running"
    /\ daemon' = "stopping"
    /\ stream' = [s \in Sessions |-> IF stream[s] = "live" THEN "over" ELSE stream[s]]
    /\ UNCHANGED <<captured, queue, closed, paused, entry, work_vars, flushing,
                   store_vars, failures, runs, discarded, since_pause>>

(* The loop has ended, and no callback runs any more.                      *)
StopCapture ==
    /\ daemon = "running"
    /\ daemon' = "stopping"
    /\ stream' = [s \in Sessions |-> IF stream[s] = "live" /\ s \notin Mics
                                     THEN "over" ELSE stream[s]]
    /\ UNCHANGED <<captured, queue, closed, paused, entry, work_vars, flushing,
                   store_vars, failures, runs, discarded, since_pause>>

(* stop_mic and stop_room.                                                 *)
StopMic(s) ==
    /\ daemon = "stopping" /\ s \in LiveMics
    /\ stream' = [stream EXCEPT ![s] = "over"]
    /\ queue' = Push(queue, [kind |-> "end", session |-> s])
    /\ UNCHANGED <<captured, closed, paused, entry, work_vars, flushing,
                   store_vars, daemon, failures, runs, discarded, since_pause>>

(* capture::run has returned, and the control socket is shut down and      *)
(* joined.                                                                 *)
CloseQueue ==
    /\ daemon = "stopping" /\ ~closed /\ LiveMics = {}
    /\ closed' = TRUE
    /\ UNCHANGED <<captured, stream, queue, paused, entry, work_vars, flushing,
                   store_vars, daemon, failures, runs, discarded,
                   since_pause>>

Drained ==
    /\ daemon = "stopping" /\ closed /\ job = NoJob /\ queue = <<>>
    /\ daemon' = "flushing"
    /\ flushing' = {s \in Sessions : entry[s] # NoEntry}
    /\ UNCHANGED <<captured, stream, queue, closed, paused, entry, work_vars,
                   store_vars, failures, runs, discarded, since_pause>>

FlushSession(s) ==
    /\ daemon = "flushing" /\ job = NoJob /\ s \in flushing
    /\ StartEnding(s)
    /\ UNCHANGED <<captured, stream, queue, closed, paused, step, flushing,
                   store_vars, daemon, failures, runs, discarded, since_pause>>

(* Nothing but the store outlives the process, the pause included.         *)
ProcessEnds ==
    /\ queue' = <<>> /\ closed' = FALSE
    /\ paused' = FALSE /\ since_pause' = 0
    /\ entry' = [s \in Sessions |-> NoEntry]
    /\ job' = NoJob /\ turns' = <<>> /\ step' = "pick" /\ flushing' = {}
    /\ stream' = [s \in Sessions |-> IF stream[s] = "live" THEN "over" ELSE stream[s]]
    /\ UNCHANGED <<captured, store_vars, failures, runs>>

Exit ==
    /\ daemon = "flushing" /\ job = NoJob /\ flushing = {}
    /\ daemon' = "stopped"
    /\ ProcessEnds
    /\ UNCHANGED discarded

(* Killed at any moment.                                                   *)
Die ==
    /\ Alive
    /\ daemon' = "dead"
    /\ ProcessEnds
    /\ discarded' = discarded \union (AllCaptured \ UNION {g.audio : g \in segments})

(* cmd_run closes the sessions a previous run left open before anything    *)
(* else.                                                                   *)
Start ==
    /\ daemon \in {"stopped", "dead"} /\ runs < MaxRuns
    /\ runs' = runs + 1
    /\ daemon' = "running"
    /\ row' = [s \in Sessions |-> IF row[s] = "open" THEN "closed" ELSE row[s]]
    /\ UNCHANGED <<captured, stream, queue, closed, paused, entry, work_vars,
                   flushing, clips, segments, failures, discarded, since_pause>>

-----------------------------------------------------------------------------
CaptureThread ==
    \E s \in Sessions : OpenSession(s) \/ Capture(s) \/ EndSession(s)

User == SetPaused \/ Resume

Inference ==
    \/ DiscardBuffer \/ OnAudio \/ OnSessionEnd
    \/ SkipTurn \/ PickTurn \/ WriteClip \/ InsertRow \/ Announce
    \/ HandlerReturns
    \/ Drained \/ Exit
    \/ \E s \in Sessions : FlushSession(s)

Stopping == CloseQueue \/ \E s \in Sessions : StopMic(s)

Faults == WriteFails \/ CloseRowFails \/ Die

Next == CaptureThread \/ User \/ Inference \/ Faults
          \/ StopCapture \/ Stopping \/ Start

Spec == Init /\ [][Next]_vars

(* The inference thread pops again and again, and main, once the loop has  *)
(* ended, stops the microphones and closes the queue.  Nobody has to       *)
(* pause, stop or start.                                                   *)
FairSpec == Spec /\ WF_vars(Inference) /\ WF_vars(Stopping)

-----------------------------------------------------------------------------
Stored == UNION {g.audio : g \in segments}

(* The turns in hand that have no row yet.                                 *)
InHand == UNION {turns[i] : i \in {j \in DOMAIN turns : j > 1 \/ step # "announce"}}

HeldAll == UNION {Held(entry[s]) : s \in Sessions}

(* Every row's clip is on disk and holds the audio of that row and of no   *)
(* other, although a session's sequence number starts again after a pause  *)
(* and the daemon may die or a write fail between the two: write_piece.    *)
RowsHaveTheirClips ==
    /\ segments \subseteq clips
    /\ \A g, h \in segments : g.path = h.path => g = h

(* A buffer is in exactly one place, the queue, a half-built turn,  *)
(* a turn being written or one row, until a pause, a mute, a hole, a full  *)
(* queue, a failed write or the end of the process gives it up: on_audio,  *)
(* on_session_end and the flush in run.                                    *)
SpeechIsInOnePlace ==
    LET queued == Heard(queue) IN
    /\ AllCaptured \ discarded = queued \union HeldAll \union InHand \union Stored
    /\ \A a, b \in {1, 2, 3, 4} : a < b =>
         LET places == <<queued, HeldAll, InHand, Stored>>
         IN  places[a] \intersect places[b] = {}
    /\ \A g, h \in segments : g # h => g.audio \intersect h.audio = {}

(* No row spans audio that was given up: what an evicted buffer, a pause   *)
(* or a mute took out of the middle of a turn has ended that turn.         *)
RowsAreOneStretch ==
    \A g \in segments, b \in discarded :
      b.session = g.path.session =>
        \/ \A c \in g.audio : c.number > b.number
        \/ \A c \in g.audio : c.number < b.number

(* A pause lets at most the one turn that had passed the check in          *)
(* write_segment be written: write_segment, control.rs.                    *)
PauseStopsWriting == since_pause <= 1

(* A clean stop leaves no microphone or room session open for the next     *)
(* start to sweep: the end of capture::run, and run's flush.               *)
MicRowsClosedAtStop ==
    daemon = "stopped" /\ failures = 0 => \A s \in Mics : row[s] # "open"

(* A session that ended while the daemon runs has its row closed, unless a *)
(* write failed, and a stop comes to an end.                               *)
EndsReachTheStore ==
    /\ \A s \in Sessions :
         (stream[s] = "over" /\ daemon = "running")
           ~> (row[s] = "closed" \/ failures > 0 \/ daemon # "running")
    /\ (daemon = "stopping") ~> (daemon \in {"stopped", "dead"})

=============================================================================
