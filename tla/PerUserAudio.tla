---------------------------- MODULE PerUserAudio ----------------------------
(***************************************************************************)
(* Per-user Discord audio: one session per person in the call (peruser.rs, *)
(* truthnet.rs), and the janitor thread that ends the quiet ones.          *)
(*                                                                         *)
(* The plugin posts frames; each post has a thread of its own, which       *)
(* places the frame under the table's lock and queues it after letting go. *)
(* The clock ticks in frames: frame n of a stream is the one that began at *)
(* tick n, and n is its sequence number too.                               *)
(***************************************************************************)
EXTENDS Integers, Sequences, FiniteSets, SequencesExt

CONSTANTS
    Streams,     \* stream keys: an account and a user it hears
    Posts,       \* request threads there may be at a time
    IdleFor,     \* ticks of quiet after which a stream is closed
    MaxTime,     \* bound: the clock
    MaxSessions, \* bound: sessions opened
    MaxResends,  \* bound: frames posted again
    MaxQueue     \* bound: events waiting

ASSUME PerUserAssumption ==
    {IdleFor, MaxTime, MaxSessions, MaxResends, MaxQueue} \subseteq Nat

VARIABLES
    now,
    posted,     \* posted[k]: the last frame of k the plugin has posted
    post,       \* the request threads
    table,      \* the stream table
    rows,       \* the per-user sessions: TRUE for one that has ended
    janitor,    \* its ends still to be queued
    phase,      \* how far the daemon's stop has come
    queue,
    turn,       \* turn[s]: the frames the pipeline holds as one stretch
    resends

ingest == <<posted, post, table, resends>>
vars == <<now, ingest, rows, janitor, phase, queue, turn>>

Free == [at |-> "free"]
NoStream == [session |-> 0]
NoTurn == [next |-> 0, frames |-> <<>>]
Asleep == [at |-> "asleep"]
Ticks == 0..MaxTime
Ids == 1..MaxSessions
Phases == <<"running", "ingest closed", "janitor told", "queue closed", "stopped">>
Frames == [kind : {"frame"}, session : Ids, stamp : 0..(2 * MaxTime), n : Ticks]

\* Types of every variable: the shape of the model's state.
TypeOK ==
    /\ now \in Ticks /\ posted \in [Streams -> Ticks]
    /\ post \in [Posts -> {Free} \union [at : {"sent"}, key : Streams, n : Ticks]
                          \union [at : {"placed"}, event : Frames]]
    /\ table \in [Streams -> {NoStream} \union [session : Ids, seq : Ticks,
                                                next : 0..(2 * MaxTime), last : Ticks]]
    /\ rows \in Seq(BOOLEAN) /\ Len(rows) <= MaxSessions
    /\ janitor \in {Asleep} \union [at : {"ending", "closing"}, ends : SUBSET Ids]
                   \union {[at |-> "gone"]}
    /\ phase \in ToSet(Phases)
    /\ queue \in Seq(Frames \union [kind : {"end"}, session : Ids])
    /\ DOMAIN turn = Ids /\ \A s \in Ids : turn[s].frames \in Seq(Ticks)
    /\ resends \in 0..MaxResends

Init ==
    /\ now = 1 /\ posted = [k \in Streams |-> 0] /\ post = [p \in Posts |-> Free]
    /\ table = [k \in Streams |-> NoStream] /\ rows = <<>> /\ janitor = Asleep
    /\ phase = "running" /\ queue = <<>> /\ turn = [s \in Ids |-> NoTurn]
    /\ resends = 0

Tick ==
    /\ now < MaxTime /\ now' = now + 1
    /\ UNCHANGED <<ingest, rows, janitor, phase, queue, turn>>

QueueOpen == phase \notin {"queue closed", "stopped"}

\* EventQueue::push, below its capacity; a closed queue ignores the event.
Pushed(event) == IF QueueOpen THEN Append(queue, event) ELSE queue

------------------------------------------------------------------------------
(* A request: the plugin posts its newest frame, or the last one again when
   the answer to it was lost. *)

Accept(p, k) ==
    /\ post[p] = Free /\ phase = "running"
    /\ \/ /\ posted[k] < now
          /\ posted' = [posted EXCEPT ![k] = now] /\ UNCHANGED resends
       \/ /\ posted[k] > 0 /\ resends < MaxResends
          /\ resends' = resends + 1 /\ UNCHANGED posted
    /\ post' = [post EXCEPT ![p] = [at |-> "sent", key |-> k, n |-> posted'[k]]]
    /\ UNCHANGED <<now, table, rows, janitor, phase, queue, turn>>

\* A frame carries on its stream's run only as the successor of the last frame.
Contiguous_Mutant(stream, n) == "seq" \in DOMAIN stream

Contiguous(stream, n) == "seq" \in DOMAIN stream /\ n = stream.seq + 1

\* PerUser::open: a row of its own, and no frame placed yet.
Opened(k) == [session |-> Len(rows) + 1, next |-> 0, last |-> now]

(* PerUser::ingest up to the unlock: the session is opened by the first frame,
   and the frame is placed behind its run or, after a hole, at its own time. *)
Place(p) ==
    /\ post[p].at = "sent"
    /\ LET k == post[p].key
           n == post[p].n
           opens == table[k] = NoStream
           stream == IF opens THEN Opened(k) ELSE table[k]
           stamp == IF Contiguous(stream, n) THEN stream.next ELSE n
       IN /\ opens => Len(rows) < MaxSessions
          /\ rows' = IF opens THEN Append(rows, FALSE) ELSE rows
          /\ table' = [table EXCEPT ![k] = [session |-> stream.session, seq |-> n,
                                            next |-> stamp + 1, last |-> now]]
          /\ post' = [post EXCEPT ![p] = [at |-> "placed", event |->
                 [kind |-> "frame", session |-> stream.session, stamp |-> stamp, n |-> n]]]
    /\ UNCHANGED <<now, posted, janitor, phase, queue, turn, resends>>

\* The lock is dropped before the push, and the request is answered.
QueueFrame(p) ==
    /\ post[p].at = "placed" /\ Len(queue) < MaxQueue
    /\ queue' = Pushed(post[p].event)
    /\ post' = [post EXCEPT ![p] = Free]
    /\ UNCHANGED <<now, posted, table, rows, janitor, phase, turn, resends>>

------------------------------------------------------------------------------
(* The janitor. *)

InTable(s) == \E k \in Streams : table[k].session = s

\* The streams with no frame for longer than the idle window.
QuietKeys_Mutant == {k \in Streams : table[k] # NoStream /\ now - table[k].last > MaxTime}

QuietKeys == {k \in Streams : table[k] # NoStream /\ now - table[k].last > IdleFor}

Without(keys) == [k \in Streams |-> IF k \in keys THEN NoStream ELSE table[k]]

\* PerUser::sweep under the lock.
Sweep ==
    /\ janitor = Asleep /\ QuietKeys # {}
    /\ table' = Without(QuietKeys)
    /\ janitor' = [at |-> "ending", ends |-> {table[k].session : k \in QuietKeys}]
    /\ UNCHANGED <<now, posted, post, rows, phase, queue, turn, resends>>

\* PerUser::close_all under the lock, on the way out of the janitor's loop.
CloseAll ==
    /\ janitor = Asleep /\ phase = "janitor told"
    /\ table' = [k \in Streams |-> NoStream]
    /\ janitor' = [at |-> "closing",
                   ends |-> {table[k].session : k \in Streams} \ {NoStream.session}]
    /\ UNCHANGED <<now, posted, post, rows, phase, queue, turn, resends>>

\* Either queues its ends when the lock is gone.
QueueEnd ==
    /\ janitor.at \in {"ending", "closing"}
    /\ \/ \E s \in janitor.ends :
             /\ Len(queue) < MaxQueue
             /\ queue' = Pushed([kind |-> "end", session |-> s])
             /\ janitor' = [janitor EXCEPT !.ends = @ \ {s}]
       \/ /\ janitor.ends = {} /\ UNCHANGED queue
          /\ janitor' = IF janitor.at = "ending" THEN Asleep ELSE [at |-> "gone"]
    /\ UNCHANGED <<now, ingest, rows, phase, turn>>

------------------------------------------------------------------------------
(* The daemon's stop. *)

\* The order of daemon's last lines; the queue closes once the janitor is joined.
StopReady_Mutant(step) == TRUE

StopReady(step) == Phases[step] = "janitor told" => janitor.at = "gone"

Stop ==
    /\ \E step \in 1..3 :
          /\ phase = Phases[step] /\ StopReady(step)
          /\ phase' = Phases[step + 1]
    /\ UNCHANGED <<now, ingest, rows, janitor, queue, turn>>

------------------------------------------------------------------------------
(* The inference thread. *)

\* maybe_reanchor and discard_across_gap: a frame that is not where the session's
\* clock expects it starts a new stretch. The code lets 100 ms pass; a tick here is a
\* frame, of 500 ms as docs/PROTOCOL.md has them, so that a frame which is lost, repeated
\* or out of order is always out by more.
Extended(t, event) ==
    [next |-> event.stamp + 1,
     frames |-> IF t = NoTurn \/ t.next # event.stamp THEN <<event.n>>
                ELSE Append(t.frames, event.n)]

Analyse ==
    /\ queue # <<>> /\ Head(queue).kind = "frame"
    /\ turn' = [turn EXCEPT ![Head(queue).session] = Extended(@, Head(queue))]
    /\ queue' = Tail(queue)
    /\ UNCHANGED <<now, ingest, rows, janitor, phase>>

\* on_session_end.
EndSession(s) ==
    /\ rows' = [rows EXCEPT ![s] = TRUE]
    /\ turn' = [turn EXCEPT ![s] = NoTurn]
    /\ UNCHANGED <<now, ingest, janitor>>

End ==
    /\ queue # <<>> /\ Head(queue).kind = "end"
    /\ EndSession(Head(queue).session)
    /\ queue' = Tail(queue) /\ UNCHANGED phase

\* The queue is closed and drained: what is still open is flushed and ended.
Unflushed == {s \in Ids : turn[s] # NoTurn}

Flush ==
    /\ phase = "queue closed" /\ queue = <<>>
    /\ \/ \E s \in Unflushed : EndSession(s) /\ UNCHANGED <<phase, queue>>
       \/ /\ Unflushed = {} /\ phase' = "stopped"
          /\ UNCHANGED <<now, ingest, rows, janitor, queue, turn>>

------------------------------------------------------------------------------
Serving == \E p \in Posts : (\E k \in Streams : Accept(p, k)) \/ Place(p) \/ QueueFrame(p)
Janitor == Sweep \/ CloseAll \/ QueueEnd
Inference == Analyse \/ End \/ Flush

Next == Tick \/ Serving \/ Janitor \/ Stop \/ Inference

(* The janitor and the inference thread are loops that always come round, and
   the queue always has room in the end, because the inference thread drains it. *)
Fairness ==
    /\ WF_vars(Sweep) /\ WF_vars(QueueEnd) /\ WF_vars(Inference)

Spec == Init /\ [][Next]_vars /\ Fairness

------------------------------------------------------------------------------
(* What one session's audio is cut into never joins two frames that were not
   next to each other in the call: not over a lost frame, not over a frame sent
   twice, not when two requests queue their frames in the other order (the hole
   that seq is on the wire for, peruser.rs ingest and pipeline.rs maybe_reanchor). *)
NoSpliceOverALostFrame ==
    \A s \in Ids : LET f == turn[s].frames IN
        \A i \in 1..(Len(f) - 1) : f[i + 1] = f[i] + 1

(* When the daemon has stopped, a session still open is one a request opened after
   the janitor's last look at the table: every other one was ended, however requests,
   janitor and stop were interleaved (main.rs stops the ingest, then the janitor,
   then the queue; pipeline.rs flushes what is left). *)
OnlyLateSessionsStayOpen ==
    phase = "stopped" => \A s \in DOMAIN rows : rows[s] \/ InTable(s)

(* While the daemon runs, the session of a stream that has gone quiet is ended,
   unless the stream is heard again (the janitor of main.rs, PerUser::sweep). *)
QuietSession(s) ==
    /\ s \in DOMAIN rows /\ ~rows[s]
    /\ \A k \in Streams : table[k].session = s => now - table[k].last > IdleFor

QuietStreamsEnd ==
    \A s \in Ids : QuietSession(s) ~> ~QuietSession(s) \/ phase # "running"
=============================================================================
