----------------------------- MODULE EventQueue -----------------------------
(***************************************************************************)
(* The bounded hand-off between the producers of audio (the PipeWire       *)
(* thread, the per-user Discord ingest) and the one inference thread:      *)
(* crates/recalld/src/queue.rs.                                            *)
(*                                                                         *)
(* A push appends its event and then runs the eviction loop, all under the *)
(* queue's mutex.  The loop is modelled turn by turn: `pushing' is TRUE    *)
(* while some producer is inside it, and everybody else waits.             *)
(***************************************************************************)
EXTENDS Integers, FiniteSets, SequencesExt

CONSTANTS
    Sessions,          \* session ids a producer may name
    Weights,           \* lengths of the buffers a stream delivers, in samples
    CapacitySamples,   \* the audio budget
    MaxEvents          \* bound: how many events the producers push in all

(* `new' clamps the budget to at least one sample; the audio callback      *)
(* returns before pushing a buffer that holds no sample.                   *)
ASSUME QueueAssumption ==
    /\ Weights \subseteq Nat \ {0}
    /\ CapacitySamples \in Nat \ {0}
    /\ MaxEvents \in Nat

VARIABLES
    items,             \* the VecDeque, oldest first
    queued_samples,    \* running total the loop compares with the budget
    closed,            \* set by close, never cleared
    pushing,           \* a producer holds the mutex inside push's loop
    consumer,          \* "running", or "done" once PopResult::Closed was seen
    dropped_chunks,    \* the counter the overflow warning prints
    accepted,          \* history: how many events push has taken
    delivered,         \* history: events the consumer has popped
    evicted            \* history: buffers the loop has thrown away

vars == <<items, queued_samples, closed, pushing, consumer, dropped_chunks,
          accepted, delivered, evicted>>

Kinds == {"audio", "end", "gap"}

(* An accepted event carries its ticket, the position at which push took   *)
(* it.  Only audio has weight.                                             *)
Event == [ticket : 1..MaxEvents, kind : Kinds, session : Sessions,
          weight : Weights \union {0}]

(* Definitions whose name ends in _Mutant are deliberate mistakes.  No      *)
(* specification uses them: each takes the place of the definition below   *)
(* it when the properties are tested for their power to notice.            *)
is_audio_Mutant(e) == e.kind # "gap"

is_audio(e) == e.kind = "audio"

(* usize::saturating_sub. *)
Saturating(total, w) == IF w <= total THEN total - w ELSE 0

AudioAt == {i \in DOMAIN items : is_audio(items[i])}

OldestAudioAt_Mutant(i) == i \in AudioAt /\ \A j \in AudioAt : i >= j

OldestAudioAt(i) == i \in AudioAt /\ \A j \in AudioAt : i <= j

MustEvict_Mutant ==
    /\ queued_samples > CapacitySamples
    /\ AudioAt # {}

(* The loop goes on while the total is over budget and an audio buffer     *)
(* other than the newest one is left to evict.                             *)
MustEvict ==
    /\ queued_samples > CapacitySamples
    /\ \E i, j \in AudioAt : i # j

TypeOK ==
    /\ items \in Seq(Event)
    /\ queued_samples \in Nat
    /\ closed \in BOOLEAN
    /\ pushing \in BOOLEAN
    /\ consumer \in {"running", "done"}
    /\ dropped_chunks \in Nat
    /\ accepted \in Nat
    /\ delivered \subseteq Event
    /\ evicted \subseteq Event

Init ==
    /\ items = <<>>
    /\ queued_samples = 0
    /\ closed = FALSE
    /\ pushing = FALSE
    /\ consumer = "running"
    /\ dropped_chunks = 0
    /\ accepted = 0
    /\ delivered = {}
    /\ evicted = {}

Enqueue(kind, session, weight) ==
    /\ ~pushing
    /\ ~closed
    /\ accepted < MaxEvents
    /\ items' = Append(items, [ticket |-> accepted + 1, kind |-> kind,
                               session |-> session, weight |-> weight])
    /\ queued_samples' = queued_samples + weight
    /\ accepted' = accepted + 1
    /\ pushing' = TRUE
    /\ UNCHANGED <<closed, consumer, dropped_chunks, delivered, evicted>>

PushAudio(s, w) == Enqueue("audio", s, w)
PushSessionEnd(s) == Enqueue("end", s, 0)
PushGap(s) == Enqueue("gap", s, 0)

EvictOldest_Mutant ==
    /\ pushing
    /\ MustEvict
    /\ \E i \in AudioAt :
          /\ OldestAudioAt(i)
          /\ items' = Front([items EXCEPT ![i] = Last(items)])
          /\ queued_samples' = Saturating(queued_samples, items[i].weight)
          /\ evicted' = evicted \union {items[i]}
    /\ dropped_chunks' = dropped_chunks + 1
    /\ UNCHANGED <<closed, pushing, consumer, accepted, delivered>>

(* One turn of the loop: the oldest audio goes, control events keep their  *)
(* places around it.                                                       *)
EvictOldest ==
    /\ pushing
    /\ MustEvict
    /\ \E i \in AudioAt :
          /\ OldestAudioAt(i)
          /\ items' = RemoveAt(items, i)
          /\ queued_samples' = Saturating(queued_samples, items[i].weight)
          /\ evicted' = evicted \union {items[i]}
    /\ dropped_chunks' = dropped_chunks + 1
    /\ UNCHANGED <<closed, pushing, consumer, accepted, delivered>>

PushDone_Mutant ==
    /\ pushing
    /\ pushing' = FALSE
    /\ UNCHANGED <<items, queued_samples, closed, consumer, dropped_chunks,
                   accepted, delivered, evicted>>

PushDone ==
    /\ pushing
    /\ ~MustEvict
    /\ pushing' = FALSE
    /\ UNCHANGED <<items, queued_samples, closed, consumer, dropped_chunks,
                   accepted, delivered, evicted>>

Pop_Mutant ==
    /\ ~pushing
    /\ ~closed
    /\ consumer = "running"
    /\ items # <<>>
    /\ items' = Tail(items)
    /\ queued_samples' = Saturating(queued_samples, Head(items).weight)
    /\ delivered' = delivered \union {Head(items)}
    /\ UNCHANGED <<closed, pushing, consumer, dropped_chunks, accepted,
                   evicted>>

(* pop and pop_timeout hand out the front item.  A time-out is not an      *)
(* action: it changes nothing.                                             *)
Pop ==
    /\ ~pushing
    /\ consumer = "running"
    /\ items # <<>>
    /\ items' = Tail(items)
    /\ queued_samples' = Saturating(queued_samples, Head(items).weight)
    /\ delivered' = delivered \union {Head(items)}
    /\ UNCHANGED <<closed, pushing, consumer, dropped_chunks, accepted,
                   evicted>>

PopClosed_Mutant ==
    /\ ~pushing
    /\ consumer = "running"
    /\ closed
    /\ consumer' = "done"
    /\ UNCHANGED <<items, queued_samples, closed, pushing, dropped_chunks,
                   accepted, delivered, evicted>>

(* PopResult::Closed: only a closed queue that has been drained says so.   *)
PopClosed ==
    /\ ~pushing
    /\ consumer = "running"
    /\ items = <<>>
    /\ closed
    /\ consumer' = "done"
    /\ UNCHANGED <<items, queued_samples, closed, pushing, dropped_chunks,
                   accepted, delivered, evicted>>

Close ==
    /\ ~pushing
    /\ ~closed
    /\ closed' = TRUE
    /\ UNCHANGED <<items, queued_samples, pushing, consumer, dropped_chunks,
                   accepted, delivered, evicted>>

Next ==
    \/ \E s \in Sessions : \E w \in Weights : PushAudio(s, w)
    \/ \E s \in Sessions : PushSessionEnd(s) \/ PushGap(s)
    \/ EvictOldest
    \/ PushDone
    \/ Pop
    \/ PopClosed
    \/ Close

(* The inference thread polls for ever (pipeline.rs run), and a producer   *)
(* inside push holds a mutex and never blocks: both keep running.  Nothing *)
(* obliges a producer to push, nor the daemon to shut down.                *)
Fairness ==
    /\ WF_vars(EvictOldest)
    /\ WF_vars(PushDone)
    /\ WF_vars(Pop)
    /\ WF_vars(PopClosed)

Spec == Init /\ [][Next]_vars
FairSpec == Spec /\ Fairness

-----------------------------------------------------------------------------
Queued == ToSet(items)

(* The deque is ordered by acceptance and everything already popped was    *)
(* accepted before everything still queued, so evicting from the middle    *)
(* never reorders a control event against the audio around it.             *)
FirstInFirstOut ==
    /\ \A i, j \in DOMAIN items : i < j => items[i].ticket < items[j].ticket
    /\ \A d \in delivered : \A i \in DOMAIN items :
          d.ticket < items[i].ticket

(* Every event push took is queued, was popped, or was evicted: exactly    *)
(* one of the three, whatever the loop removed from the middle.            *)
NothingVanishes ==
    /\ \A e \in Queued \union delivered \union evicted : e.ticket <= accepted
    /\ \A t \in 1..accepted :
          \E e \in Queued \union delivered \union evicted : e.ticket = t
    /\ \A e \in evicted : \A f \in Queued \union delivered :
          e.ticket # f.ticket

(* queue.rs, the module doc: session ends and gaps are never dropped by    *)
(* the overflow policy, however small the budget.                          *)
ControlNeverEvicted == \A e \in evicted : e.kind = "audio"

(* "The audio worth keeping is the newest": a buffer is evicted only when  *)
(* a newer one has been accepted, even if one buffer exceeds the budget.   *)
NewestAudioKept ==
    \A e \in evicted : \E f \in Queued \union delivered :
        is_audio(f) /\ f.ticket > e.ticket

SamplesIn(q) ==
    LET total[i \in 0..Len(q)] == IF i = 0 THEN 0 ELSE total[i - 1] + q[i].weight
    IN  total[Len(q)]

(* "A stalled VAD thread has to cost bounded memory": outside the loop the *)
(* samples really in the deque fit the budget, or one buffer is left.      *)
BoundedBacklog ==
    ~pushing => \/ SamplesIn(items) <= CapacitySamples
                \/ Cardinality(AudioAt) = 1

(* The deque with its lock, budget and loop is a lossy FIFO: each loop     *)
(* turn is one loss, each push one arrival, each pop one delivery.         *)
Fifo == INSTANCE LossyFifo WITH
            Events <- Event, backlog <- Queued, taken <- accepted,
            out <- delivered, lost <- evicted, shut <- closed

IsLossyFifo == Fifo!FifoSpec

(* A queued session end or gap reaches the consumer, even across a close.  *)
ControlDelivered ==
    \A t \in 1..MaxEvents :
        (\E e \in Queued : e.ticket = t /\ ~is_audio(e))
            ~> (\E e \in delivered : e.ticket = t)

(* close lets the consumer finish, and only after the backlog is drained.  *)
CloseDrains == closed ~> (consumer = "done" /\ items = <<>>)
=============================================================================
