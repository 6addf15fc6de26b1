------------------------ MODULE CapturePipelineProofs ------------------------
(***************************************************************************)
(* Proofs about CapturePipeline, for any sessions, any capacity of the     *)
(* queue and any number of buffers, failures and runs of the daemon.       *)
(***************************************************************************)
EXTENDS CapturePipeline, FiniteSetTheorems, SequenceTheorems, TLAPS


-----------------------------------------------------------------------------
(* The inductive invariant.                                                *)

BufferOf(s, n) == [session |-> s, number |-> n]

AllOf(s, T) == \A b \in T : b.session = s

(* A set of buffers of one session with no hole in it.                     *)
Unbroken(T) ==
    \A b, c \in T : \A n \in Nat :
        b.number <= n /\ n <= c.number => BufferOf(b.session, n) \in T

Ordered(q) ==
    \A i, j \in DOMAIN q :
        i < j /\ IsAudio(q[i]) /\ IsAudio(q[j]) /\ q[i].session = q[j].session
          => q[i].number < q[j].number

Fits(q) == IsFiniteSet(Heard(q)) /\ Cardinality(Heard(q)) <= Capacity

QueueInv == Ordered(queue) /\ Fits(queue)

(* The half-built turns of a session: the waiting one, then the open one,  *)
(* up to the last buffer received, with nothing missing and nothing later. *)
GoodEntry(s, e) ==
    /\ AllOf(s, Held(e))
    /\ Unbroken(e.open) /\ Unbroken(e.pending) /\ Unbroken(Held(e))
    /\ e.open \intersect e.pending = {}
    /\ \A b \in Held(e) : b.number <= e.last
    /\ e.open # {} => BufferOf(s, e.last) \in e.open
    /\ Held(e) # {} => BufferOf(s, e.last) \in Held(e)

EntryInv ==
    \A s \in Sessions : entry[s] # NoEntry =>
        /\ GoodEntry(s, entry[s])
        /\ entry[s].last <= captured[s]
        /\ \A b \in Heard(queue) : b.session = s => entry[s].last < b.number

GoodTurns(s, ts) ==
    /\ \A i \in DOMAIN ts : ts[i] # {} /\ AllOf(s, ts[i]) /\ Unbroken(ts[i])
    /\ \A i, j \in DOMAIN ts : i # j => ts[i] \intersect ts[j] = {}

JobInv ==
    /\ turns # <<>> => /\ job # NoJob
                       /\ entry[job.session] # NoEntry
                       /\ GoodTurns(job.session, turns)
    /\ step # "pick" => turns # <<>>
    /\ step = "row" => ClipOf(Head(turns)) \in clips
    /\ step = "announce" => ClipOf(Head(turns)) \in segments
    /\ job # NoJob /\ job.ends /\ entry[job.session] # NoEntry
         => Held(entry[job.session]) = {}

GoodRow(g) ==
    /\ AllOf(g.path.session, g.audio) /\ Unbroken(g.audio)
    /\ BufferOf(g.path.session, g.path.start) \in g.audio

RowInv ==
    /\ segments \subseteq clips
    /\ \A g \in segments : GoodRow(g)
    /\ \A g, h \in segments : g # h => g.audio \intersect h.audio = {}

(* Every buffer captured is in one of five places, and in no other.        *)
Partition(all, queued, held, hand, written, lost) ==
    /\ all = queued \union held \union hand \union written \union lost
    /\ queued \intersect (held \union hand \union written \union lost) = {}
    /\ held \intersect (hand \union written \union lost) = {}
    /\ hand \intersect (written \union lost) = {}
    /\ written \intersect lost = {}

PlaceInv == Partition(AllCaptured, Heard(queue), HeldAll, InHand, Stored, discarded)

(* What is over when the daemon has come to each stage of its stop.        *)
StreamsStop ==
    \A s \in Sessions : stream[s] = "live" =>
        daemon = "running" \/ (daemon = "stopping" /\ s \in Mics /\ ~closed)
ClosedLate == closed => daemon \in {"stopping", "flushing"}
FlushesAll ==
    daemon = "flushing" =>
        /\ queue = <<>> /\ closed
        /\ job # NoJob => job.ends
        /\ \A s \in Sessions :
              entry[s] # NoEntry /\ Held(entry[s]) # {} => s \in flushing

NothingIsLeft == daemon \in {"stopped", "dead"} => queue = <<>> /\ job = NoJob

StopInv == StreamsStop /\ ClosedLate /\ FlushesAll /\ NothingIsLeft

Ending(s) ==
    \/ stream[s] = "live"
    \/ \E i \in DOMAIN queue : queue[i].kind = "end" /\ queue[i].session = s
    \/ job # NoJob /\ job.ends /\ job.session = s

MicInv ==
    failures = 0 /\ daemon # "dead" =>
        \A s \in Mics : row[s] = "open" => Ending(s)

PauseInv ==
    /\ since_pause <= 1
    /\ ~paused => since_pause = 0
    /\ since_pause = 1 => step # "clip"

PipelineInv ==
    /\ TypeOK /\ QueueInv /\ EntryInv /\ JobInv /\ RowInv /\ PlaceInv
    /\ StopInv /\ MicInv /\ PauseInv

-----------------------------------------------------------------------------
(* Least numbers.                                                          *)

LEMMA LeastOf ==
    ASSUME NEW S, S \subseteq Nat, S # {}
    PROVE  Min(S) \in S /\ \A n \in S : Min(S) <= n
PROOF
<1> DEFINE Upto == {0 .. n : n \in S}
           R == StrictSubsetOrdering(Nat)
<1>1. Upto \subseteq FiniteSubsetsOf(Nat) /\ Upto # {}
  <2>1. \A n \in S : 0 .. n \subseteq Nat /\ IsFiniteSet(0 .. n)
    BY FS_Interval
  <2> QED
    BY <2>1 DEF FiniteSubsetsOf
<1>2. PICK T \in Upto : \A U \in Upto : ~(<<U, T>> \in R)
  <2>1. IsWellFoundedOn(R, FiniteSubsetsOf(Nat))
    BY FS_StrictSubsetOrderingWellFounded
  <2> HIDE DEF R, Upto
  <2> QED
    BY <1>1, <2>1, WFMin
<1>3. PICK m \in S : T = 0 .. m
  OBVIOUS
<1>4. ASSUME NEW n \in S, n < m
      PROVE  FALSE
  <2>1. 0 .. n \subseteq 0 .. m /\ m \in 0 .. m /\ m \notin 0 .. n
    BY <1>4
  <2>2. <<0 .. n, 0 .. m>> \in R
    BY <2>1 DEF StrictSubsetOrdering
  <2> QED
    BY <1>2, <1>3, <2>2
<1>5. \A n \in S : m <= n
  BY <1>4
<1> QED
  BY <1>5 DEF Min

-----------------------------------------------------------------------------
(* The queue.                                                              *)

LEMMA EventFields ==
    ASSUME NEW e \in Event
    PROVE  /\ e.kind \in {"audio", "end"} /\ e.session \in Sessions
           /\ IsAudio(e) => e.number \in Nat
PROOF
BY DEF Event, IsAudio

LEMMA InHeard ==
    ASSUME NEW q \in Seq(Event), NEW b
    PROVE  b \in Heard(q) <=>
             \E i \in 1..Len(q) : IsAudio(q[i]) /\ b = BufferOf(q[i].session, q[i].number)
PROOF
BY DEF Heard, BufferOf

LEMMA HeardIsBuffers ==
    ASSUME NEW q \in Seq(Event)
    PROVE  Heard(q) \subseteq Buffers
PROOF
<1>1. \A i \in 1..Len(q) : q[i] \in Event
  OBVIOUS
<1> QED
  BY <1>1, InHeard, EventFields DEF Buffers, BufferOf

LEMMA HeardAppend ==
    ASSUME NEW q \in Seq(Event), NEW e \in Event
    PROVE  Heard(Append(q, e)) =
             Heard(q) \union (IF IsAudio(e) THEN {BufferOf(e.session, e.number)} ELSE {})
PROOF
<1>1. /\ Append(q, e) \in Seq(Event) /\ Len(Append(q, e)) = Len(q) + 1
      /\ Len(q) \in Nat
      /\ \A i \in 1..Len(q) : Append(q, e)[i] = q[i]
      /\ Append(q, e)[Len(q) + 1] = e
  OBVIOUS
<1>2. ASSUME NEW b
      PROVE  b \in Heard(Append(q, e)) <=>
               b \in Heard(q) \/ (IsAudio(e) /\ b = BufferOf(e.session, e.number))
  <2> DEFINE At(s, i) == IsAudio(s[i]) /\ b = BufferOf(s[i].session, s[i].number)
  <2>1. \A i : i \in 1..(Len(q) + 1) <=> i \in 1..Len(q) \/ i = Len(q) + 1
    BY <1>1
  <2>2. b \in Heard(Append(q, e)) <=> \E i \in 1..(Len(q) + 1) : At(Append(q, e), i)
    <3>1. \A p \in Seq(Event) : b \in Heard(p) <=> \E i \in 1..Len(p) : At(p, i)
      BY InHeard
    <3> HIDE DEF At
    <3> QED
      BY <1>1, <3>1
  <2>3. b \in Heard(q) <=> \E i \in 1..Len(q) : At(q, i)
    BY InHeard
  <2>4. /\ \A i \in 1..Len(q) : At(Append(q, e), i) <=> At(q, i)
        /\ At(Append(q, e), Len(q) + 1) <=>
             IsAudio(e) /\ b = BufferOf(e.session, e.number)
    BY <1>1
  <2> HIDE DEF At
  <2> QED
    BY <2>1, <2>2, <2>3, <2>4
<1> QED
  BY <1>2

LEMMA OrderedAppend ==
    ASSUME NEW q \in Seq(Event), NEW e \in Event, Ordered(q),
           IsAudio(e) => \A b \in Heard(q) : b.session = e.session => b.number < e.number
    PROVE  Ordered(Append(q, e))
PROOF
<1>1. /\ DOMAIN Append(q, e) = 1..(Len(q) + 1) /\ DOMAIN q = 1..Len(q)
      /\ Len(q) \in Nat
      /\ \A i \in 1..Len(q) : Append(q, e)[i] = q[i]
      /\ Append(q, e)[Len(q) + 1] = e
  OBVIOUS
<1> SUFFICES ASSUME NEW i \in 1..(Len(q) + 1), NEW j \in 1..(Len(q) + 1), i < j,
                    IsAudio(Append(q, e)[i]), IsAudio(Append(q, e)[j]),
                    Append(q, e)[i].session = Append(q, e)[j].session
             PROVE  Append(q, e)[i].number < Append(q, e)[j].number
  BY <1>1 DEF Ordered
<1>2. i \in 1..Len(q)
  BY <1>1
<1>3. CASE j \in 1..Len(q)
  BY <1>1, <1>2, <1>3 DEF Ordered
<1>4. CASE j = Len(q) + 1
  <2>1. q[i] = Append(q, e)[i] /\ Append(q, e)[j] = e
    BY <1>1, <1>2, <1>4
  <2>2. BufferOf(q[i].session, q[i].number) \in Heard(q)
    BY <1>2, <2>1, InHeard
  <2> QED
    BY <2>1, <2>2 DEF BufferOf
<1> QED
  BY <1>1, <1>3, <1>4

LEMMA TailFacts ==
    ASSUME NEW S, NEW q \in Seq(S), q # <<>>
    PROVE  /\ Head(q) = q[1] /\ 1 \in 1..Len(q) /\ Head(q) \in S
           /\ Tail(q) \in Seq(S) /\ Len(q) \in Nat
           /\ DOMAIN q = 1..Len(q) /\ DOMAIN Tail(q) = 1..(Len(q) - 1)
           /\ Len(Tail(q)) = Len(q) - 1
           /\ \A i \in 1..(Len(q) - 1) : Tail(q)[i] = q[i + 1]
PROOF
OBVIOUS

LEMMA PopFacts ==
    ASSUME NEW q \in Seq(Event), q # <<>>, Ordered(q), Fits(q)
    PROVE  /\ Tail(q) \in Seq(Event) /\ Ordered(Tail(q)) /\ Fits(Tail(q))
           /\ Heard(Tail(q)) = Heard(q) \ Heard(<<Head(q)>>)
           /\ Heard(<<Head(q)>>) =
                IF IsAudio(Head(q)) THEN {BufferOf(Head(q).session, Head(q).number)} ELSE {}
           /\ Heard(<<Head(q)>>) \subseteq Heard(q)
           /\ IsAudio(Head(q)) =>
                \A b \in Heard(Tail(q)) :
                    b.session = Head(q).session => Head(q).number < b.number
           /\ \A i \in DOMAIN q : q[i].kind = "end" =>
                q[i] = Head(q) \/ \E j \in DOMAIN Tail(q) : Tail(q)[j] = q[i]
PROOF
<1> DEFINE t == Tail(q)
<1>1. /\ Head(q) = q[1] /\ 1 \in 1..Len(q) /\ Head(q) \in Event
      /\ t \in Seq(Event) /\ Len(q) \in Nat
      /\ DOMAIN q = 1..Len(q) /\ DOMAIN t = 1..(Len(q) - 1)
      /\ Len(t) = Len(q) - 1
      /\ \A i \in 1..(Len(q) - 1) : t[i] = q[i + 1]
  BY TailFacts
<1> HIDE DEF t
<1>2. Ordered(t)
  <2> SUFFICES ASSUME NEW i \in 1..(Len(q) - 1), NEW j \in 1..(Len(q) - 1), i < j,
                      IsAudio(t[i]), IsAudio(t[j]), t[i].session = t[j].session
               PROVE  t[i].number < t[j].number
    BY <1>1 DEF Ordered
  <2>1. i + 1 \in 1..Len(q) /\ j + 1 \in 1..Len(q) /\ i + 1 < j + 1
    BY <1>1
  <2> QED
    BY <1>1, <2>1 DEF Ordered
<1>3. Heard(<<Head(q)>>) =
        IF IsAudio(Head(q)) THEN {BufferOf(Head(q).session, Head(q).number)} ELSE {}
  BY <1>1 DEF Heard, BufferOf
<1>4. ASSUME NEW b
      PROVE  b \in Heard(q) <=> b \in Heard(t) \/ b \in Heard(<<Head(q)>>)
  <2> DEFINE At(s, i) == IsAudio(s[i]) /\ b = BufferOf(s[i].session, s[i].number)
  <2>1. ASSUME NEW i \in 1..Len(q), i # 1
        PROVE  i - 1 \in 1..(Len(q) - 1) /\ t[i - 1] = q[i]
    BY <1>1, <2>1
  <2>2. ASSUME NEW i \in 1..(Len(q) - 1)
        PROVE  i + 1 \in 1..Len(q) /\ t[i] = q[i + 1]
    BY <1>1
  <2>3. b \in Heard(t) <=> \E i \in 1..(Len(q) - 1) : At(t, i)
    BY <1>1, InHeard
  <2>4. b \in Heard(q) <=> \E i \in 1..Len(q) : At(q, i)
    BY InHeard
  <2>5. b \in Heard(<<Head(q)>>) <=> At(q, 1)
    BY <1>1, <1>3
  <2>6. ASSUME NEW i \in 1..(Len(q) - 1), At(t, i)
        PROVE  At(q, i + 1)
    BY <2>2, <2>6
  <2>7. ASSUME NEW i \in 1..Len(q), At(q, i), i # 1
        PROVE  At(t, i - 1)
    BY <2>1, <2>7
  <2> HIDE DEF At
  <2> QED
    BY <1>1, <2>1, <2>2, <2>3, <2>4, <2>5, <2>6, <2>7
<1>5. ASSUME IsAudio(Head(q)), NEW b \in Heard(t), b.session = Head(q).session
      PROVE  Head(q).number < b.number
  <2>1. PICK i \in 1..(Len(q) - 1) : IsAudio(t[i]) /\ b = BufferOf(t[i].session, t[i].number)
    BY <1>1, InHeard
  <2>2. i + 1 \in 1..Len(q) /\ 1 < i + 1 /\ t[i] = q[i + 1]
    BY <1>1
  <2> QED
    BY <1>1, <1>5, <2>1, <2>2 DEF Ordered, BufferOf
<1>6. Heard(t) \intersect Heard(<<Head(q)>>) = {}
  <2> SUFFICES ASSUME IsAudio(Head(q)), BufferOf(Head(q).session, Head(q).number) \in Heard(t)
               PROVE  FALSE
    BY <1>3
  <2>1. Head(q).number \in Nat /\ Head(q).number < Head(q).number
    BY <1>1, <1>5, EventFields DEF BufferOf
  <2> QED
    BY <2>1
<1>7. Heard(t) = Heard(q) \ Heard(<<Head(q)>>) /\ Heard(t) \subseteq Heard(q)
        /\ Heard(<<Head(q)>>) \subseteq Heard(q)
  BY <1>4, <1>6
<1>8. Fits(t)
  <2>1. IsFiniteSet(Heard(q)) /\ Cardinality(Heard(q)) <= Capacity /\ Capacity \in Nat
    BY PipelineAssumption DEF Fits
  <2>2. IsFiniteSet(Heard(t)) /\ Cardinality(Heard(t)) <= Cardinality(Heard(q))
    BY <1>7, <2>1, FS_Subset
  <2>3. Cardinality(Heard(t)) \in Nat /\ Cardinality(Heard(q)) \in Nat
    BY <2>1, <2>2, FS_CardinalityType
  <2> QED
    BY <2>1, <2>2, <2>3 DEF Fits
<1>9. ASSUME NEW i \in DOMAIN q, q[i] # Head(q)
      PROVE  \E j \in DOMAIN t : t[j] = q[i]
  <2>1. i - 1 \in DOMAIN t /\ t[i - 1] = q[i]
    BY <1>1, <1>9
  <2> QED
    BY <2>1
<1> QED
  BY <1>1, <1>2, <1>3, <1>5, <1>7, <1>8, <1>9 DEF t

LEMMA CutOut ==
    ASSUME NEW S, NEW q \in Seq(S), NEW o \in 1..Len(q)
    PROVE  LET p == SubSeq(q, 1, o - 1) \o SubSeq(q, o + 1, Len(q)) IN
           /\ p \in Seq(S) /\ Len(p) = Len(q) - 1 /\ Len(q) \in Nat
           /\ \A i \in 1..(Len(q) - 1) : p[i] = IF i < o THEN q[i] ELSE q[i + 1]
PROOF
<1> DEFINE front == SubSeq(q, 1, o - 1)
           back == SubSeq(q, o + 1, Len(q))
<1>1. Len(q) \in Nat /\ \A i \in 1..Len(q) : q[i] \in S
  OBVIOUS
<1>2. /\ front \in Seq(S) /\ Len(front) = o - 1
      /\ \A i \in 1..(o - 1) : front[i] = q[i]
  BY <1>1
<1>3. /\ back \in Seq(S) /\ Len(back) = Len(q) - o
      /\ \A i \in 1..(Len(q) - o) : back[i] = q[i + o]
  BY <1>1
<1> HIDE DEF front, back
<1>4. /\ front \o back \in Seq(S)
      /\ Len(front \o back) = Len(front) + Len(back)
      /\ \A i \in 1..(Len(front) + Len(back)) :
            (front \o back)[i] = IF i <= Len(front) THEN front[i]
                                 ELSE back[i - Len(front)]
  BY <1>2, <1>3, ConcatProperties
<1>5. ASSUME NEW i \in 1..(Len(q) - 1)
      PROVE  (front \o back)[i] = IF i < o THEN q[i] ELSE q[i + 1]
  <2>1. CASE i < o
    BY <1>1, <1>2, <1>3, <1>4, <2>1
  <2>2. CASE ~(i < o)
    <3>1. (front \o back)[i] = back[i - (o - 1)]
      BY <1>1, <1>2, <1>3, <1>4, <2>2
    <3>2. i - (o - 1) \in 1..(Len(q) - o) /\ (i - (o - 1)) + o = i + 1
      BY <1>1, <2>2
    <3>3. back[i - (o - 1)] = q[(i - (o - 1)) + o]
      BY <1>3, <3>2
    <3> QED
      BY <2>2, <3>1, <3>2, <3>3
  <2> QED
    BY <2>1, <2>2
<1>6. Len(front \o back) = Len(q) - 1
  BY <1>1, <1>2, <1>3, <1>4
<1> QED
  BY <1>1, <1>4, <1>5, <1>6 DEF front, back

LEMMA PushEnd ==
    ASSUME NEW q \in Seq(Event), Ordered(q), Fits(q), NEW s \in Sessions
    PROVE  LET e == [kind |-> "end", session |-> s]
               p == Push(q, e)
           IN  /\ p = Append(q, e) /\ p \in Seq(Event) /\ Ordered(p) /\ Fits(p)
               /\ Heard(p) = Heard(q)
PROOF
<1> DEFINE e == [kind |-> "end", session |-> s]
<1>1. e \in Event /\ ~IsAudio(e)
  BY DEF Event, IsAudio
<1> HIDE DEF e
<1>2. Append(q, e) \in Seq(Event) /\ Heard(Append(q, e)) = Heard(q)
  <2>1. Append(q, e) \in Seq(Event)
    BY <1>1
  <2>2. Heard(Append(q, e)) = Heard(q) \union {}
    BY <1>1, HeardAppend
  <2> QED
    BY <2>1, <2>2
<1>3. Cardinality(Heard(q)) \in Nat /\ Cardinality(Heard(q)) <= Capacity /\ Capacity \in Nat
  BY FS_CardinalityType, PipelineAssumption DEF Fits
<1>4. Push(q, e) = Append(q, e)
  BY <1>2, <1>3 DEF Push
<1>5. Ordered(Append(q, e))
  BY <1>1, OrderedAppend
<1> QED
  BY <1>2, <1>4, <1>5 DEF Fits, e

LEMMA PushAudio ==
    ASSUME NEW q \in Seq(Event), Ordered(q), Fits(q), NEW s \in Sessions, NEW n \in Nat,
           \A b \in Heard(q) : b.session = s => b.number < n
    PROVE  LET p == Push(q, [kind |-> "audio", session |-> s, number |-> n])
           IN  /\ p \in Seq(Event) /\ Ordered(p) /\ Fits(p)
               /\ Heard(p) \subseteq Heard(q) \union {BufferOf(s, n)}
               /\ \A i \in DOMAIN q : q[i].kind = "end" =>
                     \E j \in DOMAIN p : p[j] = q[i]
PROOF
<1> DEFINE e == [kind |-> "audio", session |-> s, number |-> n]
           l == Append(q, e)
<1>1. e \in Event /\ IsAudio(e) /\ e.session = s /\ e.number = n
  BY DEF Event, IsAudio
<1>2. /\ l \in Seq(Event) /\ Len(l) \in Nat /\ DOMAIN l = 1..Len(l)
      /\ DOMAIN q \subseteq DOMAIN l /\ \A i \in DOMAIN q : l[i] = q[i]
  BY <1>1
<1>3. Heard(l) = Heard(q) \union {BufferOf(s, n)}
  BY <1>1, HeardAppend
<1>4. Ordered(l)
  BY <1>1, OrderedAppend
<1>5. BufferOf(s, n) \notin Heard(q)
  BY DEF BufferOf
<1> HIDE DEF e, l
<1>6. /\ Cardinality(Heard(q)) \in Nat /\ Cardinality(Heard(q)) <= Capacity
      /\ Capacity \in Nat /\ Capacity >= 1 /\ IsFiniteSet(Heard(q))
  BY FS_CardinalityType, PipelineAssumption DEF Fits
<1>7. IsFiniteSet(Heard(l)) /\ Cardinality(Heard(l)) = Cardinality(Heard(q)) + 1
  BY <1>3, <1>5, <1>6, FS_AddElement
<1>8. CASE ~(Cardinality(Heard(l)) > Capacity)
  <2>1. Push(q, e) = l
    BY <1>8 DEF Push, l
  <2>2. Fits(l)
    BY <1>6, <1>7, <1>8 DEF Fits
  <2> QED
    BY <1>2, <1>3, <1>4, <2>1, <2>2 DEF e
<1>9. CASE Cardinality(Heard(l)) > Capacity
  <2> DEFINE o == Oldest(l)
             p == SubSeq(l, 1, o - 1) \o SubSeq(l, o + 1, Len(l))
             A == {i \in DOMAIN l : IsAudio(l[i])}
  <2>1. o \in 1..Len(l) /\ IsAudio(l[o])
    <3>1. A \subseteq Nat /\ A # {}
      <4>1. BufferOf(s, n) \in Heard(l)
        BY <1>3
      <4>2. PICK i \in 1..Len(l) : IsAudio(l[i])
        BY <1>2, <4>1, InHeard
      <4> QED
        BY <1>2, <4>2
    <3>2. Min(A) \in A
      BY <3>1, LeastOf
    <3> QED
      BY <1>2, <3>2 DEF Oldest
  <2>2. Push(q, e) = p
    BY <1>9 DEF Push, l
  <2> HIDE DEF o, A
  <2>3. /\ p \in Seq(Event) /\ Len(p) = Len(l) - 1
        /\ \A i \in 1..(Len(l) - 1) : p[i] = IF i < o THEN l[i] ELSE l[i + 1]
    BY <1>2, <2>1, CutOut
  <2> HIDE DEF p
  <2>4. DOMAIN p = 1..(Len(l) - 1)
    BY <1>2, <2>3
  <2> DEFINE from(i) == IF i < o THEN i ELSE i + 1
  <2>5. \A i \in 1..(Len(l) - 1) :
            from(i) \in 1..Len(l) /\ from(i) # o /\ p[i] = l[from(i)]
    BY <1>2, <2>1, <2>3
  <2>6. \A i, j \in 1..(Len(l) - 1) : i < j => from(i) < from(j)
    BY <1>2, <2>1
  <2>7. ASSUME NEW k \in 1..Len(l), k # o
        PROVE  \E i \in 1..(Len(l) - 1) : p[i] = l[k]
    <3>1. CASE k < o
      BY <1>2, <2>1, <2>3, <3>1
    <3>2. CASE ~(k < o)
      <4>1. k - 1 \in 1..(Len(l) - 1) /\ ~(k - 1 < o) /\ (k - 1) + 1 = k
        BY <1>2, <2>1, <2>7, <3>2
      <4> QED
        BY <2>3, <4>1
    <3> QED
      BY <3>1, <3>2
  <2>8. Ordered(p)
    <3> SUFFICES ASSUME NEW i \in 1..(Len(l) - 1), NEW j \in 1..(Len(l) - 1), i < j,
                        IsAudio(p[i]), IsAudio(p[j]), p[i].session = p[j].session
                 PROVE  p[i].number < p[j].number
      BY <2>4 DEF Ordered
    <3> HIDE DEF from
    <3> QED
      BY <1>2, <1>4, <2>5, <2>6 DEF Ordered
  <2> DEFINE v == BufferOf(l[o].session, l[o].number)
  <2>9. Heard(p) \subseteq Heard(l) \ {v}
    <3> SUFFICES ASSUME NEW b \in Heard(p)
                 PROVE  b \in Heard(l) /\ b # v
      OBVIOUS
    <3>1. PICK i \in 1..(Len(l) - 1) : IsAudio(p[i]) /\ b = BufferOf(p[i].session, p[i].number)
      BY <2>3, InHeard
    <3>2. PICK k \in 1..Len(l) : k # o /\ p[i] = l[k]
      BY <2>5
    <3>3. b \in Heard(l)
      BY <1>2, <3>1, <3>2, InHeard
    <3>4. ASSUME b = v
          PROVE  FALSE
      <4>1. l[k].session = l[o].session /\ l[k].number = l[o].number /\ l[k].number \in Nat
        BY <1>2, <3>1, <3>2, <3>4, EventFields DEF BufferOf
      <4>2. k < o \/ o < k
        BY <1>2, <2>1, <3>2
      <4>3. l[k].number < l[k].number
        BY <1>2, <1>4, <2>1, <3>1, <3>2, <4>1, <4>2 DEF Ordered
      <4> QED
        BY <4>1, <4>3
    <3> QED
      BY <3>3, <3>4
  <2>10. Fits(p)
    <3>1. v \in Heard(l)
      BY <1>2, <2>1, InHeard
    <3>2. IsFiniteSet(Heard(l) \ {v}) /\ Cardinality(Heard(l) \ {v}) = Cardinality(Heard(l)) - 1
      BY <1>7, <3>1, FS_RemoveElement
    <3>3. IsFiniteSet(Heard(p)) /\ Cardinality(Heard(p)) <= Cardinality(Heard(l) \ {v})
      BY <2>9, <3>2, FS_Subset
    <3>4. Cardinality(Heard(p)) \in Nat /\ Cardinality(Heard(l)) \in Nat
      BY <1>7, <3>3, FS_CardinalityType
    <3> QED
      BY <1>6, <1>7, <3>2, <3>3, <3>4 DEF Fits
  <2>11. ASSUME NEW i \in DOMAIN q, q[i].kind = "end"
         PROVE  \E j \in DOMAIN p : p[j] = q[i]
    <3>1. i \in 1..Len(l) /\ l[i] = q[i] /\ i # o
      BY <1>2, <2>1, <2>11 DEF IsAudio
    <3> QED
      BY <2>4, <2>7, <3>1
  <2>12. Heard(p) \subseteq Heard(q) \union {BufferOf(s, n)}
    BY <1>3, <2>9
  <2> QED
    BY <2>2, <2>3, <2>8, <2>10, <2>11, <2>12 DEF e
<1> QED
  BY <1>8, <1>9

-----------------------------------------------------------------------------
(* Half-built turns, and the turns they become.                            *)

AudioOf(ts) == UNION {ts[i] : i \in DOMAIN ts}
AfterFirst(ts) == UNION {ts[i] : i \in {j \in DOMAIN ts : j > 1}}

LEMMA NoTurns == AudioOf(<<>>) = {} /\ \A s : GoodTurns(s, <<>>)
PROOF
BY DEF AudioOf, GoodTurns

LEMMA OneTurn ==
    ASSUME NEW s, NEW t \in SUBSET Buffers, t # {}, AllOf(s, t), Unbroken(t)
    PROVE  /\ <<t>> \in Seq(SUBSET Buffers)
           /\ GoodTurns(s, <<t>>) /\ AudioOf(<<t>>) = t
PROOF
<1>1. DOMAIN <<t>> = {1} /\ <<t>>[1] = t
  OBVIOUS
<1> QED
  BY <1>1 DEF GoodTurns, AudioOf

LEMMA TwoTurns ==
    ASSUME NEW s, NEW t \in SUBSET Buffers, NEW u \in SUBSET Buffers, t # {}, u # {},
           AllOf(s, t), AllOf(s, u), Unbroken(t), Unbroken(u), t \intersect u = {}
    PROVE  /\ <<t, u>> \in Seq(SUBSET Buffers)
           /\ GoodTurns(s, <<t, u>>) /\ AudioOf(<<t, u>>) = t \union u
PROOF
<1>1. DOMAIN <<t, u>> = {1, 2} /\ <<t, u>>[1] = t /\ <<t, u>>[2] = u
  OBVIOUS
<1>2. /\ \A i \in {1, 2} : <<t, u>>[i] = t \/ <<t, u>>[i] = u
      /\ \A i, j \in {1, 2} : i # j => <<t, u>>[i] \intersect <<t, u>>[j] = {}
  BY <1>1
<1>3. GoodTurns(s, <<t, u>>)
  BY <1>1, <1>2 DEF GoodTurns
<1>4. AudioOf(<<t, u>>) = t \union u
  BY <1>1 DEF AudioOf
<1> QED
  BY <1>3, <1>4

LEMMA RestOfTurns ==
    ASSUME NEW ts \in Seq(SUBSET Buffers), ts # <<>>, NEW s, GoodTurns(s, ts)
    PROVE  /\ Tail(ts) \in Seq(SUBSET Buffers) /\ Head(ts) \in SUBSET Buffers
           /\ GoodTurns(s, Tail(ts))
           /\ Head(ts) # {} /\ AllOf(s, Head(ts)) /\ Unbroken(Head(ts))
           /\ AudioOf(Tail(ts)) = AfterFirst(ts)
           /\ AfterFirst(ts) = AudioOf(ts) \ Head(ts)
           /\ Head(ts) \subseteq AudioOf(ts)
PROOF
<1> DEFINE r == Tail(ts)
<1>1. /\ Head(ts) = ts[1] /\ 1 \in 1..Len(ts) /\ Head(ts) \in SUBSET Buffers
      /\ r \in Seq(SUBSET Buffers) /\ Len(ts) \in Nat
      /\ DOMAIN ts = 1..Len(ts) /\ DOMAIN r = 1..(Len(ts) - 1)
      /\ \A i \in 1..(Len(ts) - 1) : r[i] = ts[i + 1]
  BY TailFacts
<1> HIDE DEF r
<1>2. \A i \in 1..(Len(ts) - 1) : i + 1 \in 1..Len(ts) /\ i + 1 > 1
  BY <1>1
<1>3. \A i \in 1..Len(ts) : i > 1 => i - 1 \in 1..(Len(ts) - 1) /\ r[i - 1] = ts[i]
  BY <1>1
<1>4. GoodTurns(s, r)
  <2>1. ASSUME NEW i \in 1..(Len(ts) - 1)
        PROVE  r[i] # {} /\ AllOf(s, r[i]) /\ Unbroken(r[i])
    BY <1>1, <1>2 DEF GoodTurns
  <2>2. ASSUME NEW i \in 1..(Len(ts) - 1), NEW j \in 1..(Len(ts) - 1), i # j
        PROVE  r[i] \intersect r[j] = {}
    <3>1. i + 1 # j + 1
      BY <1>1, <2>2
    <3> QED
      BY <1>1, <1>2, <3>1 DEF GoodTurns
  <2> QED
    BY <1>1, <2>1, <2>2 DEF GoodTurns
<1>5. AudioOf(r) = AfterFirst(ts)
  <2>1. ASSUME NEW b \in AudioOf(r)
        PROVE  b \in AfterFirst(ts)
    <3>1. PICK i \in 1..(Len(ts) - 1) : b \in r[i]
      BY <1>1 DEF AudioOf
    <3>2. i + 1 \in {j \in DOMAIN ts : j > 1} /\ b \in ts[i + 1]
      BY <1>1, <1>2, <3>1
    <3> QED
      BY <3>2 DEF AfterFirst
  <2>2. ASSUME NEW b \in AfterFirst(ts)
        PROVE  b \in AudioOf(r)
    <3>1. PICK j \in 1..Len(ts) : j > 1 /\ b \in ts[j]
      BY <1>1 DEF AfterFirst
    <3>2. j - 1 \in DOMAIN r /\ b \in r[j - 1]
      BY <1>1, <1>3, <3>1
    <3> QED
      BY <3>2 DEF AudioOf
  <2> QED
    BY <2>1, <2>2
<1>6. \A i \in 1..Len(ts) : i > 1 => ts[i] \intersect ts[1] = {}
  BY <1>1 DEF GoodTurns
<1>7. AfterFirst(ts) \intersect ts[1] = {}
  BY <1>1, <1>6 DEF AfterFirst
<1>8. AudioOf(ts) = AfterFirst(ts) \union ts[1]
  <2>1. \A i \in 1..Len(ts) : i = 1 \/ i > 1
    BY <1>1
  <2> QED
    BY <1>1, <2>1 DEF AfterFirst, AudioOf
<1> QED
  BY <1>1, <1>4, <1>5, <1>7, <1>8 DEF GoodTurns, r

LEMMA NoBufferIsUnbroken == Unbroken({}) /\ \A s : AllOf(s, {})
PROOF
BY DEF Unbroken, AllOf

(* A turn that ends with a session's last buffer goes on with the next.    *)
LEMMA Extended ==
    ASSUME NEW s \in Sessions, NEW n \in Nat, NEW T \in SUBSET Buffers,
           AllOf(s, T), Unbroken(T), T # {} => BufferOf(s, n) \in T,
           \A b \in T : b.number <= n,
           NEW m \in Nat, T # {} => m = n + 1
    PROVE  /\ AllOf(s, T \union {BufferOf(s, m)})
           /\ Unbroken(T \union {BufferOf(s, m)})
           /\ T \union {BufferOf(s, m)} \in SUBSET Buffers
PROOF
<1> DEFINE v == BufferOf(s, m)
           U == T \union {v}
<1>1. v.session = s /\ v.number = m /\ v \in Buffers
  BY DEF BufferOf, Buffers
<1>2. \A b \in T : b.number \in Nat /\ b.session = s
  BY DEF Buffers, AllOf
<1>3. ASSUME NEW b \in U, NEW c \in U, NEW k \in Nat, b.number <= k, k <= c.number
      PROVE  BufferOf(b.session, k) \in U
  <2>1. CASE k = m
    BY <1>1, <1>2, <2>1
  <2>2. CASE k # m
    <3>1. b \in T
      <4>1. CASE b = v
        <5>1. c \in T
          BY <1>1, <1>3, <2>2, <4>1
        <5>2. c.number <= n /\ m = n + 1 /\ c.number \in Nat
          BY <1>2, <5>1
        <5> QED
          BY <1>1, <1>3, <4>1, <5>2
      <4> QED
        BY <4>1
    <3>2. BufferOf(s, n) \in T /\ BufferOf(s, n).number = n
      BY <3>1 DEF BufferOf
    <3>3. k <= n
      BY <1>1, <1>2, <1>3, <2>2, <3>1
    <3> QED
      BY <1>2, <1>3, <3>1, <3>2, <3>3 DEF Unbroken
  <2> QED
    BY <2>1, <2>2
<1>4. Unbroken(U)
  BY <1>3 DEF Unbroken
<1> QED
  BY <1>1, <1>2, <1>4 DEF AllOf

LEMMA EntryFields ==
    ASSUME NEW e \in Entry
    PROVE  /\ e.last \in Nat /\ e.seq \in Nat
           /\ e.open \in SUBSET Buffers /\ e.pending \in SUBSET Buffers
           /\ e # NoEntry /\ Held(e) = e.open \union e.pending
           /\ Held(e) \in SUBSET Buffers
PROOF
BY NothingIsARecord DEF Entry, Held

LEMMA NewEntryFacts ==
    ASSUME NEW n \in Nat
    PROVE  /\ NewEntry(n) \in Entry /\ NewEntry(n).last = n
           /\ NewEntry(n).open = {} /\ NewEntry(n).pending = {}
PROOF
BY DEF NewEntry, Entry

(* What on_audio makes of an entry before its frames are segmented.        *)
LEMMA ReceivedFacts ==
    ASSUME NEW s \in Sessions, NEW n \in Nat, entry[s] \in Entry \union {NoEntry},
           entry[s] # NoEntry => GoodEntry(s, entry[s]) /\ entry[s].last < n
    PROVE  LET e == Received(s, n)
               f == [e EXCEPT !.open = @ \union {BufferOf(s, n)}]
           IN  /\ Held(e) \subseteq Held(entry[s])
               /\ e \in Entry
               /\ f \in Entry /\ f.last = n /\ GoodEntry(s, f)
               /\ Held(f) = Held(e) \union {BufferOf(s, n)}
PROOF
<1> DEFINE e == Received(s, n)
           v == BufferOf(s, n)
           f == [e EXCEPT !.open = @ \union {v}]
<1>1. v \in Buffers /\ v.session = s /\ v.number = n
  BY DEF Buffers, BufferOf
<1>2. /\ e \in Entry /\ e.last = n
      /\ AllOf(s, Held(e)) /\ Held(e) \subseteq Held(entry[s])
      /\ Unbroken(e.pending) /\ Unbroken(e.open) /\ Unbroken(Held(e))
      /\ e.open \intersect e.pending = {}
      /\ \A b \in Held(e) : b.number < n
      /\ AllOf(s, e.open \union {v}) /\ Unbroken(e.open \union {v})
      /\ Unbroken(Held(e) \union {v})
  <2>1. CASE entry[s] = NoEntry
    <3>1. e = NewEntry(n)
      BY <2>1 DEF Received
    <3>2. e \in Entry /\ e.last = n /\ e.open = {} /\ e.pending = {} /\ Held(e) = {}
      BY <3>1, NewEntryFacts, EntryFields
    <3>3. AllOf(s, {} \union {v}) /\ Unbroken({} \union {v})
      BY NoBufferIsUnbroken, Extended
    <3> QED
      BY <3>2, <3>3, NoBufferIsUnbroken
  <2>2. CASE entry[s] # NoEntry /\ n = entry[s].last + 1
    <3> DEFINE o == entry[s]
    <3>1. o \in Entry /\ GoodEntry(s, o) /\ o.last \in Nat
      BY <2>2, EntryFields
    <3>2. e = [o EXCEPT !.last = n]
      BY <2>2 DEF Received
    <3>3. /\ e \in Entry /\ e.last = n /\ e.open = o.open /\ e.pending = o.pending
          /\ Held(e) = Held(o)
      <4>1. /\ e \in Entry /\ e.last = n /\ e.open = o.open /\ e.pending = o.pending
        BY <3>1, <3>2 DEF Entry
      <4> QED
        BY <3>1, <4>1, EntryFields
    <3>4. \A b \in Held(o) : b.number \in Nat /\ b.number <= o.last
      BY <3>1, EntryFields DEF GoodEntry, Buffers
    <3>5. AllOf(s, o.open \union {v}) /\ Unbroken(o.open \union {v})
      <4>1. /\ o.open \in SUBSET Buffers /\ AllOf(s, o.open) /\ Unbroken(o.open)
            /\ (o.open # {} => BufferOf(s, o.last) \in o.open)
            /\ \A b \in o.open : b.number <= o.last
        BY <3>1, EntryFields DEF GoodEntry, AllOf
      <4> HIDE DEF o
      <4> QED
        BY <2>2, <3>1, <4>1, Extended DEF o
    <3>6. Unbroken(Held(o) \union {v})
      <4>1. /\ Held(o) \in SUBSET Buffers /\ AllOf(s, Held(o)) /\ Unbroken(Held(o))
            /\ (Held(o) # {} => BufferOf(s, o.last) \in Held(o))
            /\ \A b \in Held(o) : b.number <= o.last
        BY <3>1, EntryFields DEF GoodEntry
      <4> HIDE DEF o
      <4> QED
        BY <2>2, <3>1, <4>1, Extended DEF o
    <3>7. \A b \in Held(o) : b.number < n
      BY <2>2, <3>1, <3>4
    <3> QED
      BY <3>1, <3>3, <3>5, <3>6, <3>7 DEF GoodEntry
  <2>3. CASE entry[s] # NoEntry /\ n # entry[s].last + 1
    <3>1. e = [entry[s] EXCEPT !.last = n, !.open = {}, !.pending = {}] /\ entry[s] \in Entry
      BY <2>3 DEF Received
    <3>2. e \in Entry /\ e.last = n /\ e.open = {} /\ e.pending = {}
      BY <3>1 DEF Entry
    <3>3. Held(e) = {}
      BY <3>2, EntryFields
    <3>4. AllOf(s, {} \union {v}) /\ Unbroken({} \union {v})
      BY NoBufferIsUnbroken, Extended
    <3> QED
      BY <3>2, <3>3, <3>4, NoBufferIsUnbroken
  <2> QED
    BY <2>1, <2>2, <2>3
<1> HIDE DEF e, v
<1>3. /\ f \in Entry /\ f.last = n /\ f.open = e.open \union {v} /\ f.pending = e.pending
  <2>1. e.open \union {v} \in SUBSET Buffers
    BY <1>1, <1>2, EntryFields
  <2> QED
    BY <1>2, <2>1 DEF Entry
<1> HIDE DEF f
<1>4. Held(f) = Held(e) \union {v}
  BY <1>2, <1>3, EntryFields
<1>5. GoodEntry(s, f)
  <2>1. AllOf(s, Held(f)) /\ v \notin Held(e)
    BY <1>1, <1>2, <1>4 DEF AllOf
  <2>2. f.open \intersect f.pending = {}
    BY <1>2, <1>3, <2>1, EntryFields
  <2>3. \A b \in Held(f) : b.number <= f.last
    <3>1. \A b \in Held(e) : b.number \in Nat
      BY <1>2, EntryFields DEF Buffers
    <3> QED
      BY <1>1, <1>2, <1>3, <1>4, <3>1
  <2> QED
    BY <1>2, <1>3, <1>4, <2>1, <2>2, <2>3 DEF GoodEntry, v
<1> QED
  BY <1>2, <1>3, <1>4, <1>5 DEF e, f, v

(* A choice of the segmenter splits what was held into what is still held  *)
(* and the turns to be written.                                            *)
Splits(s, e, left, out) ==
    /\ left \in Entry /\ left.last = e.last /\ GoodEntry(s, left)
    /\ out \in Seq(SUBSET Buffers) /\ GoodTurns(s, out)
    /\ Held(left) \union AudioOf(out) = Held(e)
    /\ Held(left) \intersect AudioOf(out) = {}

LEMMA SegmentedFacts ==
    ASSUME NEW s \in Sessions, NEW e \in Entry, GoodEntry(s, e), NEW seg \in Segmented(e)
    PROVE  Splits(s, e, seg.left, seg.out)
PROOF
<1> DEFINE joined == e.pending \union e.open
<1>1. /\ e.open \in SUBSET Buffers /\ e.pending \in SUBSET Buffers
      /\ Held(e) = joined /\ joined \in SUBSET Buffers
      /\ e.last \in Nat
  BY EntryFields
<1>2. /\ AllOf(s, e.open) /\ AllOf(s, e.pending) /\ AllOf(s, joined)
      /\ Unbroken(e.open) /\ Unbroken(e.pending) /\ Unbroken(joined)
      /\ e.open \intersect e.pending = {}
      /\ \A b \in joined : b.number <= e.last
      /\ e.open # {} => BufferOf(s, e.last) \in e.open
      /\ joined # {} => BufferOf(s, e.last) \in joined
  BY <1>1 DEF GoodEntry, AllOf
<1>3. <<>> \in Seq(SUBSET Buffers) /\ AudioOf(<<>>) = {} /\ GoodTurns(s, <<>>)
  BY NoTurns
<1>4. CASE seg = [left |-> e, out |-> <<>>]
  BY <1>3, <1>4 DEF Splits
<1>5. CASE /\ e.pending # {}
           /\ seg = [left |-> [e EXCEPT !.pending = {}], out |-> <<e.pending>>]
  <2> DEFINE f == [e EXCEPT !.pending = {}]
  <2>1. f \in Entry /\ f.last = e.last /\ f.open = e.open /\ f.pending = {}
    BY DEF Entry
  <2>2. Held(f) = e.open
    BY <2>1, EntryFields
  <2> HIDE DEF f
  <2>3. GoodEntry(s, f)
    BY <1>2, <2>1, <2>2, NoBufferIsUnbroken DEF GoodEntry
  <2>4. /\ <<e.pending>> \in Seq(SUBSET Buffers) /\ GoodTurns(s, <<e.pending>>)
        /\ AudioOf(<<e.pending>>) = e.pending
    BY <1>1, <1>2, <1>5, OneTurn
  <2>5. seg.left = f /\ seg.out = <<e.pending>>
    BY <1>5 DEF f
  <2> QED
    BY <1>1, <1>2, <2>1, <2>2, <2>3, <2>4, <2>5 DEF Splits
<1>6. CASE /\ e.open # {}
           /\ seg = [left |-> [e EXCEPT !.open = {}, !.pending = joined], out |-> <<>>]
  <2> DEFINE f == [e EXCEPT !.open = {}, !.pending = joined]
  <2>1. f \in Entry /\ f.last = e.last /\ f.open = {} /\ f.pending = joined /\ Held(f) = joined
    <3>1. f \in Entry /\ f.last = e.last /\ f.open = {} /\ f.pending = joined
      BY <1>1 DEF Entry
    <3> QED
      BY <3>1, EntryFields
  <2>2. seg.left = f /\ seg.out = <<>>
    BY <1>6
  <2> HIDE DEF f
  <2>3. GoodEntry(s, f)
    BY <1>2, <2>1, NoBufferIsUnbroken DEF GoodEntry
  <2> QED
    BY <1>1, <1>3, <2>1, <2>2, <2>3 DEF Splits
<1>7. CASE /\ e.open # {}
           /\ seg = [left |-> [e EXCEPT !.open = {}, !.pending = {}], out |-> <<joined>>]
  <2> DEFINE f == [e EXCEPT !.open = {}, !.pending = {}]
  <2>1. f \in Entry /\ f.last = e.last /\ f.open = {} /\ f.pending = {} /\ Held(f) = {}
    <3>1. f \in Entry /\ f.last = e.last /\ f.open = {} /\ f.pending = {}
      BY DEF Entry
    <3> QED
      BY <3>1, EntryFields
  <2>2. seg.left = f /\ seg.out = <<joined>>
    BY <1>7
  <2> HIDE DEF f
  <2>3. GoodEntry(s, f)
    BY <2>1, NoBufferIsUnbroken DEF GoodEntry
  <2>4. joined # {}
    BY <1>7
  <2> HIDE DEF joined
  <2>5. /\ <<joined>> \in Seq(SUBSET Buffers) /\ GoodTurns(s, <<joined>>)
        /\ AudioOf(<<joined>>) = joined
    BY <1>1, <1>2, <2>4, OneTurn
  <2> QED
    BY <1>1, <2>1, <2>2, <2>3, <2>5 DEF Splits
<1>8. CASE /\ e.open # {} /\ e.pending # {}
           /\ seg = [left |-> [e EXCEPT !.open = {}, !.pending = e.open],
                     out |-> <<e.pending>>]
  <2> DEFINE f == [e EXCEPT !.open = {}, !.pending = e.open]
  <2>1. f \in Entry /\ f.last = e.last /\ f.open = {} /\ f.pending = e.open
    BY <1>1 DEF Entry
  <2>2. Held(f) = e.open
    BY <2>1, EntryFields
  <2>3. seg.left = f /\ seg.out = <<e.pending>>
    BY <1>8
  <2> HIDE DEF f
  <2>4. GoodEntry(s, f)
    BY <1>2, <2>1, <2>2, NoBufferIsUnbroken DEF GoodEntry
  <2>5. /\ <<e.pending>> \in Seq(SUBSET Buffers) /\ GoodTurns(s, <<e.pending>>)
        /\ AudioOf(<<e.pending>>) = e.pending
    BY <1>1, <1>2, <1>8, OneTurn
  <2> QED
    BY <1>1, <1>2, <2>1, <2>2, <2>3, <2>4, <2>5 DEF Splits
<1> QED
  BY <1>4, <1>5, <1>6, <1>7, <1>8 DEF Segmented

LEMMA Joined ==
    ASSUME NEW t, NEW u
    PROVE  <<t>> \o <<u>> = <<t, u>>
PROOF
<1> DEFINE c == <<t>> \o <<u>>
<1>1. /\ <<t>> \in Seq({t, u}) /\ <<u>> \in Seq({t, u}) /\ <<t, u>> \in Seq({t, u})
      /\ Len(<<t>>) = 1 /\ Len(<<u>>) = 1 /\ Len(<<t, u>>) = 2
      /\ <<t>>[1] = t /\ <<u>>[1] = u /\ <<t, u>>[1] = t /\ <<t, u>>[2] = u
  OBVIOUS
<1>2. /\ c \in Seq({t, u}) /\ Len(c) = Len(<<t>>) + Len(<<u>>)
      /\ \A i \in 1..(Len(<<t>>) + Len(<<u>>)) :
            c[i] = IF i <= Len(<<t>>) THEN <<t>>[i] ELSE <<u>>[i - Len(<<t>>)]
  BY <1>1, ConcatProperties
<1>3. Len(c) = 2 /\ c[1] = t /\ c[2] = u
  BY <1>1, <1>2
<1> HIDE DEF c
<1>4. \A i \in 1..Len(c) : c[i] = <<t, u>>[i]
  BY <1>1, <1>3
<1>5. c = <<t, u>>
  BY <1>1, <1>2, <1>3, <1>4, SeqEqual
<1> QED
  BY <1>5 DEF c

LEMMA LastTurnsFacts ==
    ASSUME NEW s \in Sessions, NEW e \in Entry, GoodEntry(s, e), NEW ts \in LastTurns(e)
    PROVE  ts \in Seq(SUBSET Buffers) /\ GoodTurns(s, ts) /\ AudioOf(ts) = Held(e)
PROOF
<1> DEFINE joined == e.pending \union e.open
<1>1. /\ e.open \in SUBSET Buffers /\ e.pending \in SUBSET Buffers
      /\ Held(e) = joined /\ joined \in SUBSET Buffers /\ e # NoEntry
  BY EntryFields
<1>2. /\ AllOf(s, e.open) /\ AllOf(s, e.pending) /\ AllOf(s, joined)
      /\ Unbroken(e.open) /\ Unbroken(e.pending) /\ Unbroken(joined)
      /\ e.open \intersect e.pending = {}
  BY <1>1 DEF GoodEntry, AllOf
<1> HIDE DEF joined
<1>3. <<>> \in Seq(SUBSET Buffers) /\ AudioOf(<<>>) = {} /\ GoodTurns(s, <<>>)
  BY NoTurns
<1>4. ts = TurnOf(e.pending) \o TurnOf(e.open) \/ ts = TurnOf(joined)
  BY <1>1 DEF LastTurns, joined
<1>5. CASE ts = TurnOf(joined)
  BY <1>1, <1>2, <1>3, <1>5, OneTurn DEF TurnOf
<1>6. CASE ts = TurnOf(e.pending) \o TurnOf(e.open)
  <2>1. CASE e.pending = {}
    <3>1. ts = TurnOf(e.open) /\ joined = e.open
      BY <1>6, <2>1 DEF TurnOf, joined
    <3> QED
      BY <1>1, <1>2, <1>3, <3>1, OneTurn DEF TurnOf
  <2>2. CASE e.open = {}
    <3>1. ts = TurnOf(e.pending) /\ joined = e.pending
      BY <1>6, <2>2 DEF TurnOf, joined
    <3> QED
      BY <1>1, <1>2, <1>3, <3>1, OneTurn DEF TurnOf
  <2>3. CASE e.open # {} /\ e.pending # {}
    <3>1. ts = <<e.pending, e.open>> /\ joined = e.pending \union e.open
      <4>1. ts = <<e.pending>> \o <<e.open>>
        BY <1>6, <2>3 DEF TurnOf
      <4> QED
        BY <4>1, Joined DEF joined
    <3> QED
      BY <1>1, <1>2, <2>3, <3>1, TwoTurns
  <2> QED
    BY <2>1, <2>2, <2>3
<1> QED
  BY <1>4, <1>5, <1>6

LEMMA FlushedFacts ==
    ASSUME NEW s, NEW e \in Entry
    PROVE  /\ Flushed(e) \in Entry /\ Flushed(e).last = e.last
           /\ GoodEntry(s, Flushed(e)) /\ Held(Flushed(e)) = {}
PROOF
<1> DEFINE f == [e EXCEPT !.open = {}, !.pending = {}]
<1>1. f \in Entry /\ f.last = e.last /\ f.open = {} /\ f.pending = {} /\ Held(f) = {}
  <2>1. f \in Entry /\ f.last = e.last /\ f.open = {} /\ f.pending = {}
    BY DEF Entry
  <2> QED
    BY <2>1, EntryFields
<1>2. Flushed(e) = f
  BY EntryFields DEF Flushed
<1> HIDE DEF f
<1> QED
  BY <1>1, <1>2, NoBufferIsUnbroken DEF GoodEntry

(* What is held over all sessions, when one of them changes.               *)
LEMMA HeldElsewhere ==
    ASSUME NEW es, DOMAIN es = Sessions, NEW s \in Sessions, NEW e,
           \A t \in Sessions : AllOf(t, Held(es[t])), AllOf(s, Held(e))
    PROVE  LET fs == [es EXCEPT ![s] = e] IN
           UNION {Held(fs[t]) : t \in Sessions}
             = ((UNION {Held(es[t]) : t \in Sessions}) \ Held(es[s])) \union Held(e)
PROOF
<1> DEFINE fs == [es EXCEPT ![s] = e]
<1>1. fs[s] = e /\ \A t \in Sessions : t # s => fs[t] = es[t]
  OBVIOUS
<1> HIDE DEF fs
<1>2. \A t \in Sessions : \A b \in Held(es[t]) : b.session = t
  BY DEF AllOf
<1>3. ASSUME NEW t \in Sessions, t # s, NEW b \in Held(es[t])
      PROVE  b \notin Held(es[s])
  BY <1>2, <1>3
<1> DEFINE after == UNION {Held(fs[t]) : t \in Sessions}
           before == UNION {Held(es[t]) : t \in Sessions}
<1>4. ASSUME NEW b
      PROVE  b \in after <=> b \in (before \ Held(es[s])) \union Held(e)
  <2>1. ASSUME NEW t \in Sessions, b \in Held(fs[t])
        PROVE  b \in Held(e) \/ (b \in Held(es[t]) /\ b \notin Held(es[s]))
    BY <1>1, <1>3, <2>1
  <2>2. ASSUME NEW t \in Sessions, b \in Held(es[t]), b \notin Held(es[s])
        PROVE  b \in Held(fs[t])
    BY <1>1, <2>2
  <2>3. b \in Held(e) => b \in Held(fs[s])
    BY <1>1
  <2>4. b \in after <=> \E t \in Sessions : b \in Held(fs[t])
    OBVIOUS
  <2>5. b \in before <=> \E t \in Sessions : b \in Held(es[t])
    OBVIOUS
  <2> HIDE DEF after, before
  <2> QED
    BY <2>1, <2>2, <2>3, <2>4, <2>5
<1> HIDE DEF after, before
<1>5. after = (before \ Held(es[s])) \union Held(e)
  BY <1>4
<1> QED
  BY <1>5 DEF fs, after, before

-----------------------------------------------------------------------------
(* Where the audio is.                                                     *)

AudioInv == TypeOK /\ QueueInv /\ EntryInv /\ JobInv /\ RowInv /\ PlaceInv

HandOf(ts, at) == UNION {ts[i] : i \in {j \in DOMAIN ts : j > 1 \/ at # "announce"}}

LEMMA HandFacts ==
    ASSUME NEW ts, NEW at
    PROVE  /\ at = "announce" => HandOf(ts, at) = AfterFirst(ts)
           /\ at # "announce" => HandOf(ts, at) = AudioOf(ts)
PROOF
BY DEF HandOf, AfterFirst, AudioOf

LEMMA SameAudio ==
    ASSUME AudioInv,
           UNCHANGED <<captured, queue, entry, job, turns, step, clips, segments, discarded>>
    PROVE  QueueInv' /\ EntryInv' /\ JobInv' /\ RowInv' /\ PlaceInv'
PROOF
<1>1. QueueInv'
  BY DEF AudioInv, QueueInv, Ordered, Fits, Heard, IsAudio
<1>2. EntryInv'
  BY DEF AudioInv, EntryInv, GoodEntry, Heard, IsAudio, AllOf, Unbroken, Held, BufferOf
<1>3. JobInv'
  BY DEF AudioInv, JobInv, GoodTurns, AllOf, Unbroken, Held, BufferOf, ClipOf, segment_path,
         FirstOf
<1>4. RowInv'
  BY DEF AudioInv, RowInv, GoodRow, AllOf, Unbroken, BufferOf
<1>5. PlaceInv'
  <2>1. /\ AllCaptured' = AllCaptured /\ HeldAll' = HeldAll /\ Stored' = Stored
        /\ Heard(queue)' = Heard(queue) /\ InHand' = InHand /\ discarded' = discarded
    BY DEF AllCaptured, HeldAll, Stored, Heard, Held, IsAudio, InHand
  <2> QED
    BY <2>1 DEF AudioInv, PlaceInv, Partition
<1> QED
  BY <1>1, <1>2, <1>3, <1>4, <1>5

LEMMA CapturedIs ==
    ASSUME NEW c \in [Sessions -> Nat], NEW b
    PROVE  b \in UNION {{[session |-> s, number |-> n] : n \in 1 .. c[s]} : s \in Sessions}
             <=> b \in Buffers /\ 1 <= b.number /\ b.number <= c[b.session]
PROOF
<1> DEFINE all == UNION {{[session |-> s, number |-> n] : n \in 1 .. c[s]} : s \in Sessions}
<1>1. b \in all <=> \E s \in Sessions : \E n \in 1 .. c[s] : b = [session |-> s, number |-> n]
  OBVIOUS
<1> HIDE DEF all
<1>2. ASSUME NEW s \in Sessions, NEW n \in 1 .. c[s], b = [session |-> s, number |-> n]
      PROVE  b \in Buffers /\ 1 <= b.number /\ b.number <= c[b.session]
  <2>1. c[s] \in Nat /\ n \in Nat
    OBVIOUS
  <2> QED
    BY <1>2, <2>1 DEF Buffers
<1>3. ASSUME b \in Buffers, 1 <= b.number, b.number <= c[b.session]
      PROVE  b \in all
  <2>1. b.session \in Sessions /\ b.number \in Nat /\ c[b.session] \in Nat
        /\ b = [session |-> b.session, number |-> b.number]
    BY <1>3 DEF Buffers
  <2> QED
    BY <1>1, <1>3, <2>1
<1> QED
  BY <1>1, <1>2, <1>3 DEF all

LEMMA QueueTypes ==
    ASSUME TypeOK, queue # <<>>
    PROVE  Head(queue) \in Event /\ Head(queue).session \in Sessions
             /\ Tail(queue) \in Seq(Event)
PROOF
<1>1. Head(queue) \in Event /\ Tail(queue) \in Seq(Event)
  BY DEF TypeOK
<1> QED
  BY <1>1, EventFields

LEMMA EntryTypes ==
    ASSUME TypeOK, NEW s \in Sessions
    PROVE  /\ entry[s] \in Entry \union {NoEntry} /\ DOMAIN entry = Sessions
           /\ entry[s] # NoEntry => entry[s] \in Entry
           /\ Held(entry[s]) \in SUBSET Buffers
PROOF
BY EntryFields DEF TypeOK, Held

LEMMA JobTypes ==
    ASSUME TypeOK, job # NoJob
    PROVE  job \in Job /\ job.session \in Sessions /\ job.ends \in BOOLEAN
PROOF
BY DEF TypeOK, Job

LEMMA NewJob ==
    ASSUME NEW s \in Sessions, NEW x \in BOOLEAN
    PROVE  LET j == [session |-> s, ends |-> x]
           IN  j \in Job /\ j # NoJob /\ j.session = s /\ j.ends = x
PROOF
BY NothingIsARecord DEF Job

(* A clip is named for its first buffer.                                   *)
LEMMA ClipFacts ==
    ASSUME AudioInv, job # NoJob, turns # <<>>
    PROVE  LET c == ClipOf(Head(turns)) IN
           /\ c \in Clip /\ c.audio = Head(turns)
           /\ c.path.session = job.session /\ GoodRow(c)
PROOF
<1> DEFINE t == Head(turns)
           c == ClipOf(t)
           e == entry[job.session]
           N == {b.number : b \in t}
<1>1. /\ t \in SUBSET Buffers /\ t # {} /\ AllOf(job.session, t) /\ Unbroken(t)
      /\ e # NoEntry /\ job.session \in Sessions
  BY RestOfTurns, JobTypes DEF AudioInv, JobInv, TypeOK
<1>2. e \in Entry /\ e.seq \in Nat
  BY <1>1, EntryTypes, EntryFields DEF AudioInv
<1> HIDE DEF t, e
<1>3. N \subseteq Nat /\ N # {}
  BY <1>1 DEF Buffers
<1>4. FirstOf(t) \in N /\ FirstOf(t) \in Nat
  BY <1>3, LeastOf DEF FirstOf
<1>5. PICK b \in t : b.number = FirstOf(t)
  BY <1>4
<1>6. b = BufferOf(job.session, FirstOf(t))
  BY <1>1, <1>5 DEF AllOf, Buffers, BufferOf
<1>7. /\ c.audio = t /\ c.path.session = job.session /\ c.path.start = FirstOf(t)
      /\ c.path.seq = e.seq
      /\ c = [path |-> [session |-> job.session, seq |-> e.seq, start |-> FirstOf(t)],
              audio |-> t]
  BY DEF ClipOf, segment_path, e
<1>8. c \in Clip
  BY <1>1, <1>2, <1>4, <1>7 DEF Clip
<1>9. GoodRow(c)
  BY <1>1, <1>5, <1>6, <1>7 DEF GoodRow
<1> QED
  BY <1>7, <1>8, <1>9 DEF t

-----------------------------------------------------------------------------
(* The steps of the capture thread.                                        *)

(* A change of the queue that leaves its audio where it is.                *)
LEMMA SameHeard ==
    ASSUME AudioInv, TypeOK', Ordered(queue'), Heard(queue') = Heard(queue),
           UNCHANGED <<captured, entry, job, turns, step, clips, segments, discarded>>
    PROVE  AudioInv'
PROOF
<1>1. QueueInv'
  BY DEF AudioInv, QueueInv, Fits
<1>2. EntryInv'
  BY DEF AudioInv, EntryInv
<1>3. JobInv'
  BY DEF AudioInv, JobInv, ClipOf
<1>4. RowInv'
  BY DEF AudioInv, RowInv
<1>5. PlaceInv'
  <2>1. /\ AllCaptured' = AllCaptured /\ HeldAll' = HeldAll /\ Stored' = Stored
        /\ Heard(queue)' = Heard(queue) /\ InHand' = InHand /\ discarded' = discarded
    BY DEF AllCaptured, HeldAll, Stored, InHand
  <2> QED
    BY <2>1 DEF AudioInv, PlaceInv
<1> QED
  BY <1>1, <1>2, <1>3, <1>4, <1>5 DEF AudioInv

(* The steps that move no audio.                                           *)
LEMMA QuietSteps ==
    ASSUME AudioInv,
           \/ \E s \in Sessions : OpenSession(s)
           \/ User \/ StopCapture \/ CloseQueue \/ Drained \/ Start
    PROVE  AudioInv'
PROOF
<1>1. TypeOK'
  <2>1. ASSUME NEW s \in Sessions, OpenSession(s)
        PROVE  TypeOK'
    BY <2>1 DEF OpenSession, AudioInv, TypeOK, work_vars
  <2>2. CASE User
    <3>1. /\ paused' \in BOOLEAN /\ since_pause' = 0
          /\ UNCHANGED <<captured, stream, queue, closed, entry, work_vars, flushing,
                         store_vars, daemon, failures, runs, discarded>>
      BY <2>2 DEF User, SetPaused, Resume
    <3> QED
      BY <3>1 DEF AudioInv, TypeOK, work_vars, store_vars
  <2>3. CASE StopCapture
    BY <2>3 DEF StopCapture, AudioInv, TypeOK, work_vars, store_vars
  <2>4. CASE CloseQueue
    BY <2>4 DEF CloseQueue, AudioInv, TypeOK, work_vars, store_vars
  <2>5. CASE Drained
    BY <2>5 DEF Drained, AudioInv, TypeOK, work_vars, store_vars
  <2>6. CASE Start
    BY <2>6 DEF Start, AudioInv, TypeOK, work_vars, store_vars
  <2> QED
    BY <2>1, <2>2, <2>3, <2>4, <2>5, <2>6
<1>2. UNCHANGED <<captured, queue, entry, job, turns, step, clips, segments, discarded>>
  BY DEF OpenSession, User, SetPaused, Resume, StopCapture, CloseQueue, Drained, Start,
         work_vars, store_vars
<1> QED
  BY <1>1, <1>2, SameHeard DEF AudioInv, QueueInv

LEMMA EndSteps ==
    ASSUME AudioInv, NEW s \in Sessions, EndSession(s) \/ StopMic(s)
    PROVE  AudioInv'
PROOF
<1>1. /\ queue' = Push(queue, [kind |-> "end", session |-> s])
      /\ stream' = [stream EXCEPT ![s] = "over"]
      /\ UNCHANGED <<captured, closed, paused, entry, job, turns, step, flushing, row,
                     clips, segments, daemon, failures, runs, discarded, since_pause>>
  BY DEF EndSession, StopMic, work_vars, store_vars
<1>2. queue' \in Seq(Event) /\ Ordered(queue') /\ Heard(queue') = Heard(queue)
  BY <1>1, PushEnd DEF AudioInv, QueueInv, TypeOK
<1>3. TypeOK'
  BY <1>1, <1>2 DEF AudioInv, TypeOK
<1> QED
  BY <1>1, <1>2, <1>3, SameHeard

(* Every buffer in a place is one that was captured.                       *)
LEMMA PlacesAreCaptured ==
    ASSUME AudioInv
    PROVE  /\ Heard(queue) \subseteq AllCaptured /\ HeldAll \subseteq AllCaptured
           /\ InHand \subseteq AllCaptured /\ Stored \subseteq AllCaptured
           /\ discarded \subseteq AllCaptured
           /\ \A b \in AllCaptured : /\ b \in Buffers
                                     /\ b.number <= captured[b.session]
PROOF
<1>1. \A b : b \in AllCaptured <=> b \in Buffers /\ 1 <= b.number /\ b.number <= captured[b.session]
  BY CapturedIs DEF AllCaptured, AudioInv, TypeOK
<1> QED
  BY <1>1 DEF AudioInv, PlaceInv, Partition

LEMMA CaptureStep ==
    ASSUME AudioInv, NEW s \in Sessions, Capture(s)
    PROVE  AudioInv'
PROOF
<1> DEFINE n == captured[s] + 1
           v == BufferOf(s, n)
           p == Push(queue, [kind |-> "audio", session |-> s, number |-> n])
<1>1. captured \in [Sessions -> Nat] /\ n \in Nat /\ queue \in Seq(Event)
  BY DEF AudioInv, TypeOK
<1>2. /\ captured' = [captured EXCEPT ![s] = n] /\ queue' = p
      /\ discarded' = discarded \union ((Heard(queue) \union {v}) \ Heard(p))
      /\ UNCHANGED <<stream, closed, paused, entry, job, turns, step, flushing,
                     row, clips, segments, daemon, failures, runs, since_pause>>
  BY DEF Capture, work_vars, store_vars, BufferOf
<1>3. v \in Buffers /\ v.session = s /\ v.number = n
  BY <1>1 DEF BufferOf, Buffers
<1>4. \A b \in Heard(queue) : b.session = s => b.number < n
  <2>1. ASSUME NEW b \in Heard(queue), b.session = s
        PROVE  b.number < n
    <3>1. b.number \in Nat /\ b.number <= captured[s] /\ captured[s] \in Nat
      BY <1>1, <2>1, PlacesAreCaptured DEF Buffers
    <3> QED
      BY <3>1
  <2> QED
    BY <2>1
<1>5. /\ p \in Seq(Event) /\ Ordered(p) /\ Fits(p)
      /\ Heard(p) \subseteq Heard(queue) \union {v}
  BY <1>1, <1>4, PushAudio DEF AudioInv, QueueInv
<1> HIDE DEF n, v, p
<1>6. v \notin AllCaptured
  <2>1. captured[s] \in Nat /\ n = captured[s] + 1
    BY <1>1 DEF n
  <2>2. v \in AllCaptured => v.number <= captured[v.session]
    BY PlacesAreCaptured
  <2> QED
    BY <1>3, <2>1, <2>2
<1>7. AllCaptured' = AllCaptured \union {v}
  <2>1. captured' \in [Sessions -> Nat] /\ captured'[s] = captured[s] + 1
        /\ \A t \in Sessions : t # s => captured'[t] = captured[t]
    BY <1>1, <1>2 DEF n
  <2>2. ASSUME NEW b
        PROVE  b \in AllCaptured' <=> b \in AllCaptured \union {v}
    <3>1. b \in AllCaptured' <=> b \in Buffers /\ 1 <= b.number /\ b.number <= captured'[b.session]
      BY <2>1, CapturedIs DEF AllCaptured
    <3>2. b \in AllCaptured <=> b \in Buffers /\ 1 <= b.number /\ b.number <= captured[b.session]
      BY <1>1, CapturedIs DEF AllCaptured
    <3>3. CASE b \in Buffers /\ b.session = s
      <4>1. b.number \in Nat /\ captured[s] \in Nat
        BY <1>1, <3>3 DEF Buffers
      <4>2. b = v <=> b.number = captured[s] + 1
        BY <3>3 DEF v, n, BufferOf, Buffers
      <4> QED
        BY <2>1, <3>1, <3>2, <3>3, <4>1, <4>2
    <3>4. CASE b \in Buffers /\ b.session # s
      <4>1. b.session \in Sessions /\ b # v
        BY <1>3, <3>4 DEF Buffers
      <4> QED
        BY <2>1, <3>1, <3>2, <3>4, <4>1
    <3> QED
      BY <1>3, <3>1, <3>2, <3>3, <3>4
  <2> QED
    BY <2>2
<1>8. TypeOK'
  <2>1. discarded' \subseteq Buffers
    BY <1>1, <1>2, <1>3, HeardIsBuffers DEF AudioInv, TypeOK
  <2> QED
    BY <1>1, <1>2, <1>5, <2>1 DEF AudioInv, TypeOK
<1>9. QueueInv'
  BY <1>2, <1>5 DEF QueueInv
<1>10. EntryInv'
  <2> SUFFICES ASSUME NEW t \in Sessions, entry[t] # NoEntry
               PROVE  /\ GoodEntry(t, entry[t]) /\ entry[t].last <= captured'[t]
                      /\ \A b \in Heard(queue') : b.session = t => entry[t].last < b.number
    BY <1>2 DEF EntryInv
  <2>1. /\ GoodEntry(t, entry[t]) /\ entry[t].last <= captured[t]
        /\ \A b \in Heard(queue) : b.session = t => entry[t].last < b.number
    BY DEF AudioInv, EntryInv
  <2>2. entry[t].last \in Nat /\ captured[t] \in Nat
    BY <1>1, EntryTypes, EntryFields DEF AudioInv
  <2>3. captured'[t] = IF t = s THEN captured[t] + 1 ELSE captured[t]
    BY <1>1, <1>2 DEF n
  <2>4. t = s => entry[t].last < n
    BY <2>1, <2>2 DEF n
  <2> QED
    BY <1>2, <1>3, <1>5, <2>1, <2>2, <2>3, <2>4
<1>11. JobInv' /\ RowInv'
  BY <1>2 DEF AudioInv, JobInv, RowInv, ClipOf
<1>12. PlaceInv'
  <2>1. HeldAll' = HeldAll /\ InHand' = InHand /\ Stored' = Stored
    BY <1>2 DEF HeldAll, InHand, Stored
  <2> QED
    BY <1>2, <1>5, <1>6, <1>7, <2>1, PlacesAreCaptured DEF AudioInv, PlaceInv, Partition
<1> QED
  BY <1>8, <1>9, <1>10, <1>11, <1>12 DEF AudioInv

-----------------------------------------------------------------------------
(* The steps of the inference thread that take audio off the queue.        *)

LEMMA HeldAllIs ==
    ASSUME AudioInv, NEW s \in Sessions, NEW e, AllOf(s, Held(e)),
           entry' = [entry EXCEPT ![s] = e]
    PROVE  /\ HeldAll' = (HeldAll \ Held(entry[s])) \union Held(e)
           /\ Held(entry[s]) \subseteq HeldAll
           /\ entry'[s] = e /\ \A t \in Sessions : t # s => entry'[t] = entry[t]
PROOF
<1>1. DOMAIN entry = Sessions
  BY EntryTypes DEF AudioInv
<1>2. \A t \in Sessions : AllOf(t, Held(entry[t]))
  BY DEF AudioInv, EntryInv, GoodEntry, Held, AllOf
<1>3. HeldAll' = ((UNION {Held(entry[t]) : t \in Sessions}) \ Held(entry[s])) \union Held(e)
  BY <1>1, <1>2, HeldElsewhere DEF HeldAll
<1> QED
  BY <1>1, <1>3 DEF HeldAll

LEMMA NothingInHand ==
    ASSUME AudioInv, job = NoJob
    PROVE  turns = <<>> /\ step = "pick" /\ InHand = {}
PROOF
BY DEF AudioInv, JobInv, TypeOK, InHand

LEMMA HandIs ==
    /\ InHand = HandOf(turns, step)
    /\ InHand' = HandOf(turns', step')
PROOF
BY DEF InHand, HandOf

LEMMA DiscardStep ==
    ASSUME AudioInv, DiscardBuffer
    PROVE  AudioInv'
PROOF
<1> DEFINE s == Head(queue).session
           v == Heard(<<Head(queue)>>)
<1>1. /\ s \in Sessions /\ job = NoJob /\ queue # <<>>
      /\ entry' = [entry EXCEPT ![s] = NoEntry]
      /\ discarded' = discarded \union Held(entry[s]) \union v
      /\ queue' = Tail(queue)
      /\ UNCHANGED <<captured, stream, closed, paused, job, turns, step, flushing,
                     row, clips, segments, daemon, failures, runs, since_pause>>
  BY QueueTypes DEF DiscardBuffer, NextIs, AudioInv, work_vars, store_vars
<1>2. /\ Tail(queue) \in Seq(Event) /\ Ordered(Tail(queue)) /\ Fits(Tail(queue))
      /\ Heard(Tail(queue)) = Heard(queue) \ v /\ v \subseteq Heard(queue)
  BY <1>1, PopFacts DEF AudioInv, QueueInv, TypeOK
<1> HIDE DEF s, v
<1>3. Held(NoEntry) = {} /\ AllOf(s, Held(NoEntry))
  BY NoBufferIsUnbroken DEF Held
<1>4. /\ HeldAll' = HeldAll \ Held(entry[s]) /\ Held(entry[s]) \subseteq HeldAll
      /\ entry'[s] = NoEntry /\ \A t \in Sessions : t # s => entry'[t] = entry[t]
  <2>1. HeldAll' = (HeldAll \ Held(entry[s])) \union Held(NoEntry)
    BY <1>1, <1>3, HeldAllIs
  <2>2. /\ Held(entry[s]) \subseteq HeldAll
        /\ entry'[s] = NoEntry /\ \A t \in Sessions : t # s => entry'[t] = entry[t]
    BY <1>1, <1>3, HeldAllIs
  <2> QED
    BY <1>3, <2>1, <2>2
<1>5. TypeOK'
  <2>1. discarded' \subseteq Buffers
    <3>1. v \subseteq Buffers /\ Held(entry[s]) \subseteq Buffers /\ discarded \subseteq Buffers
      BY <1>1, <1>2, HeardIsBuffers, EntryTypes DEF AudioInv, TypeOK
    <3> QED
      BY <1>1, <3>1
  <2> QED
    BY <1>1, <1>2, <2>1 DEF AudioInv, TypeOK
<1>6. QueueInv'
  BY <1>1, <1>2 DEF QueueInv
<1>7. EntryInv'
  <2> SUFFICES ASSUME NEW t \in Sessions, entry'[t] # NoEntry
               PROVE  /\ GoodEntry(t, entry'[t]) /\ entry'[t].last <= captured[t]
                      /\ \A b \in Heard(queue') : b.session = t => entry'[t].last < b.number
    BY <1>1 DEF EntryInv
  <2>1. t # s /\ entry'[t] = entry[t]
    BY <1>4
  <2> QED
    BY <1>1, <1>2, <2>1 DEF AudioInv, EntryInv
<1>8. JobInv'
  BY <1>1, NothingInHand DEF JobInv
<1>9. RowInv'
  BY <1>1 DEF AudioInv, RowInv
<1>10. PlaceInv'
  <2>1. AllCaptured' = AllCaptured /\ InHand' = InHand /\ Stored' = Stored
    BY <1>1 DEF AllCaptured, InHand, Stored
  <2> QED
    BY <1>1, <1>2, <1>4, <2>1 DEF AudioInv, PlaceInv, Partition
<1> QED
  BY <1>5, <1>6, <1>7, <1>8, <1>9, <1>10 DEF AudioInv

LEMMA OnAudioStep ==
    ASSUME AudioInv, OnAudio
    PROVE  AudioInv'
PROOF
<1> DEFINE s == Head(queue).session
           n == Head(queue).number
           v == BufferOf(s, n)
           e == Received(s, n)
           f == [e EXCEPT !.open = @ \union {v}]
<1>1. /\ s \in Sessions /\ n \in Nat /\ Heard(<<Head(queue)>>) = {v}
      /\ queue # <<>> /\ job = NoJob
      /\ Tail(queue) \in Seq(Event) /\ Ordered(Tail(queue)) /\ Fits(Tail(queue))
      /\ Heard(Tail(queue)) = Heard(queue) \ {v} /\ v \in Heard(queue)
      /\ \A b \in Heard(Tail(queue)) : b.session = s => n < b.number
  <2>1. queue # <<>> /\ job = NoJob /\ IsAudio(Head(queue))
    BY DEF OnAudio, NextIs, IsAudio
  <2>2. Head(queue) \in Event /\ s \in Sessions /\ n \in Nat
    BY <2>1, QueueTypes, EventFields DEF AudioInv
  <2> QED
    BY <2>1, <2>2, PopFacts DEF AudioInv, QueueInv, TypeOK
<1>2. PICK seg \in Segmented(f) :
        /\ entry' = [entry EXCEPT ![s] = seg.left]
        /\ turns' = seg.out
        /\ job' = [session |-> s, ends |-> FALSE]
        /\ discarded' = discarded \union (Held(entry[s]) \ Held(e))
  BY <1>1 DEF OnAudio
<1>3. /\ queue' = Tail(queue)
      /\ UNCHANGED <<captured, stream, closed, paused, step, flushing, row, clips,
                     segments, daemon, failures, runs, since_pause>>
  BY DEF OnAudio, store_vars
<1>4. v.session = s /\ v.number = n
  BY DEF BufferOf
<1>5. /\ entry[s] \in Entry \union {NoEntry}
      /\ entry[s] # NoEntry => GoodEntry(s, entry[s]) /\ entry[s].last < n
      /\ n <= captured[s]
  BY <1>1, <1>4, EntryTypes, PlacesAreCaptured DEF AudioInv, EntryInv
<1>6. /\ Held(e) \subseteq Held(entry[s]) /\ f \in Entry /\ f.last = n /\ GoodEntry(s, f)
      /\ Held(f) = Held(e) \union {v}
  BY <1>1, <1>5, ReceivedFacts
<1> HIDE DEF s, n, v, e, f
<1>7. Splits(s, f, seg.left, seg.out)
  BY <1>1, <1>6, SegmentedFacts
<1>8. /\ seg.left \in Entry /\ seg.left # NoEntry /\ seg.left.last = n
      /\ GoodEntry(s, seg.left)
      /\ seg.out \in Seq(SUBSET Buffers) /\ GoodTurns(s, seg.out)
      /\ Held(seg.left) \union AudioOf(seg.out) = Held(e) \union {v}
      /\ Held(seg.left) \intersect AudioOf(seg.out) = {}
      /\ AllOf(s, Held(seg.left))
  BY <1>6, <1>7, EntryFields DEF Splits, GoodEntry
<1>9. /\ HeldAll' = (HeldAll \ Held(entry[s])) \union Held(seg.left)
      /\ Held(entry[s]) \subseteq HeldAll
      /\ entry'[s] = seg.left /\ \A t \in Sessions : t # s => entry'[t] = entry[t]
  BY <1>1, <1>2, <1>8, HeldAllIs
<1>10. job' \in Job /\ job' # NoJob /\ job'.session = s /\ job'.ends = FALSE
  BY <1>1, <1>2, NewJob
<1>11. turns = <<>> /\ step = "pick" /\ InHand = {} /\ step' = "pick"
  BY <1>1, <1>3, NothingInHand
<1>12. TypeOK'
  <2>1. discarded' \subseteq Buffers
    <3>1. Held(entry[s]) \subseteq Buffers /\ discarded \subseteq Buffers
      BY <1>1, EntryTypes DEF AudioInv, TypeOK
    <3> QED
      BY <1>2, <3>1
  <2> QED
    BY <1>1, <1>2, <1>3, <1>8, <1>10, <2>1 DEF AudioInv, TypeOK
<1>13. QueueInv'
  BY <1>1, <1>3 DEF QueueInv
<1>14. EntryInv'
  <2> SUFFICES ASSUME NEW t \in Sessions, entry'[t] # NoEntry
               PROVE  /\ GoodEntry(t, entry'[t]) /\ entry'[t].last <= captured[t]
                      /\ \A b \in Heard(queue') : b.session = t => entry'[t].last < b.number
    BY <1>3 DEF EntryInv
  <2>1. CASE t = s
    BY <1>1, <1>3, <1>5, <1>8, <1>9, <2>1
  <2>2. CASE t # s
    BY <1>1, <1>3, <1>9, <2>2 DEF AudioInv, EntryInv
  <2> QED
    BY <2>1, <2>2
<1>15. JobInv'
  BY <1>2, <1>8, <1>9, <1>10, <1>11 DEF JobInv
<1>16. RowInv'
  BY <1>3 DEF AudioInv, RowInv
<1>17. PlaceInv'
  <2>1. AllCaptured' = AllCaptured /\ Stored' = Stored
    BY <1>3 DEF AllCaptured, Stored
  <2>2. InHand' = AudioOf(seg.out)
    BY <1>2, <1>11, HandIs, HandFacts
  <2>3. Held(seg.left) \subseteq Held(e) \union {v} /\ AudioOf(seg.out) \subseteq Held(e) \union {v}
    BY <1>8
  <2> QED
    BY <1>1, <1>2, <1>3, <1>6, <1>8, <1>9, <1>11, <2>1, <2>2, <2>3
       DEF AudioInv, PlaceInv, Partition
<1> QED
  BY <1>12, <1>13, <1>14, <1>15, <1>16, <1>17 DEF AudioInv

(* A session's end, popped or flushed.                                     *)
LEMMA StartEndingStep ==
    ASSUME AudioInv, NEW s \in Sessions, job = NoJob, StartEnding(s),
           queue' \in Seq(Event), Ordered(queue'), Heard(queue') = Heard(queue),
           UNCHANGED <<captured, stream, closed, paused, step, flushing, row, clips,
                       segments, daemon, failures, runs, discarded, since_pause>>
    PROVE  AudioInv'
PROOF
<1> DEFINE e == entry[s]
           g == Flushed(e)
<1>1. PICK ts \in LastTurns(e) : turns' = ts
  BY DEF StartEnding
<1>2. /\ entry' = [entry EXCEPT ![s] = g]
      /\ job' \in Job /\ job' # NoJob /\ job'.session = s /\ job'.ends = TRUE
  <2>1. entry' = [entry EXCEPT ![s] = g] /\ job' = [session |-> s, ends |-> TRUE]
    BY DEF StartEnding
  <2> QED
    BY <2>1, NewJob
<1>3. /\ e \in Entry \union {NoEntry}
      /\ e # NoEntry => e \in Entry /\ GoodEntry(s, e) /\ e.last <= captured[s]
      /\ \A b \in Heard(queue) : b.session = s /\ e # NoEntry => e.last < b.number
  BY EntryTypes DEF AudioInv, EntryInv
<1>4. /\ ts \in Seq(SUBSET Buffers) /\ GoodTurns(s, ts) /\ AudioOf(ts) = Held(e)
      /\ e = NoEntry => ts = <<>>
  <2>1. CASE e = NoEntry
    <3>1. ts = <<>> /\ Held(e) = {}
      BY <1>1, <2>1 DEF LastTurns, Held
    <3> QED
      BY <3>1, NoTurns
  <2>2. CASE e # NoEntry
    BY <1>1, <1>3, <2>2, LastTurnsFacts
  <2> QED
    BY <2>1, <2>2
<1>5. /\ g \in Entry \union {NoEntry} /\ Held(g) = {} /\ AllOf(s, Held(g))
      /\ e = NoEntry <=> g = NoEntry
      /\ g # NoEntry => GoodEntry(s, g) /\ g.last = e.last
  <2>1. CASE e = NoEntry
    <3>1. g = NoEntry /\ Held(g) = {}
      BY <2>1 DEF Flushed, Held
    <3> QED
      BY <2>1, <3>1, NoBufferIsUnbroken
  <2>2. CASE e # NoEntry
    BY <1>3, <2>2, FlushedFacts, EntryFields, NoBufferIsUnbroken
  <2> QED
    BY <2>1, <2>2
<1> HIDE DEF e, g
<1>6. /\ HeldAll' = HeldAll \ Held(e) /\ Held(e) \subseteq HeldAll
      /\ entry'[s] = g /\ \A t \in Sessions : t # s => entry'[t] = entry[t]
  BY <1>2, <1>5, HeldAllIs DEF e
<1>7. step = "pick" /\ InHand = {}
  BY NothingInHand
<1>8. TypeOK'
  BY <1>1, <1>2, <1>4, <1>5, <1>7 DEF AudioInv, TypeOK
<1>9. QueueInv'
  BY DEF AudioInv, QueueInv, Fits
<1>10. EntryInv'
  <2> SUFFICES ASSUME NEW t \in Sessions, entry'[t] # NoEntry
               PROVE  /\ GoodEntry(t, entry'[t]) /\ entry'[t].last <= captured[t]
                      /\ \A b \in Heard(queue) : b.session = t => entry'[t].last < b.number
    BY DEF EntryInv
  <2>1. CASE t = s
    BY <1>3, <1>5, <1>6, <2>1
  <2>2. CASE t # s
    BY <1>6, <2>2 DEF AudioInv, EntryInv
  <2> QED
    BY <2>1, <2>2
<1>11. JobInv'
  BY <1>1, <1>2, <1>4, <1>5, <1>6, <1>7 DEF JobInv
<1>12. RowInv'
  BY DEF AudioInv, RowInv
<1>13. PlaceInv'
  <2>1. AllCaptured' = AllCaptured /\ Stored' = Stored
    BY DEF AllCaptured, Stored
  <2>2. InHand' = Held(e)
    BY <1>1, <1>4, <1>7, HandIs, HandFacts
  <2> QED
    BY <1>6, <1>7, <2>1, <2>2 DEF AudioInv, PlaceInv, Partition
<1> QED
  BY <1>8, <1>9, <1>10, <1>11, <1>12, <1>13 DEF AudioInv

LEMMA OnSessionEndStep ==
    ASSUME AudioInv, OnSessionEnd
    PROVE  AudioInv'
PROOF
<1> DEFINE s == Head(queue).session
<1>1. s \in Sessions /\ job = NoJob /\ queue # <<>> /\ ~IsAudio(Head(queue))
  BY QueueTypes DEF OnSessionEnd, NextIs, AudioInv, IsAudio
<1>2. /\ queue' = Tail(queue) /\ StartEnding(s)
      /\ UNCHANGED <<captured, stream, closed, paused, step, flushing, row, clips,
                     segments, daemon, failures, runs, discarded, since_pause>>
  BY DEF OnSessionEnd, store_vars
<1>3. /\ queue' \in Seq(Event) /\ Ordered(queue') /\ Heard(queue') = Heard(queue)
  <2>1. /\ Tail(queue) \in Seq(Event) /\ Ordered(Tail(queue))
        /\ Heard(Tail(queue)) = Heard(queue) \ Heard(<<Head(queue)>>)
        /\ Heard(<<Head(queue)>>) = {}
    BY <1>1, PopFacts DEF AudioInv, QueueInv, TypeOK
  <2> QED
    BY <1>2, <2>1
<1> HIDE DEF s
<1> QED
  BY <1>1, <1>2, <1>3, StartEndingStep

LEMMA FlushSessionStep ==
    ASSUME AudioInv, NEW s \in Sessions, FlushSession(s)
    PROVE  AudioInv'
PROOF
<1>1. /\ job = NoJob /\ StartEnding(s)
      /\ UNCHANGED <<captured, stream, queue, closed, paused, step, flushing, row, clips,
                     segments, daemon, failures, runs, discarded, since_pause>>
  BY DEF FlushSession, store_vars
<1>2. queue' \in Seq(Event) /\ Ordered(queue') /\ Heard(queue') = Heard(queue)
  BY <1>1 DEF AudioInv, QueueInv, TypeOK
<1> QED
  BY <1>1, <1>2, StartEndingStep

-----------------------------------------------------------------------------
(* The steps of the inference thread that write a turn.                    *)

LEMMA InTheMiddle ==
    ASSUME AudioInv, turns # <<>>
    PROVE  /\ job # NoJob /\ job.session \in Sessions
           /\ entry[job.session] \in Entry /\ entry[job.session] # NoEntry
           /\ GoodTurns(job.session, turns)
           /\ Tail(turns) \in Seq(SUBSET Buffers) /\ Head(turns) \in SUBSET Buffers
           /\ GoodTurns(job.session, Tail(turns))
           /\ Head(turns) # {}
           /\ AudioOf(Tail(turns)) = AfterFirst(turns)
           /\ AfterFirst(turns) = AudioOf(turns) \ Head(turns)
           /\ Head(turns) \subseteq AudioOf(turns)
PROOF
<1>1. /\ job # NoJob /\ job.session \in Sessions
      /\ entry[job.session] \in Entry /\ entry[job.session] # NoEntry
      /\ GoodTurns(job.session, turns) /\ turns \in Seq(SUBSET Buffers)
  BY JobTypes, EntryTypes DEF AudioInv, JobInv, TypeOK
<1> QED
  BY <1>1, RestOfTurns

LEMMA SkipTurnStep ==
    ASSUME AudioInv, SkipTurn
    PROVE  AudioInv'
PROOF
<1>1. /\ job # NoJob /\ turns # <<>> /\ step = "pick"
      /\ turns' = Tail(turns) /\ discarded' = discarded \union Head(turns)
      /\ UNCHANGED <<captured, stream, queue, closed, paused, entry, job, step, flushing,
                     row, clips, segments, daemon, failures, runs, since_pause>>
  BY DEF SkipTurn, Writing, store_vars
<1>2. TypeOK'
  BY <1>1, InTheMiddle DEF AudioInv, TypeOK
<1>3. QueueInv' /\ EntryInv' /\ RowInv'
  BY <1>1 DEF AudioInv, QueueInv, EntryInv, RowInv
<1>4. JobInv'
  BY <1>1, InTheMiddle DEF AudioInv, JobInv
<1>5. PlaceInv'
  <2>1. /\ AllCaptured' = AllCaptured /\ Stored' = Stored /\ HeldAll' = HeldAll
        /\ Heard(queue') = Heard(queue)
    BY <1>1 DEF AllCaptured, Stored, HeldAll
  <2>2. /\ InHand = AudioOf(turns) /\ InHand' = InHand \ Head(turns)
        /\ Head(turns) \subseteq InHand
    BY <1>1, InTheMiddle, HandIs, HandFacts
  <2> QED
    BY <1>1, <2>1, <2>2 DEF AudioInv, PlaceInv, Partition
<1> QED
  BY <1>2, <1>3, <1>4, <1>5 DEF AudioInv

LEMMA PickTurnStep ==
    ASSUME AudioInv, PickTurn
    PROVE  AudioInv'
PROOF
<1> DEFINE s == job.session
           e == [entry[s] EXCEPT !.seq = @ + 1]
<1>1. /\ job # NoJob /\ turns # <<>> /\ step = "pick" /\ step' = "clip"
      /\ entry' = [entry EXCEPT ![s] = e]
      /\ UNCHANGED <<captured, stream, queue, closed, paused, job, turns, flushing,
                     row, clips, segments, daemon, failures, runs, discarded, since_pause>>
  BY DEF PickTurn, Writing, store_vars
<1>2. s \in Sessions /\ entry[s] \in Entry /\ entry[s] # NoEntry
  BY <1>1, InTheMiddle
<1>3. /\ e \in Entry /\ e.last = entry[s].last /\ e.open = entry[s].open
      /\ e.pending = entry[s].pending
  BY <1>2 DEF Entry
<1>4. e # NoEntry /\ Held(e) = Held(entry[s]) /\ Held(entry[s]) = entry[s].open \union entry[s].pending
  BY <1>2, <1>3, EntryFields
<1> HIDE DEF e, s
<1>5. GoodEntry(s, entry[s])
  BY <1>2 DEF AudioInv, EntryInv
<1>6. GoodEntry(s, e) /\ AllOf(s, Held(e))
  BY <1>3, <1>4, <1>5 DEF GoodEntry
<1>7. /\ HeldAll' = (HeldAll \ Held(entry[s])) \union Held(e)
      /\ Held(entry[s]) \subseteq HeldAll
      /\ entry'[s] = e /\ \A t \in Sessions : t # s => entry'[t] = entry[t]
  BY <1>1, <1>2, <1>6, HeldAllIs
<1>8. TypeOK'
  BY <1>1, <1>2, <1>3 DEF AudioInv, TypeOK
<1>9. QueueInv' /\ RowInv'
  BY <1>1 DEF AudioInv, QueueInv, RowInv
<1>10. EntryInv'
  <2> SUFFICES ASSUME NEW t \in Sessions, entry'[t] # NoEntry
               PROVE  /\ GoodEntry(t, entry'[t]) /\ entry'[t].last <= captured[t]
                      /\ \A b \in Heard(queue) : b.session = t => entry'[t].last < b.number
    BY <1>1 DEF EntryInv
  <2>1. CASE t = s
    BY <1>2, <1>3, <1>6, <1>7, <2>1 DEF AudioInv, EntryInv
  <2>2. CASE t # s
    BY <1>7, <2>2 DEF AudioInv, EntryInv
  <2> QED
    BY <2>1, <2>2
<1>11. JobInv'
  BY <1>1, <1>2, <1>4, <1>7 DEF AudioInv, JobInv, s
<1>12. PlaceInv'
  <2>1. /\ AllCaptured' = AllCaptured /\ Stored' = Stored /\ HeldAll' = HeldAll
        /\ Heard(queue') = Heard(queue)
    BY <1>1, <1>4, <1>7 DEF AllCaptured, Stored
  <2>2. InHand' = InHand
    BY <1>1, HandIs, HandFacts
  <2> QED
    BY <1>1, <2>1, <2>2 DEF AudioInv, PlaceInv
<1> QED
  BY <1>8, <1>9, <1>10, <1>11, <1>12 DEF AudioInv

(* The new file truncates no row's clip: a row of that path would hold the *)
(* turn's first buffer.                                                    *)
LEMMA WriteClipStep ==
    ASSUME AudioInv, WriteClip
    PROVE  AudioInv'
PROOF
<1> DEFINE c == ClipOf(Head(turns))
<1>1. /\ job # NoJob /\ turns # <<>> /\ step = "clip" /\ step' = "row"
      /\ clips' = {d \in clips : d.path # c.path} \union {c}
      /\ since_pause' = IF paused THEN since_pause + 1 ELSE since_pause
      /\ UNCHANGED <<captured, stream, queue, closed, paused, entry, job, turns,
                     flushing, row, segments, daemon, failures, runs, discarded>>
  BY DEF WriteClip, Writing
<1>2. /\ c \in Clip /\ c.audio = Head(turns) /\ c.path.session = job.session /\ GoodRow(c)
  BY <1>1, ClipFacts
<1>3. ClipOf(Head(turns))' = c
  BY <1>1 DEF ClipOf
<1> HIDE DEF c
<1>4. TypeOK'
  BY <1>1, <1>2 DEF AudioInv, TypeOK
<1>5. QueueInv' /\ EntryInv'
  BY <1>1 DEF AudioInv, QueueInv, EntryInv
<1>6. JobInv'
  <2>1. c \in clips'
    BY <1>1
  <2> QED
    BY <1>1, <1>3, <2>1 DEF AudioInv, JobInv
<1>7. InHand = AudioOf(turns) /\ InHand' = AudioOf(turns) /\ Head(turns) \subseteq InHand
  BY <1>1, InTheMiddle, HandIs, HandFacts
<1>8. ASSUME NEW g \in segments
      PROVE  g \in clips'
  <2>1. g \in clips /\ GoodRow(g)
    BY DEF AudioInv, RowInv
  <2>2. ASSUME g.path = c.path
        PROVE  FALSE
    <3>1. BufferOf(c.path.session, c.path.start) \in g.audio
      BY <2>1, <2>2 DEF GoodRow
    <3>2. BufferOf(c.path.session, c.path.start) \in Head(turns)
      BY <1>2 DEF GoodRow
    <3>3. InHand \intersect Stored = {}
      BY DEF AudioInv, PlaceInv, Partition
    <3>4. g.audio \subseteq Stored
      BY DEF Stored
    <3> QED
      BY <1>7, <3>1, <3>2, <3>3, <3>4
  <2> QED
    BY <1>1, <2>1, <2>2
<1>9. RowInv'
  BY <1>1, <1>8 DEF AudioInv, RowInv
<1>10. PlaceInv'
  <2>1. /\ AllCaptured' = AllCaptured /\ Stored' = Stored /\ HeldAll' = HeldAll
        /\ Heard(queue') = Heard(queue) /\ InHand' = InHand
    BY <1>1, <1>7 DEF AllCaptured, Stored, HeldAll
  <2> QED
    BY <1>1, <2>1 DEF AudioInv, PlaceInv
<1> QED
  BY <1>4, <1>5, <1>6, <1>9, <1>10 DEF AudioInv

LEMMA InsertRowStep ==
    ASSUME AudioInv, InsertRow
    PROVE  AudioInv'
PROOF
<1> DEFINE c == ClipOf(Head(turns))
<1>1. /\ job # NoJob /\ turns # <<>> /\ step = "row" /\ step' = "announce"
      /\ segments' = segments \union {c}
      /\ UNCHANGED <<captured, stream, queue, closed, paused, entry, job, turns, flushing,
                     row, clips, daemon, failures, runs, discarded, since_pause>>
  BY DEF InsertRow, Writing
<1>2. /\ c \in Clip /\ c.audio = Head(turns) /\ GoodRow(c)
  BY <1>1, ClipFacts
<1>3. ClipOf(Head(turns))' = c
  BY <1>1 DEF ClipOf
<1>4. c \in clips
  BY <1>1 DEF AudioInv, JobInv
<1> HIDE DEF c
<1>5. TypeOK'
  BY <1>1, <1>2 DEF AudioInv, TypeOK
<1>6. QueueInv' /\ EntryInv'
  BY <1>1 DEF AudioInv, QueueInv, EntryInv
<1>7. JobInv'
  <2>1. c \in segments'
    BY <1>1
  <2> QED
    BY <1>1, <1>3, <2>1 DEF AudioInv, JobInv
<1>8. /\ InHand' = InHand \ Head(turns) /\ Head(turns) \subseteq InHand
  <2>1. InHand = AudioOf(turns) /\ InHand' = AfterFirst(turns)
    BY <1>1, HandIs, HandFacts
  <2> QED
    BY <1>1, <2>1, InTheMiddle
<1>9. Stored' = Stored \union c.audio
  <2>1. \A b : b \in Stored' <=> \E g \in segments \union {c} : b \in g.audio
    BY <1>1 DEF Stored
  <2>2. \A b : b \in Stored <=> \E g \in segments : b \in g.audio
    BY DEF Stored
  <2> QED
    BY <2>1, <2>2
<1>10. RowInv'
  <2>1. \A g \in segments : g.audio \intersect c.audio = {}
    <3>1. InHand \intersect Stored = {}
      BY DEF AudioInv, PlaceInv, Partition
    <3>2. \A g \in segments : g.audio \subseteq Stored
      BY DEF Stored
    <3> QED
      BY <1>2, <1>8, <3>1, <3>2
  <2> QED
    BY <1>1, <1>2, <1>4, <2>1 DEF AudioInv, RowInv
<1>11. PlaceInv'
  <2>1. /\ AllCaptured' = AllCaptured /\ HeldAll' = HeldAll /\ Heard(queue') = Heard(queue)
    BY <1>1 DEF AllCaptured, HeldAll
  <2> QED
    BY <1>1, <1>2, <1>8, <1>9, <2>1 DEF AudioInv, PlaceInv, Partition
<1> QED
  BY <1>5, <1>6, <1>7, <1>10, <1>11 DEF AudioInv

LEMMA AnnounceStep ==
    ASSUME AudioInv, Announce
    PROVE  AudioInv'
PROOF
<1>1. /\ job # NoJob /\ turns # <<>> /\ step = "announce" /\ step' = "pick"
      /\ turns' = Tail(turns)
      /\ UNCHANGED <<captured, stream, queue, closed, paused, entry, job, flushing,
                     row, clips, segments, daemon, failures, runs, discarded, since_pause>>
  BY DEF Announce, Writing, store_vars
<1>2. TypeOK'
  BY <1>1, InTheMiddle DEF AudioInv, TypeOK
<1>3. QueueInv' /\ EntryInv' /\ RowInv'
  BY <1>1 DEF AudioInv, QueueInv, EntryInv, RowInv
<1>4. JobInv'
  BY <1>1, InTheMiddle DEF AudioInv, JobInv
<1>5. PlaceInv'
  <2>1. /\ AllCaptured' = AllCaptured /\ Stored' = Stored /\ HeldAll' = HeldAll
        /\ Heard(queue') = Heard(queue)
    BY <1>1 DEF AllCaptured, Stored, HeldAll
  <2>2. InHand = AfterFirst(turns) /\ InHand' = AudioOf(Tail(turns))
    BY <1>1, HandIs, HandFacts
  <2>3. InHand' = InHand
    BY <1>1, <2>2, InTheMiddle
  <2> QED
    BY <1>1, <2>1, <2>3 DEF AudioInv, PlaceInv
<1> QED
  BY <1>2, <1>3, <1>4, <1>5 DEF AudioInv

LEMMA WriteFailsStep ==
    ASSUME AudioInv, WriteFails
    PROVE  AudioInv'
PROOF
<1>1. /\ job # NoJob /\ turns # <<>> /\ step # "announce"
      /\ failures' = failures + 1
      /\ discarded' = discarded \union AudioOf(turns)
      /\ job' = NoJob /\ turns' = <<>> /\ step' = "pick"
      /\ flushing' \subseteq flushing
      /\ UNCHANGED <<captured, stream, queue, closed, paused, entry, row, clips,
                     segments, daemon, runs, since_pause>>
  BY DEF WriteFails, Writing, store_vars, AudioOf
<1>2. InHand = AudioOf(turns) /\ InHand' = {}
  BY <1>1, HandIs, HandFacts, NoTurns
<1>3. AudioOf(turns) \subseteq Buffers
  <2>1. \A i \in DOMAIN turns : turns[i] \in SUBSET Buffers
    BY DEF AudioInv, TypeOK
  <2> QED
    BY <2>1 DEF AudioOf
<1>4. TypeOK'
  BY <1>1, <1>3 DEF AudioInv, TypeOK
<1>5. QueueInv' /\ EntryInv' /\ RowInv'
  BY <1>1 DEF AudioInv, QueueInv, EntryInv, RowInv
<1>6. JobInv'
  BY <1>1 DEF JobInv
<1>7. PlaceInv'
  <2>1. /\ AllCaptured' = AllCaptured /\ Stored' = Stored /\ HeldAll' = HeldAll
        /\ Heard(queue') = Heard(queue)
    BY <1>1 DEF AllCaptured, Stored, HeldAll
  <2> QED
    BY <1>1, <1>2, <2>1 DEF AudioInv, PlaceInv, Partition
<1> QED
  BY <1>4, <1>5, <1>6, <1>7 DEF AudioInv

-----------------------------------------------------------------------------
(* The handler returns, and the process ends.                              *)

LEMMA FinishStep ==
    ASSUME AudioInv, NEW close \in BOOLEAN, Finish(close),
           failures' \in Nat,
           UNCHANGED <<captured, stream, queue, closed, paused, turns, step, clips,
                       segments, daemon, runs, discarded, since_pause>>
    PROVE  AudioInv'
PROOF
<1> DEFINE s == job.session
<1>1. /\ job # NoJob /\ turns = <<>> /\ job' = NoJob /\ flushing' \subseteq flushing
      /\ job.ends => entry' = [entry EXCEPT ![s] = NoEntry]
      /\ ~job.ends => entry' = entry
      /\ row' = row \/ row' = [row EXCEPT ![s] = "closed"]
  BY DEF Finish
<1>2. s \in Sessions /\ job.ends \in BOOLEAN
  BY <1>1, JobTypes DEF AudioInv
<1> HIDE DEF s
<1>3. /\ HeldAll' = HeldAll
      /\ \A t \in Sessions : entry'[t] = entry[t] \/ entry'[t] = NoEntry
  <2>1. CASE ~job.ends
    BY <1>1, <2>1 DEF HeldAll
  <2>2. CASE job.ends
    <3>1. Held(NoEntry) = {} /\ Held(entry[s]) = {}
      BY <1>1, <2>2 DEF AudioInv, JobInv, Held, s
    <3>2. entry' = [entry EXCEPT ![s] = NoEntry] /\ AllOf(s, Held(NoEntry))
      BY <1>1, <2>2, <3>1, NoBufferIsUnbroken
    <3>3. /\ HeldAll' = (HeldAll \ Held(entry[s])) \union Held(NoEntry)
          /\ entry'[s] = NoEntry /\ \A t \in Sessions : t # s => entry'[t] = entry[t]
      BY <1>2, <3>2, HeldAllIs
    <3> QED
      BY <3>1, <3>3
  <2> QED
    BY <1>2, <2>1, <2>2
<1>4. step = "pick"
  BY <1>1 DEF AudioInv, JobInv
<1>5. TypeOK'
  <2>1. entry' \in [Sessions -> Entry \union {NoEntry}]
    BY <1>1, <1>2 DEF AudioInv, TypeOK
  <2>2. row' \in [Sessions -> {"none", "open", "closed"}]
    BY <1>1, <1>2 DEF AudioInv, TypeOK
  <2> QED
    BY <1>1, <2>1, <2>2 DEF AudioInv, TypeOK
<1>6. QueueInv' /\ RowInv'
  BY DEF AudioInv, QueueInv, RowInv
<1>7. EntryInv'
  BY <1>3 DEF AudioInv, EntryInv
<1>8. JobInv'
  BY <1>1, <1>4 DEF JobInv
<1>9. PlaceInv'
  <2>1. AllCaptured' = AllCaptured /\ Stored' = Stored /\ InHand' = InHand
    BY DEF AllCaptured, Stored, InHand
  <2> QED
    BY <1>3, <2>1 DEF AudioInv, PlaceInv
<1> QED
  BY <1>5, <1>6, <1>7, <1>8, <1>9 DEF AudioInv

LEMMA ProcessEndsStep ==
    ASSUME AudioInv, ProcessEnds, daemon' \in {"stopped", "dead"},
           discarded' = discarded \union (AllCaptured \ Stored)
    PROVE  AudioInv'
PROOF
<1>1. /\ queue' = <<>> /\ closed' = FALSE /\ paused' = FALSE /\ since_pause' = 0
      /\ entry' = [s \in Sessions |-> NoEntry]
      /\ job' = NoJob /\ turns' = <<>> /\ step' = "pick" /\ flushing' = {}
      /\ stream' = [s \in Sessions |-> IF stream[s] = "live" THEN "over" ELSE stream[s]]
      /\ UNCHANGED <<captured, row, clips, segments, failures, runs>>
  BY DEF ProcessEnds, store_vars
<1>2. Heard(<<>>) = {} /\ Ordered(<<>>)
  BY DEF Heard, Ordered
<1>3. TypeOK'
  <2>1. discarded' \subseteq Buffers
    BY PlacesAreCaptured
  <2>2. stream' \in [Sessions -> {"unborn", "live", "over"}]
    BY <1>1 DEF AudioInv, TypeOK
  <2>3. entry' \in [Sessions -> Entry \union {NoEntry}]
    BY <1>1
  <2>4. queue' \in Seq(Event) /\ turns' \in Seq(SUBSET Buffers) /\ since_pause' \in Nat
    BY <1>1
  <2> QED
    BY <1>1, <2>1, <2>2, <2>3, <2>4 DEF AudioInv, TypeOK
<1>4. QueueInv'
  <2>1. IsFiniteSet({}) /\ Cardinality({}) = 0 /\ Capacity \in Nat
    BY FS_EmptySet, PipelineAssumption
  <2>2. Heard(queue') = {} /\ Ordered(queue')
    BY <1>1, <1>2
  <2>3. Fits(queue')
    BY <2>1, <2>2 DEF Fits
  <2> QED
    BY <2>2, <2>3 DEF QueueInv
<1>5. EntryInv'
  BY <1>1 DEF EntryInv
<1>6. JobInv'
  BY <1>1 DEF JobInv
<1>7. RowInv'
  BY <1>1 DEF AudioInv, RowInv
<1>8. PlaceInv'
  <2>1. AllCaptured' = AllCaptured /\ Stored' = Stored
    BY <1>1 DEF AllCaptured, Stored
  <2>2. InHand' = {} /\ HeldAll' = {}
    BY <1>1 DEF InHand, HeldAll, Held
  <2> QED
    BY <1>1, <1>2, <2>1, <2>2 DEF AudioInv, PlaceInv, Partition
<1> QED
  BY <1>3, <1>4, <1>5, <1>6, <1>7, <1>8 DEF AudioInv

LEMMA DieStep ==
    ASSUME AudioInv, Die
    PROVE  AudioInv'
PROOF
BY ProcessEndsStep DEF Die, Stored

(* A clean exit gives nothing up.                                          *)
LEMMA ExitStep ==
    ASSUME AudioInv, StopInv, Exit
    PROVE  AudioInv'
PROOF
<1>1. /\ ProcessEnds /\ daemon' = "stopped" /\ discarded' = discarded
      /\ daemon = "flushing" /\ job = NoJob /\ flushing = {}
  BY DEF Exit
<1>2. Heard(queue) = {}
  BY <1>1 DEF StopInv, FlushesAll, Heard
<1>3. HeldAll = {}
  <2>1. \A s \in Sessions : Held(entry[s]) = {}
    BY <1>1 DEF StopInv, FlushesAll, Held
  <2> QED
    BY <2>1 DEF HeldAll
<1>4. InHand = {}
  BY <1>1, NothingInHand
<1>5. discarded' = discarded \union (AllCaptured \ Stored)
  BY <1>1, <1>2, <1>3, <1>4 DEF AudioInv, PlaceInv, Partition
<1> QED
  BY <1>1, <1>5, ProcessEndsStep

-----------------------------------------------------------------------------
(* The stages of a stop.                                                   *)

LEMMA SameStop ==
    ASSUME StopInv,
           UNCHANGED <<stream, queue, closed, entry, job, flushing, daemon>>
    PROVE  StopInv'
PROOF
BY DEF StopInv, StreamsStop, ClosedLate, FlushesAll, NothingIsLeft, Held

LEMMA StopStep ==
    ASSUME AudioInv, StopInv, Next
    PROVE  StopInv'
PROOF
<1> USE DEF StopInv, StreamsStop, ClosedLate, FlushesAll, NothingIsLeft
<1>0. /\ StreamsStop /\ ClosedLate /\ FlushesAll /\ NothingIsLeft
      /\ stream \in [Sessions -> {"unborn", "live", "over"}]
      /\ DOMAIN entry = Sessions
  BY EntryTypes DEF AudioInv, TypeOK
<1>1. ASSUME NEW s \in Sessions, OpenSession(s) \/ Capture(s) \/ EndSession(s)
      PROVE  StopInv'
  <2>1. /\ daemon = "running" /\ daemon' = "running" /\ closed' = closed
        /\ UNCHANGED <<entry, job, flushing>>
    BY <1>1 DEF OpenSession, Capture, EndSession, work_vars
  <2> QED
    BY <1>0, <2>1
<1>2. CASE User
  <2>1. UNCHANGED <<stream, queue, closed, entry, job, flushing, daemon>>
    BY <1>2 DEF User, SetPaused, Resume, work_vars
  <2> QED
    BY <2>1, SameStop
<1>3. CASE DiscardBuffer \/ OnAudio \/ OnSessionEnd
  <2>1. queue # <<>> /\ UNCHANGED <<stream, closed, flushing, daemon>>
    BY <1>3 DEF DiscardBuffer, OnAudio, OnSessionEnd, NextIs
  <2> QED
    BY <1>0, <2>1
<1>4. CASE SkipTurn \/ WriteClip \/ InsertRow \/ Announce
  <2>1. UNCHANGED <<stream, queue, closed, entry, job, flushing, daemon>>
    BY <1>4 DEF SkipTurn, WriteClip, InsertRow, Announce
  <2> QED
    BY <2>1, SameStop
<1>5. CASE PickTurn
  <2>1. /\ turns # <<>> /\ entry' = [entry EXCEPT ![job.session].seq = @ + 1]
        /\ UNCHANGED <<stream, queue, closed, job, flushing, daemon>>
    BY <1>5 DEF PickTurn, Writing
  <2>2. job.session \in Sessions /\ entry[job.session] \in Entry
    BY <2>1, InTheMiddle
  <2>3. \A s \in Sessions : entry'[s] # NoEntry /\ Held(entry'[s]) # {} =>
            entry[s] # NoEntry /\ Held(entry[s]) # {}
    <3>1. \A s \in Sessions : s # job.session => entry'[s] = entry[s]
      BY <1>0, <2>1, <2>2
    <3>2. LET e == entry[job.session] IN
          /\ entry'[job.session] \in Entry
          /\ entry'[job.session].open = e.open /\ entry'[job.session].pending = e.pending
      BY <1>0, <2>1, <2>2 DEF Entry
    <3>3. Held(entry'[job.session]) = Held(entry[job.session]) /\ entry[job.session] # NoEntry
      BY <2>2, <3>2, EntryFields
    <3> QED
      BY <3>1, <3>3
  <2> QED
    BY <1>0, <2>1, <2>3
<1>6. ASSUME NEW s \in Sessions, FlushSession(s)
      PROVE  StopInv'
  <2>1. /\ job'.ends = TRUE /\ entry' = [entry EXCEPT ![s] = Flushed(entry[s])]
        /\ daemon = "flushing" /\ UNCHANGED <<stream, queue, closed, flushing, daemon>>
    BY <1>6 DEF FlushSession, StartEnding
  <2>2. Held(Flushed(entry[s])) = {}
    <3>1. CASE entry[s] = NoEntry
      BY <3>1 DEF Flushed, Held
    <3>2. CASE entry[s] # NoEntry
      BY <3>2, EntryTypes, FlushedFacts DEF AudioInv
    <3> QED
      BY <3>1, <3>2
  <2>3. \A t \in Sessions : entry'[t] # NoEntry /\ Held(entry'[t]) # {} =>
            entry[t] # NoEntry /\ Held(entry[t]) # {}
    BY <1>0, <2>1, <2>2
  <2> QED
    BY <1>0, <2>1, <2>3
<1>7. CASE WriteFails \/ HandlerReturns \/ CloseRowFails
  <2>1. /\ job # NoJob /\ job' = NoJob /\ flushing' = flushing \ {job.session}
        /\ entry' = entry \/ entry' = [entry EXCEPT ![job.session] = NoEntry]
        /\ UNCHANGED <<stream, queue, closed, daemon>>
    BY <1>7 DEF WriteFails, HandlerReturns, CloseRowFails, Finish, Writing
  <2>2. job.ends /\ entry[job.session] # NoEntry => Held(entry[job.session]) = {}
    BY <2>1 DEF AudioInv, JobInv
  <2>3. \A t \in Sessions : entry'[t] # NoEntry => entry'[t] = entry[t]
    BY <1>0, <2>1
  <2> QED
    BY <1>0, <2>1, <2>2, <2>3
<1>8. CASE StopCapture
  <2>1. /\ daemon = "running" /\ daemon' = "stopping" /\ closed' = closed
        /\ stream' = [s \in Sessions |-> IF stream[s] = "live" /\ s \notin Mics
                                         THEN "over" ELSE stream[s]]
    BY <1>8 DEF StopCapture
  <2>2. \A s \in Sessions : stream'[s] = "live" => s \in Mics
    BY <2>1
  <2> QED
    BY <1>0, <2>1, <2>2
<1>9. ASSUME NEW s \in Sessions, StopMic(s)
      PROVE  StopInv'
  <2>1. /\ daemon = "stopping" /\ stream' = [stream EXCEPT ![s] = "over"]
        /\ UNCHANGED <<closed, daemon>>
    BY <1>9 DEF StopMic
  <2>2. \A t \in Sessions : stream'[t] = "live" => stream[t] = "live"
    BY <1>0, <2>1
  <2> QED
    BY <1>0, <2>1, <2>2
<1>10. CASE CloseQueue
  <2>1. /\ daemon = "stopping" /\ LiveMics = {}
        /\ UNCHANGED <<stream, daemon>>
    BY <1>10 DEF CloseQueue
  <2> QED
    BY <1>0, <2>1 DEF LiveMics
<1>11. CASE Drained
  <2>1. /\ closed /\ job = NoJob /\ queue = <<>> /\ daemon' = "flushing"
        /\ flushing' = {s \in Sessions : entry[s] # NoEntry}
        /\ UNCHANGED <<stream, queue, closed, entry, job>>
    BY <1>11 DEF Drained, work_vars
  <2> QED
    BY <1>0, <2>1
<1>12. CASE Exit \/ Die
  <2>1. /\ daemon' \in {"stopped", "dead"} /\ closed' = FALSE
        /\ queue' = <<>> /\ job' = NoJob
        /\ stream' = [s \in Sessions |-> IF stream[s] = "live" THEN "over" ELSE stream[s]]
    BY <1>12 DEF Exit, Die, ProcessEnds
  <2>2. \A s \in Sessions : stream'[s] # "live"
    BY <2>1
  <2> QED
    BY <2>1, <2>2
<1>13. CASE Start
  <2>1. /\ daemon \in {"stopped", "dead"} /\ daemon' = "running"
        /\ UNCHANGED <<stream, closed>>
    BY <1>13 DEF Start
  <2> QED
    BY <1>0, <2>1
<1> QED
  BY <1>1, <1>2, <1>3, <1>4, <1>5, <1>6, <1>7, <1>8, <1>9, <1>10, <1>11, <1>12, <1>13
     DEF Next, CaptureThread, Inference, Stopping, Faults

-----------------------------------------------------------------------------
(* The ends of a microphone's sessions, and the pause.                     *)

Queued(q, s) == \E i \in DOMAIN q : q[i].kind = "end" /\ q[i].session = s
Closing(s) == job # NoJob /\ job.ends /\ job.session = s

LEMMA EndingParts ==
    \A s : /\ Ending(s) <=> stream[s] = "live" \/ Queued(queue, s) \/ Closing(s)
           /\ Ending(s)' <=> stream'[s] = "live" \/ Queued(queue', s) \/ Closing(s)'
PROOF
BY DEF Ending, Queued, Closing

LEMMA EndIsQueued ==
    ASSUME AudioInv, NEW s \in Sessions
    PROVE  LET p == Push(queue, [kind |-> "end", session |-> s]) IN
           Queued(p, s) /\ \A t : Queued(queue, t) => Queued(p, t)
PROOF
<1> DEFINE e == [kind |-> "end", session |-> s]
           p == Push(queue, e)
<1>1. queue \in Seq(Event) /\ p = Append(queue, e) /\ e \in Event
  BY PushEnd DEF AudioInv, QueueInv, TypeOK, Event
<1>2. e.kind = "end" /\ e.session = s
  OBVIOUS
<1> HIDE DEF e, p
<1>3. /\ DOMAIN p = 1 .. (Len(queue) + 1) /\ p[Len(queue) + 1] = e
      /\ DOMAIN queue = 1 .. Len(queue) /\ Len(queue) \in Nat
      /\ \A i \in 1 .. Len(queue) : p[i] = queue[i]
  BY <1>1
<1> QED
  BY <1>2, <1>3 DEF Queued, e, p

LEMMA PoppedEnds ==
    ASSUME AudioInv, queue # <<>>, NEW s, Queued(queue, s)
    PROVE  \/ Queued(Tail(queue), s)
           \/ Head(queue).kind = "end" /\ Head(queue).session = s
PROOF
<1>1. PICK i \in DOMAIN queue : queue[i].kind = "end" /\ queue[i].session = s
  BY DEF Queued
<1>2. queue[i] = Head(queue) \/ \E j \in DOMAIN Tail(queue) : Tail(queue)[j] = queue[i]
  BY <1>1, PopFacts DEF AudioInv, QueueInv, TypeOK
<1> QED
  BY <1>1, <1>2 DEF Queued

LEMMA CaptureKeepsEnds ==
    ASSUME AudioInv, NEW s \in Sessions, Capture(s), NEW t, Queued(queue, t)
    PROVE  Queued(queue', t)
PROOF
<1> DEFINE n == captured[s] + 1
           p == Push(queue, [kind |-> "audio", session |-> s, number |-> n])
<1>1. captured[s] \in Nat /\ n \in Nat /\ n = captured[s] + 1 /\ queue \in Seq(Event)
  BY DEF AudioInv, TypeOK
<1>2. queue' = p
  BY DEF Capture
<1> HIDE DEF n
<1>3. \A b \in Heard(queue) : b.session = s => b.number < n
  <2>1. ASSUME NEW b \in Heard(queue), b.session = s
        PROVE  b.number < n
    <3>1. b.number \in Nat /\ b.number <= captured[s]
      BY <2>1, PlacesAreCaptured DEF Buffers
    <3> QED
      BY <1>1, <3>1
  <2> QED
    BY <2>1
<1>4. \A i \in DOMAIN queue : queue[i].kind = "end" => \E j \in DOMAIN p : p[j] = queue[i]
  BY <1>1, <1>3, PushAudio DEF AudioInv, QueueInv
<1> HIDE DEF p
<1> QED
  BY <1>2, <1>4 DEF Queued

(* The only steps that open a row, or shorten what is ending.              *)
LEMMA MicStep ==
    ASSUME AudioInv, StopInv, MicInv, Next
    PROVE  MicInv'
PROOF
<1> SUFFICES ASSUME failures' = 0, daemon' # "dead", NEW m \in Mics, row'[m] = "open"
             PROVE  Ending(m)'
  BY DEF MicInv
<1>0. /\ m \in Sessions /\ failures \in Nat
      /\ stream \in [Sessions -> {"unborn", "live", "over"}]
      /\ row \in [Sessions -> {"none", "open", "closed"}]
      /\ failures = 0 /\ daemon # "dead" /\ row[m] = "open" =>
            stream[m] = "live" \/ Queued(queue, m) \/ Closing(m)
  BY PipelineAssumption, EndingParts DEF AudioInv, TypeOK, MicInv
<1>1. ASSUME NEW s \in Sessions, OpenSession(s)
      PROVE  Ending(m)'
  <2>1. /\ stream' = [stream EXCEPT ![s] = "live"] /\ row' = [row EXCEPT ![s] = "open"]
        /\ daemon = "running" /\ UNCHANGED <<queue, job, failures>>
    BY <1>1 DEF OpenSession, work_vars
  <2>2. Closing(m)' <=> Closing(m)
    BY <2>1 DEF Closing
  <2> QED
    BY <1>0, <2>1, <2>2, EndingParts
<1>2. ASSUME NEW s \in Sessions, Capture(s)
      PROVE  Ending(m)'
  <2>1. daemon = "running" /\ UNCHANGED <<stream, row, job, failures>>
    BY <1>2 DEF Capture, work_vars, store_vars
  <2>2. Closing(m)' <=> Closing(m)
    BY <2>1 DEF Closing
  <2> QED
    BY <1>0, <1>2, <2>1, <2>2, CaptureKeepsEnds, EndingParts
<1>3. ASSUME NEW s \in Sessions, EndSession(s) \/ StopMic(s)
      PROVE  Ending(m)'
  <2>1. /\ stream' = [stream EXCEPT ![s] = "over"]
        /\ queue' = Push(queue, [kind |-> "end", session |-> s])
        /\ daemon # "dead" /\ UNCHANGED <<row, job, failures>>
    BY <1>3 DEF EndSession, StopMic, work_vars, store_vars
  <2>2. Closing(m)' <=> Closing(m)
    BY <2>1 DEF Closing
  <2>3. m # s => stream'[m] = stream[m]
    BY <1>0, <2>1
  <2> QED
    BY <1>0, <2>1, <2>2, <2>3, EndIsQueued, EndingParts
<1>4. CASE \/ User \/ SkipTurn \/ PickTurn \/ WriteClip \/ InsertRow \/ Announce
           \/ CloseQueue \/ Drained
  <2>1. UNCHANGED <<stream, queue, row, job, failures>> /\ daemon # "dead"
    <3>1. UNCHANGED <<stream, queue, row, job, failures>>
      BY <1>4 DEF User, SetPaused, Resume, SkipTurn, PickTurn, WriteClip, InsertRow,
                  Announce, CloseQueue, Drained, work_vars, store_vars
    <3>2. daemon # "dead"
      BY <1>4 DEF User, SetPaused, Resume, SkipTurn, PickTurn, WriteClip, InsertRow,
                  Announce, CloseQueue, Drained, Writing, Alive
    <3> QED
      BY <3>1, <3>2
  <2>2. Closing(m)' <=> Closing(m)
    BY <2>1 DEF Closing
  <2> QED
    BY <1>0, <2>1, <2>2, EndingParts
<1>5. CASE DiscardBuffer \/ OnAudio
  <2>1. /\ job = NoJob /\ queue # <<>> /\ Head(queue).kind = "audio"
        /\ queue' = Tail(queue) /\ daemon # "dead" /\ UNCHANGED <<stream, row, failures>>
    BY <1>5 DEF DiscardBuffer, OnAudio, NextIs, Alive, store_vars
  <2>2. ~Closing(m)
    BY <2>1 DEF Closing
  <2> QED
    BY <1>0, <2>1, <2>2, PoppedEnds, EndingParts
<1>6. CASE OnSessionEnd
  <2> DEFINE s == Head(queue).session
  <2>1. /\ job = NoJob /\ queue # <<>> /\ s \in Sessions
        /\ job' = [session |-> s, ends |-> TRUE]
        /\ queue' = Tail(queue) /\ daemon # "dead" /\ UNCHANGED <<stream, row, failures>>
    BY <1>6, QueueTypes DEF OnSessionEnd, StartEnding, NextIs, Alive, store_vars, AudioInv
  <2>2. ~Closing(m) /\ (m = s => Closing(m)')
    BY <2>1, NewJob DEF Closing
  <2> QED
    BY <1>0, <2>1, <2>2, PoppedEnds, EndingParts
<1>7. ASSUME NEW s \in Sessions, FlushSession(s)
      PROVE  Ending(m)'
  <2>1. /\ job = NoJob /\ daemon # "dead" /\ UNCHANGED <<stream, queue, row, failures>>
    BY <1>7 DEF FlushSession, store_vars
  <2>2. ~Closing(m)
    BY <2>1 DEF Closing
  <2> QED
    BY <1>0, <2>1, <2>2, EndingParts
<1>8. CASE HandlerReturns
  <2> DEFINE s == job.session
  <2>1. /\ job # NoJob /\ daemon # "dead"
        /\ job.ends => row' = [row EXCEPT ![s] = "closed"]
        /\ ~job.ends => row' = row
        /\ UNCHANGED <<stream, queue, failures>>
    BY <1>8 DEF HandlerReturns, Finish, Alive
  <2>2. s \in Sessions
    BY <2>1, JobTypes DEF AudioInv
  <2>3. Closing(m) => row'[m] = "closed"
    BY <1>0, <2>1, <2>2 DEF Closing
  <2>4. row[m] = "open"
    BY <1>0, <2>1, <2>2
  <2> QED
    BY <1>0, <2>1, <2>3, <2>4, EndingParts
<1>9. CASE WriteFails \/ CloseRowFails
  <2>1. failures' = failures + 1
    BY <1>9 DEF WriteFails, CloseRowFails
  <2> QED
    BY <1>0, <2>1
<1>10. CASE StopCapture
  <2>1. /\ stream' = [s \in Sessions |-> IF stream[s] = "live" /\ s \notin Mics
                                         THEN "over" ELSE stream[s]]
        /\ daemon = "running" /\ UNCHANGED <<queue, row, job, failures>>
    BY <1>10 DEF StopCapture, work_vars, store_vars
  <2>2. Closing(m)' <=> Closing(m)
    BY <2>1 DEF Closing
  <2>3. stream'[m] = stream[m]
    BY <1>0, <2>1
  <2> QED
    BY <1>0, <2>1, <2>2, <2>3, EndingParts
<1>11. CASE Exit
  <2>1. daemon = "flushing" /\ job = NoJob /\ row' = row /\ failures' = failures
    BY <1>11 DEF Exit, ProcessEnds, store_vars
  <2>2. queue = <<>> /\ stream[m] # "live"
    BY <1>0, <2>1 DEF StopInv, StreamsStop, FlushesAll
  <2>3. ~Queued(queue, m) /\ ~Closing(m)
    BY <2>1, <2>2 DEF Queued, Closing
  <2> QED
    BY <1>0, <2>1, <2>2, <2>3
<1>12. CASE Die
  BY <1>12 DEF Die
<1>13. CASE Start
  <2>1. row'[m] # "open"
    BY <1>0, <1>13 DEF Start
  <2> QED
    BY <2>1
<1> QED
  BY <1>1, <1>2, <1>3, <1>4, <1>5, <1>6, <1>7, <1>8, <1>9, <1>10, <1>11, <1>12, <1>13
     DEF Next, CaptureThread, Inference, Stopping, Faults

LEMMA PauseStep ==
    ASSUME AudioInv, PauseInv, Next
    PROVE  PauseInv'
PROOF
<1>0. since_pause \in Nat /\ (since_pause = 0 \/ since_pause = 1)
  BY DEF AudioInv, TypeOK, PauseInv
<1>1. CASE User \/ Exit \/ Die
  <2>1. since_pause' = 0
    BY <1>1 DEF User, SetPaused, Resume, Exit, Die, ProcessEnds
  <2> QED
    BY <2>1 DEF PauseInv
<1>2. CASE WriteClip
  <2>1. /\ step = "clip" /\ step' = "row" /\ paused' = paused
        /\ since_pause' = IF paused THEN since_pause + 1 ELSE since_pause
    BY <1>2 DEF WriteClip, Writing
  <2>2. since_pause = 0
    BY <1>0, <2>1 DEF PauseInv
  <2> QED
    BY <2>1, <2>2 DEF PauseInv
<1>3. CASE PickTurn
  BY <1>3 DEF PickTurn, PauseInv
<1>4. CASE InsertRow \/ Announce \/ WriteFails
  BY <1>4 DEF InsertRow, Announce, WriteFails, PauseInv
<1>5. CASE UNCHANGED <<paused, step, since_pause>>
  BY <1>5 DEF PauseInv
<1>6. \/ User \/ Exit \/ Die \/ WriteClip \/ PickTurn
      \/ InsertRow \/ Announce \/ WriteFails
      \/ UNCHANGED <<paused, step, since_pause>>
  BY DEF Next, CaptureThread, Inference, Stopping, Faults, OpenSession, Capture, EndSession,
         DiscardBuffer, OnAudio, OnSessionEnd, SkipTurn, FlushSession, HandlerReturns,
         CloseRowFails, StopCapture, StopMic, CloseQueue, Drained, Start, work_vars
<1> QED
  BY <1>1, <1>2, <1>3, <1>4, <1>5, <1>6

-----------------------------------------------------------------------------
(* The theorems.                                                           *)

LEMMA InitHolds == Init => PipelineInv
PROOF
<1> SUFFICES ASSUME Init
             PROVE  PipelineInv
  OBVIOUS
<1>1. Heard(queue) = {} /\ Ordered(queue)
  BY DEF Init, Heard, Ordered
<1>2. TypeOK
  <2>1. queue \in Seq(Event) /\ turns \in Seq(SUBSET Buffers)
    BY DEF Init
  <2>2. /\ captured \in [Sessions -> Nat]
        /\ stream \in [Sessions -> {"unborn", "live", "over"}]
        /\ entry \in [Sessions -> Entry \union {NoEntry}]
        /\ row \in [Sessions -> {"none", "open", "closed"}]
    BY DEF Init
  <2> QED
    BY <2>1, <2>2 DEF Init, TypeOK
<1>3. QueueInv
  <2>1. IsFiniteSet({}) /\ Cardinality({}) = 0 /\ Capacity \in Nat
    BY FS_EmptySet, PipelineAssumption
  <2>2. Fits(queue)
    BY <1>1, <2>1 DEF Fits
  <2> QED
    BY <1>1, <2>2 DEF QueueInv
<1>4. EntryInv /\ JobInv /\ RowInv
  BY DEF Init, EntryInv, JobInv, RowInv
<1>5. PlaceInv
  <2>1. AllCaptured = {}
    <3>1. \A s \in Sessions : captured[s] = 0
      BY DEF Init
    <3> QED
      BY <3>1 DEF AllCaptured
  <2>2. HeldAll = {} /\ InHand = {} /\ Stored = {} /\ discarded = {}
    BY DEF Init, HeldAll, InHand, Stored, Held
  <2> QED
    BY <1>1, <2>1, <2>2 DEF PlaceInv, Partition
<1>6. StopInv
  BY DEF Init, StopInv, StreamsStop, ClosedLate, FlushesAll, NothingIsLeft
<1>7. MicInv
  BY PipelineAssumption DEF Init, MicInv
<1>8. PauseInv
  BY DEF Init, PauseInv
<1> QED
  BY <1>2, <1>3, <1>4, <1>5, <1>6, <1>7, <1>8 DEF PipelineInv

LEMMA NextKeepsAudio ==
    ASSUME AudioInv, StopInv, Next
    PROVE  AudioInv'
PROOF
<1>1. ASSUME NEW s \in Sessions, OpenSession(s) \/ Capture(s) \/ EndSession(s)
      PROVE  AudioInv'
  BY <1>1, QuietSteps, CaptureStep, EndSteps
<1>2. CASE User \/ StopCapture \/ CloseQueue \/ Drained \/ Start
  BY <1>2, QuietSteps
<1>3. CASE DiscardBuffer \/ OnAudio \/ OnSessionEnd
  BY <1>3, DiscardStep, OnAudioStep, OnSessionEndStep
<1>4. CASE SkipTurn \/ PickTurn \/ WriteClip \/ InsertRow \/ Announce \/ WriteFails
  BY <1>4, SkipTurnStep, PickTurnStep, WriteClipStep, InsertRowStep, AnnounceStep,
     WriteFailsStep
<1>5. CASE HandlerReturns
  <2>1. failures' \in Nat
    BY <1>5 DEF HandlerReturns, AudioInv, TypeOK
  <2> QED
    BY <1>5, <2>1, FinishStep DEF HandlerReturns
<1>6. CASE CloseRowFails
  <2>1. failures' \in Nat
    BY <1>6 DEF CloseRowFails, AudioInv, TypeOK
  <2> QED
    BY <1>6, <2>1, FinishStep DEF CloseRowFails
<1>7. CASE Exit \/ Die
  BY <1>7, ExitStep, DieStep
<1>8. ASSUME NEW s \in Sessions, FlushSession(s) \/ StopMic(s)
      PROVE  AudioInv'
  BY <1>8, FlushSessionStep, EndSteps
<1> QED
  BY <1>1, <1>2, <1>3, <1>4, <1>5, <1>6, <1>7, <1>8
     DEF Next, CaptureThread, Inference, Stopping, Faults

LEMMA NextKeepsInvariant == PipelineInv /\ [Next]_vars => PipelineInv'
PROOF
<1> SUFFICES ASSUME PipelineInv, [Next]_vars
             PROVE  PipelineInv'
  OBVIOUS
<1>1. AudioInv /\ StopInv /\ MicInv /\ PauseInv
  BY DEF PipelineInv, AudioInv
<1>2. CASE Next
  <2>1. AudioInv' /\ StopInv' /\ MicInv' /\ PauseInv'
    BY <1>1, <1>2, NextKeepsAudio, StopStep, MicStep, PauseStep
  <2> QED
    BY <2>1 DEF AudioInv, PipelineInv
<1>3. CASE UNCHANGED vars
  <2>1. UNCHANGED <<captured, stream, queue, closed, paused, entry, job, turns, step,
                    flushing, row, clips, segments, daemon, failures, runs, discarded,
                    since_pause>>
    BY <1>3 DEF vars, work_vars, store_vars
  <2>2. TypeOK'
    BY <1>1, <2>1 DEF AudioInv, TypeOK
  <2>3. AudioInv'
    BY <1>1, <2>1, <2>2, SameHeard DEF AudioInv, QueueInv
  <2>4. StopInv'
    BY <1>1, <2>1, SameStop
  <2>5. MicInv' /\ PauseInv'
    BY <1>1, <2>1 DEF MicInv, Ending, PauseInv
  <2> QED
    BY <2>3, <2>4, <2>5 DEF AudioInv, PipelineInv
<1> QED
  BY <1>2, <1>3

(* Everything the project proves of the pipeline rests on this: buffers    *)
(* move through the queue, a half-built turn, the turn being written and a *)
(* row in the order they were captured, and the daemon's stop empties one  *)
(* stage before it ends the next.                                          *)
THEOREM PipelineInvariant == Spec => []PipelineInv
PROOF
BY InitHolds, NextKeepsInvariant, PTL DEF Spec

(* The variables keep their types: the state of pipeline.rs, control.rs    *)
(* and the store's two tables as the model has it.                         *)
THEOREM PipelineTypeCorrect == Spec => []TypeOK
PROOF
<1>1. PipelineInv => TypeOK
  BY DEF PipelineInv
<1> QED
  BY <1>1, PipelineInvariant, PTL

(* No clip that a row names is ever truncated by a later one or missing,   *)
(* and no two rows share a file: write_piece.                              *)
THEOREM RowsAlwaysHaveTheirClips == Spec => []RowsHaveTheirClips
PROOF
<1>1. PipelineInv => RowsHaveTheirClips
  <2> SUFFICES ASSUME PipelineInv, NEW g \in segments, NEW h \in segments,
                      g.path = h.path
               PROVE  segments \subseteq clips /\ g = h
    BY DEF RowsHaveTheirClips, PipelineInv, RowInv
  <2>1. RowInv
    BY DEF PipelineInv
  <2>2. /\ BufferOf(g.path.session, g.path.start) \in g.audio
        /\ BufferOf(g.path.session, g.path.start) \in h.audio
    BY <2>1 DEF RowInv, GoodRow
  <2> QED
    BY <2>1, <2>2 DEF RowInv
<1> QED
  BY <1>1, PipelineInvariant, PTL

(* Whatever the capture thread, the inference thread, the pause switch and *)
(* the end of the process do between two statements of each other, every   *)
(* buffer captured is in exactly one place, or given up for a reason.      *)
THEOREM SpeechIsAlwaysInOnePlace == Spec => []SpeechIsInOnePlace
PROOF
<1>1. PipelineInv => SpeechIsInOnePlace
  <2> SUFFICES ASSUME PipelineInv
               PROVE  SpeechIsInOnePlace
    OBVIOUS
  <2> DEFINE queued == Heard(queue)
             places == <<queued, HeldAll, InHand, Stored>>
  <2>1. Partition(AllCaptured, queued, HeldAll, InHand, Stored, discarded)
    BY DEF PipelineInv, PlaceInv
  <2> HIDE DEF queued
  <2>2. AllCaptured \ discarded = queued \union HeldAll \union InHand \union Stored
    BY <2>1 DEF Partition
  <2>3. /\ places[1] = queued /\ places[2] = HeldAll
        /\ places[3] = InHand /\ places[4] = Stored
    OBVIOUS
  <2> HIDE DEF places
  <2>4. ASSUME NEW a \in {1, 2, 3, 4}, NEW b \in {1, 2, 3, 4}, a < b
        PROVE  places[a] \intersect places[b] = {}
    <3>1. \/ a = 1 /\ b \in {2, 3, 4}
          \/ a = 2 /\ b \in {3, 4}
          \/ a = 3 /\ b = 4
      BY <2>4
    <3> QED
      BY <2>1, <2>3, <3>1 DEF Partition
  <2>5. \A g, h \in segments : g # h => g.audio \intersect h.audio = {}
    BY DEF PipelineInv, RowInv
  <2> QED
    BY <2>2, <2>4, <2>5 DEF SpeechIsInOnePlace, places, queued
<1> QED
  BY <1>1, PipelineInvariant, PTL

(* No row of the store speaks across audio that was thrown away.           *)
THEOREM RowsAreAlwaysOneStretch == Spec => []RowsAreOneStretch
PROOF
<1>1. PipelineInv => RowsAreOneStretch
  <2> SUFFICES ASSUME PipelineInv, NEW g \in segments, NEW b \in discarded,
                      b.session = g.path.session,
                      NEW c \in g.audio, NEW d \in g.audio,
                      ~(c.number > b.number), ~(d.number < b.number)
               PROVE  FALSE
    BY DEF RowsAreOneStretch
  <2>1. GoodRow(g) /\ g.audio \subseteq Buffers /\ b \in Buffers
    BY DEF PipelineInv, RowInv, TypeOK, Clip
  <2>2. /\ c.number \in Nat /\ d.number \in Nat /\ b.number \in Nat
        /\ c.session = b.session
        /\ b = BufferOf(b.session, b.number)
    BY <2>1 DEF Buffers, BufferOf, GoodRow, AllOf
  <2>3. BufferOf(c.session, b.number) \in g.audio
    BY <2>1, <2>2 DEF GoodRow, Unbroken
  <2>4. b \in Stored
    BY <2>2, <2>3 DEF Stored
  <2> QED
    BY <2>4 DEF PipelineInv, PlaceInv, Partition
<1> QED
  BY <1>1, PipelineInvariant, PTL

(* Once the user has paused, at most the turn whose check in write_segment *)
(* came first is still written.                                            *)
THEOREM PauseAlwaysStopsWriting == Spec => []PauseStopsWriting
PROOF
<1>1. PipelineInv => PauseStopsWriting
  BY DEF PipelineInv, PauseInv, PauseStopsWriting
<1> QED
  BY <1>1, PipelineInvariant, PTL

(* After a clean stop no microphone or room session is left open, because  *)
(* capture::run says so for each before the queue is closed and run drains *)
(* the queue before it exits.                                              *)
THEOREM MicRowsAreClosedAtStop == Spec => []MicRowsClosedAtStop
PROOF
<1>1. PipelineInv => MicRowsClosedAtStop
  <2> SUFFICES ASSUME PipelineInv, daemon = "stopped", failures = 0, NEW s \in Mics,
                      row[s] = "open"
               PROVE  FALSE
    BY DEF MicRowsClosedAtStop
  <2>1. s \in Sessions /\ queue = <<>> /\ job = NoJob /\ stream[s] # "live"
    BY PipelineAssumption DEF PipelineInv, StopInv, NothingIsLeft, StreamsStop
  <2>2. Ending(s)
    BY DEF PipelineInv, MicInv
  <2> QED
    BY <2>1, <2>2 DEF Ending
<1> QED
  BY <1>1, PipelineInvariant, PTL
=============================================================================
