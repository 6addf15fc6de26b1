-------------------------- MODULE EventQueueProofs --------------------------
(***************************************************************************)
(* Proofs about EventQueue, for every set of sessions, every set of buffer *)
(* lengths and every budget.                                               *)
(***************************************************************************)
EXTENDS EventQueue, FiniteSetTheorems, WellFoundedInduction, TLAPS

ST == INSTANCE SequenceTheorems

(* RemoveAt closes the gap: what stood before position i stays where it    *)
(* is, what stood behind it moves up by one.                               *)
LEMMA RemoveAtProperties ==
    ASSUME NEW S, NEW s \in Seq(S), NEW i \in 1..Len(s)
    PROVE  /\ RemoveAt(s, i) \in Seq(S)
           /\ Len(RemoveAt(s, i)) = Len(s) - 1
           /\ \A j \in 1..(Len(s) - 1) :
                 RemoveAt(s, i)[j] = IF j < i THEN s[j] ELSE s[j + 1]
PROOF
<1> DEFINE front == SubSeq(s, 1, i - 1)
           back == SubSeq(s, i + 1, Len(s))
<1>1. Len(s) \in Nat /\ \A j \in 1..Len(s) : s[j] \in S
  OBVIOUS
<1>2. /\ front \in Seq(S)
      /\ Len(front) = i - 1
      /\ \A j \in 1..(i - 1) : front[j] = s[j]
  BY <1>1
<1>3. /\ back \in Seq(S)
      /\ Len(back) = Len(s) - i
      /\ \A j \in 1..(Len(s) - i) : back[j] = s[j + i]
  BY <1>1
<1> HIDE DEF front, back
<1>4. /\ front \o back \in Seq(S)
      /\ Len(front \o back) = Len(front) + Len(back)
      /\ \A j \in 1..(Len(front) + Len(back)) :
            (front \o back)[j] = IF j <= Len(front) THEN front[j]
                                 ELSE back[j - Len(front)]
  BY <1>2, <1>3, ST!ConcatProperties
<1>5. ASSUME NEW j \in 1..(Len(s) - 1)
      PROVE  (front \o back)[j] = IF j < i THEN s[j] ELSE s[j + 1]
  <2>1. CASE j < i
    BY <1>1, <1>2, <1>3, <1>4, <2>1
  <2>2. CASE ~(j < i)
    <3>1. (front \o back)[j] = back[j - (i - 1)]
      BY <1>1, <1>2, <1>3, <1>4, <2>2
    <3>2. j - (i - 1) \in 1..(Len(s) - i)
      BY <1>1, <2>2
    <3>3. back[j - (i - 1)] = s[(j - (i - 1)) + i]
      BY <1>3, <3>2
    <3> QED
      BY <1>1, <2>2, <3>1, <3>3
  <2> QED
    BY <2>1, <2>2
<1>6. Len(front \o back) = Len(s) - 1
  BY <1>1, <1>2, <1>3, <1>4
<1> QED
  BY <1>4, <1>5, <1>6 DEF RemoveAt, front, back

(* The deque as a set, after each of the three ways it changes.            *)
LEMMA ToSetAppend ==
    ASSUME NEW S, NEW s \in Seq(S), NEW e \in S
    PROVE  ToSet(Append(s, e)) = ToSet(s) \union {e}
PROOF
<1>1. /\ DOMAIN s = 1..Len(s) /\ Len(s) \in Nat
      /\ DOMAIN Append(s, e) = 1..(Len(s) + 1)
      /\ \A i \in 1..Len(s) : Append(s, e)[i] = s[i]
      /\ Append(s, e)[Len(s) + 1] = e
  OBVIOUS
<1> QED
  BY <1>1 DEF ToSet

LEMMA ToSetRemoveAt ==
    ASSUME NEW S, NEW s \in Seq(S), NEW i \in 1..Len(s),
           \A j, k \in 1..Len(s) : j # k => s[j] # s[k]
    PROVE  ToSet(RemoveAt(s, i)) = ToSet(s) \ {s[i]}
PROOF
<1> DEFINE r == RemoveAt(s, i)
<1>1. /\ r \in Seq(S)
      /\ Len(r) = Len(s) - 1
      /\ \A j \in 1..(Len(s) - 1) : r[j] = IF j < i THEN s[j] ELSE s[j + 1]
  BY RemoveAtProperties
<1> HIDE DEF r
<1>2. DOMAIN s = 1..Len(s) /\ DOMAIN r = 1..(Len(s) - 1) /\ Len(s) \in Nat
  BY <1>1
<1>3. ASSUME NEW j \in 1..(Len(s) - 1)
      PROVE  r[j] \in ToSet(s) \ {s[i]}
  <2>1. CASE j < i
    BY <1>1, <1>2, <2>1 DEF ToSet
  <2>2. CASE ~(j < i)
    <3>1. j + 1 \in 1..Len(s) /\ j + 1 # i /\ r[j] = s[j + 1]
      BY <1>1, <1>2, <2>2
    <3> QED
      BY <1>2, <3>1 DEF ToSet
  <2> QED
    BY <2>1, <2>2
<1>4. ASSUME NEW j \in 1..Len(s), j # i
      PROVE  s[j] \in ToSet(r)
  <2>1. CASE j < i
    <3>1. j \in 1..(Len(s) - 1)
      BY <1>2, <2>1
    <3>2. r[j] = s[j]
      BY <1>1, <2>1, <3>1
    <3> QED
      BY <1>2, <3>1, <3>2 DEF ToSet
  <2>2. CASE j > i
    <3>1. j - 1 \in 1..(Len(s) - 1) /\ ~(j - 1 < i) /\ (j - 1) + 1 = j
      BY <1>2, <2>2
    <3>2. r[j - 1] = s[j]
      BY <1>1, <3>1
    <3> QED
      BY <1>2, <3>1, <3>2 DEF ToSet
  <2> QED
    BY <1>2, <1>4, <2>1, <2>2
<1> QED
  BY <1>2, <1>3, <1>4 DEF ToSet, r

LEMMA ToSetTail ==
    ASSUME NEW S, NEW s \in Seq(S), s # <<>>,
           \A j, k \in 1..Len(s) : j # k => s[j] # s[k]
    PROVE  /\ Head(s) = s[1] /\ 1 \in 1..Len(s)
           /\ Tail(s) \in Seq(S)
           /\ Len(Tail(s)) = Len(s) - 1
           /\ \A j \in 1..(Len(s) - 1) : Tail(s)[j] = s[j + 1]
           /\ ToSet(Tail(s)) = ToSet(s) \ {Head(s)}
PROOF
<1>1. /\ DOMAIN s = 1..Len(s) /\ Len(s) \in Nat /\ Len(s) # 0
      /\ Head(s) = s[1]
      /\ Tail(s) \in Seq(S)
      /\ Len(Tail(s)) = Len(s) - 1
      /\ DOMAIN Tail(s) = 1..(Len(s) - 1)
      /\ \A j \in 1..(Len(s) - 1) : Tail(s)[j] = s[j + 1]
  OBVIOUS
<1>2. ASSUME NEW j \in 1..Len(s), j # 1
      PROVE  s[j] \in ToSet(Tail(s))
  <2>1. j - 1 \in 1..(Len(s) - 1) /\ Tail(s)[j - 1] = s[j]
    BY <1>1, <1>2
  <2> QED
    BY <1>1, <2>1 DEF ToSet
<1>3. ASSUME NEW j \in 1..(Len(s) - 1)
      PROVE  Tail(s)[j] \in ToSet(s) \ {s[1]}
  BY <1>1 DEF ToSet
<1> QED
  BY <1>1, <1>2, <1>3 DEF ToSet

-----------------------------------------------------------------------------
(* The inductive invariant.  The ordering of the deque is what makes the   *)
(* rest inductive: without it the loop could take back a ticket that was   *)
(* already handed out, or take the newest buffer for the oldest.           *)
IInv ==
    /\ TypeOK
    /\ FirstInFirstOut
    /\ NothingVanishes
    /\ ControlNeverEvicted
    /\ NewestAudioKept

LEMMA EventFields ==
    ASSUME NEW e \in Event
    PROVE  /\ e.ticket \in Nat /\ e.ticket \in 1..MaxEvents
           /\ e.weight \in Nat
           /\ e.kind \in Kinds
PROOF
<1>1. e.ticket \in 1..MaxEvents /\ e.kind \in Kinds /\ e.weight \in Weights \union {0}
  BY DEF Event
<1>2. Weights \union {0} \subseteq Nat
  BY QueueAssumption
<1>3. 1..MaxEvents \subseteq Nat
  BY QueueAssumption
<1> QED
  BY <1>1, <1>2, <1>3

(* Facts about the positions of the deque every step of the proof needs.   *)
LEMMA DequeFacts ==
    ASSUME IInv
    PROVE  /\ Len(items) \in Nat
           /\ DOMAIN items = 1..Len(items)
           /\ \A i \in 1..Len(items) : items[i] \in Event
           /\ \A i \in 1..Len(items) : items[i].ticket \in Nat
           /\ \A i, j \in 1..Len(items) : i # j => items[i] # items[j]
PROOF
<1>1. /\ Len(items) \in Nat
      /\ DOMAIN items = 1..Len(items)
      /\ \A i \in 1..Len(items) : items[i] \in Event
  BY DEF IInv, TypeOK
<1>2. \A i \in 1..Len(items) : items[i].ticket \in Nat
  BY <1>1, EventFields
<1>3. ASSUME NEW i \in 1..Len(items), NEW j \in 1..Len(items), i # j
      PROVE  items[i] # items[j]
  <2>1. CASE i < j
    BY <1>1, <1>2, <2>1 DEF IInv, FirstInFirstOut
  <2>2. CASE j < i
    BY <1>1, <1>2, <2>2 DEF IInv, FirstInFirstOut
  <2> QED
    BY <1>3, <2>1, <2>2
<1> QED
  BY <1>1, <1>2, <1>3

(* The loop's victim is an audio buffer, and a newer one stays behind.     *)
LEMMA VictimFacts ==
    ASSUME IInv, MustEvict, NEW v, OldestAudioAt(v)
    PROVE  /\ v \in 1..Len(items)
           /\ is_audio(items[v])
           /\ \E j \in 1..Len(items) : v < j /\ is_audio(items[j])
           /\ \A j \in 1..Len(items) : is_audio(items[j]) => v <= j
PROOF
<1>1. AudioAt \subseteq 1..Len(items) /\ Len(items) \in Nat
  BY DequeFacts DEF AudioAt
<1>2. PICK a, b \in AudioAt : a # b
  BY DEF MustEvict
<1>3. v \in AudioAt /\ \A j \in AudioAt : v <= j
  BY DEF OldestAudioAt
<1>4. \E j \in AudioAt : v < j
  BY <1>1, <1>2, <1>3
<1> QED
  BY <1>1, <1>3, <1>4, DequeFacts DEF AudioAt

LEMMA InitEstablishes == Init => IInv
PROOF
<1> SUFFICES ASSUME Init PROVE IInv
  OBVIOUS
<1>1. items \in Seq(Event) /\ DOMAIN items = {} /\ Queued = {}
  BY DEF Init, Queued, ToSet
<1>2. TypeOK
  BY <1>1 DEF Init, TypeOK
<1>3. FirstInFirstOut /\ ControlNeverEvicted /\ NewestAudioKept
  BY <1>1 DEF Init, FirstInFirstOut, ControlNeverEvicted, NewestAudioKept
<1>4. NothingVanishes
  BY <1>1 DEF Init, NothingVanishes
<1> QED
  BY <1>2, <1>3, <1>4 DEF IInv

(* A push: the newcomer's ticket is larger than any issued before.         *)
LEMMA EnqueuePreserves ==
    ASSUME IInv, NEW k \in Kinds, NEW s \in Sessions,
           NEW w \in Weights \union {0}, Enqueue(k, s, w)
    PROVE  IInv'
PROOF
<1> DEFINE e == [ticket |-> accepted + 1, kind |-> k, session |-> s, weight |-> w]
<1>1. e \in Event /\ e.ticket = accepted + 1 /\ accepted \in Nat /\ w \in Nat
  <2>1. accepted \in Nat /\ accepted + 1 \in 1..MaxEvents
    BY QueueAssumption DEF IInv, TypeOK, Enqueue
  <2>2. w \in Nat
    BY QueueAssumption
  <2> QED
    BY <2>1, <2>2 DEF Event
<1>2. /\ items' = Append(items, e) /\ accepted' = accepted + 1
      /\ UNCHANGED <<closed, consumer, dropped_chunks, delivered, evicted>>
      /\ pushing' = TRUE /\ queued_samples' = queued_samples + w
  BY DEF Enqueue
<1>3. items \in Seq(Event)
  BY DEF IInv, TypeOK
<1> HIDE DEF e
<1>4. /\ items' \in Seq(Event)
      /\ DOMAIN items' = 1..(Len(items) + 1)
      /\ \A i \in 1..Len(items) : items'[i] = items[i]
      /\ items'[Len(items) + 1] = e
  BY <1>1, <1>2, <1>3
<1>5. Queued' = Queued \union {e}
  BY <1>1, <1>2, <1>3, ToSetAppend DEF Queued
<1>6. \A f \in Queued \union delivered \union evicted :
         f.ticket \in Nat /\ f.ticket <= accepted
  <2>1. Queued \union delivered \union evicted \subseteq Event
    BY DequeFacts DEF Queued, ToSet, IInv, TypeOK
  <2> QED
    BY <2>1, EventFields DEF IInv, NothingVanishes
<1>7. TypeOK'
  BY <1>1, <1>2, <1>4 DEF IInv, TypeOK
<1>8. FirstInFirstOut'
  <2>1. \A i \in 1..Len(items) : items[i] \in Queued
    BY DequeFacts DEF Queued, ToSet
  <2>2. ASSUME NEW i \in DOMAIN items', NEW j \in DOMAIN items', i < j
        PROVE  items'[i].ticket < items'[j].ticket
    <3>1. CASE j = Len(items) + 1
      BY <1>1, <1>4, <1>6, <2>1, <2>2, <3>1, DequeFacts
    <3>2. CASE j # Len(items) + 1
      <4>1. i \in 1..Len(items) /\ j \in 1..Len(items)
        BY <1>4, <2>2, <3>2, DequeFacts
      <4>2. items'[i] = items[i] /\ items'[j] = items[j]
        BY <1>4, <4>1
      <4> QED
        BY <2>2, <4>1, <4>2, DequeFacts DEF IInv, FirstInFirstOut
    <3> QED
      BY <3>1, <3>2
  <2>3. ASSUME NEW d \in delivered', NEW i \in DOMAIN items'
        PROVE  d.ticket < items'[i].ticket
    <3>1. CASE i = Len(items) + 1
      BY <1>1, <1>2, <1>4, <1>6, <3>1
    <3>2. CASE i # Len(items) + 1
      <4>1. i \in 1..Len(items)
        BY <1>4, <3>2, DequeFacts
      <4> QED
        BY <1>2, <1>4, <4>1, DequeFacts DEF IInv, FirstInFirstOut
    <3> QED
      BY <3>1, <3>2
  <2> QED
    BY <2>2, <2>3 DEF FirstInFirstOut
<1>9. NothingVanishes'
  <2>1. \A f \in Queued' \union delivered' \union evicted' : f.ticket <= accepted'
    BY <1>1, <1>2, <1>5, <1>6
  <2>2. ASSUME NEW t \in 1..accepted'
        PROVE  \E f \in Queued' \union delivered' \union evicted' : f.ticket = t
    <3>1. CASE t = accepted + 1
      BY <1>1, <1>5, <3>1
    <3>2. CASE t # accepted + 1
      <4>1. t \in 1..accepted
        BY <1>1, <1>2, <3>2
      <4> QED
        BY <1>2, <1>5, <4>1 DEF IInv, NothingVanishes
    <3> QED
      BY <3>1, <3>2
  <2>3. \A f \in evicted' : \A g \in Queued' \union delivered' :
           f.ticket # g.ticket
    BY <1>1, <1>2, <1>5, <1>6 DEF IInv, NothingVanishes
  <2> QED
    BY <2>1, <2>2, <2>3 DEF NothingVanishes
<1>10. ControlNeverEvicted'
  BY <1>2 DEF IInv, ControlNeverEvicted
<1>11. NewestAudioKept'
  BY <1>2, <1>5 DEF IInv, NewestAudioKept, is_audio
<1> QED
  BY <1>7, <1>8, <1>9, <1>10, <1>11 DEF IInv

(* One turn of the loop: the victim is never the last audio buffer, so     *)
(* whatever vouched for earlier victims, or a newer buffer, stays.         *)
LEMMA EvictPreserves ==
    ASSUME IInv, EvictOldest
    PROVE  IInv'
PROOF
<1>1. PICK v \in AudioAt :
         /\ OldestAudioAt(v)
         /\ items' = RemoveAt(items, v)
         /\ queued_samples' = Saturating(queued_samples, items[v].weight)
         /\ evicted' = evicted \union {items[v]}
  BY DEF EvictOldest
<1>2. /\ UNCHANGED <<closed, pushing, consumer, accepted, delivered>>
      /\ dropped_chunks' = dropped_chunks + 1 /\ MustEvict
  BY DEF EvictOldest
<1>3. /\ v \in 1..Len(items)
      /\ is_audio(items[v])
      /\ \E j \in 1..Len(items) : v < j /\ is_audio(items[j])
  BY <1>1, <1>2, VictimFacts
<1>4. /\ items' \in Seq(Event)
      /\ DOMAIN items' = 1..(Len(items) - 1)
      /\ \A j \in 1..(Len(items) - 1) :
            items'[j] = IF j < v THEN items[j] ELSE items[j + 1]
  <2>1. items \in Seq(Event)
    BY DEF IInv, TypeOK
  <2>2. /\ RemoveAt(items, v) \in Seq(Event)
        /\ Len(RemoveAt(items, v)) = Len(items) - 1
        /\ \A j \in 1..(Len(items) - 1) : RemoveAt(items, v)[j] =
              IF j < v THEN items[j] ELSE items[j + 1]
    BY <1>3, <2>1, RemoveAtProperties
  <2> QED
    BY <1>1, <2>2
<1>5. Queued' = Queued \ {items[v]}
  BY <1>1, <1>3, ToSetRemoveAt, DequeFacts DEF IInv, TypeOK, Queued
<1>6. items[v] \in Event /\ items[v] \in Queued
  BY <1>3, DequeFacts DEF Queued, ToSet
<1>7. TypeOK'
  <2>1. queued_samples' \in Nat
    BY <1>1, <1>6, EventFields DEF IInv, TypeOK, Saturating
  <2> QED
    BY <1>1, <1>2, <1>4, <1>6, <2>1 DEF IInv, TypeOK
<1>8. ASSUME NEW j \in DOMAIN items'
      PROVE  \E k \in 1..Len(items) :
                /\ items'[j] = items[k]
                /\ k = IF j < v THEN j ELSE j + 1
  <2>1. CASE j < v
    BY <1>3, <1>4, <2>1, DequeFacts
  <2>2. CASE ~(j < v)
    BY <1>3, <1>4, <2>2, DequeFacts
  <2> QED
    BY <2>1, <2>2
<1>9. FirstInFirstOut'
  <2>1. ASSUME NEW i \in DOMAIN items', NEW j \in DOMAIN items', i < j
        PROVE  items'[i].ticket < items'[j].ticket
    <3>1. PICK ki \in 1..Len(items) :
             items'[i] = items[ki] /\ ki = IF i < v THEN i ELSE i + 1
      BY <1>8
    <3>2. PICK kj \in 1..Len(items) :
             items'[j] = items[kj] /\ kj = IF j < v THEN j ELSE j + 1
      BY <1>8
    <3>3. ki < kj
      BY <1>3, <1>4, <2>1, <3>1, <3>2, DequeFacts
    <3> QED
      BY <3>1, <3>2, <3>3, DequeFacts DEF IInv, FirstInFirstOut
  <2>2. \A d \in delivered' : \A i \in DOMAIN items' :
           d.ticket < items'[i].ticket
    BY <1>2, <1>8, DequeFacts DEF IInv, FirstInFirstOut
  <2> QED
    BY <2>1, <2>2 DEF FirstInFirstOut
<1>10. \A f \in Queued' \union delivered : f.ticket # items[v].ticket
  <2>1. ASSUME NEW f \in Queued'
        PROVE  f.ticket # items[v].ticket
    <3>1. PICK k \in 1..Len(items) : f = items[k] /\ k # v
      BY <1>5, DequeFacts DEF Queued, ToSet
    <3>2. CASE k < v
      BY <1>3, <3>1, <3>2, DequeFacts DEF IInv, FirstInFirstOut
    <3>3. CASE v < k
      BY <1>3, <3>1, <3>3, DequeFacts DEF IInv, FirstInFirstOut
    <3> QED
      BY <1>3, <3>1, <3>2, <3>3
  <2>2. ASSUME NEW f \in delivered
        PROVE  f.ticket # items[v].ticket
    <3>1. f.ticket < items[v].ticket
      BY <1>3, DequeFacts DEF IInv, FirstInFirstOut
    <3>2. f.ticket \in Nat /\ items[v].ticket \in Nat
      BY <1>6, EventFields DEF IInv, TypeOK
    <3> QED
      BY <3>1, <3>2
  <2> QED
    BY <2>1, <2>2
<1>11. NothingVanishes'
  <2>1. Queued' \union delivered' \union evicted' =
           Queued \union delivered \union evicted
    BY <1>1, <1>2, <1>5, <1>6
  <2> QED
    BY <1>1, <1>2, <1>5, <1>10, <2>1 DEF IInv, NothingVanishes
<1>12. ControlNeverEvicted'
  BY <1>1, <1>3 DEF IInv, ControlNeverEvicted, is_audio
<1>13. NewestAudioKept'
  <2>1. PICK j \in 1..Len(items) : v < j /\ is_audio(items[j])
    BY <1>3
  <2>2. items[v].ticket < items[j].ticket
    BY <1>3, <2>1, DequeFacts DEF IInv, FirstInFirstOut
  <2>3. items[j] \in Queued'
    <3>1. items[j] \in Queued
      BY <2>1, DequeFacts DEF Queued, ToSet
    <3>2. items[j] # items[v]
      BY <1>3, <2>1, DequeFacts
    <3> QED
      BY <1>5, <3>1, <3>2
  <2>4. ASSUME NEW e \in evicted'
        PROVE  \E f \in Queued' \union delivered' :
                  is_audio(f) /\ f.ticket > e.ticket
    <3>1. CASE e = items[v]
      BY <1>6, <2>1, <2>2, <2>3, <3>1, DequeFacts
    <3>2. CASE e \in evicted
      <4>1. PICK f \in Queued \union delivered : is_audio(f) /\ f.ticket > e.ticket
        BY <3>2 DEF IInv, NewestAudioKept
      <4>2. CASE f = items[v]
        <5>1. e.ticket \in Nat
          BY <3>2, EventFields DEF IInv, TypeOK
        <5>2. items[j].ticket > e.ticket
          BY <1>3, <2>1, <2>2, <4>1, <4>2, <5>1, DequeFacts
        <5> QED
          BY <2>1, <2>3, <5>2
      <4>3. CASE f # items[v]
        BY <1>2, <1>5, <4>1, <4>3
      <4> QED
        BY <4>2, <4>3
    <3> QED
      BY <1>1, <2>4, <3>1, <3>2
  <2> QED
    BY <2>4 DEF NewestAudioKept
<1> QED
  BY <1>7, <1>9, <1>11, <1>12, <1>13 DEF IInv

(* A pop: the front item has the smallest ticket in the deque.             *)
LEMMA PopPreserves ==
    ASSUME IInv, Pop
    PROVE  IInv'
PROOF
<1>1. /\ items # <<>> /\ items' = Tail(items)
      /\ queued_samples' = Saturating(queued_samples, Head(items).weight)
      /\ delivered' = delivered \union {Head(items)}
      /\ UNCHANGED <<closed, pushing, consumer, dropped_chunks, accepted,
                     evicted>>
  BY DEF Pop
<1>2. items \in Seq(Event)
  BY DEF IInv, TypeOK
<1>3. /\ Head(items) = items[1] /\ 1 \in 1..Len(items)
      /\ items' \in Seq(Event)
      /\ Len(items') = Len(items) - 1
      /\ \A j \in 1..(Len(items) - 1) : items'[j] = items[j + 1]
      /\ Queued' = Queued \ {items[1]}
  BY <1>1, <1>2, ToSetTail, DequeFacts DEF Queued
<1>4. items[1] \in Event /\ items[1] \in Queued
  BY <1>3, DequeFacts DEF Queued, ToSet
<1>5. DOMAIN items' = 1..(Len(items) - 1)
  BY <1>3
<1>6. TypeOK'
  <2>1. queued_samples' \in Nat
    BY <1>1, <1>3, <1>4, EventFields DEF IInv, TypeOK, Saturating
  <2> QED
    BY <1>1, <1>3, <1>4, <2>1 DEF IInv, TypeOK
<1>7. \A j \in DOMAIN items' :
         items'[j] = items[j + 1] /\ j + 1 \in 1..Len(items) /\ 1 < j + 1
  BY <1>3, <1>5, DequeFacts
<1>8. FirstInFirstOut'
  <2>1. ASSUME NEW i \in DOMAIN items', NEW j \in DOMAIN items', i < j
        PROVE  items'[i].ticket < items'[j].ticket
    <3>1. i + 1 < j + 1
      BY <1>5, <2>1, DequeFacts
    <3> QED
      BY <1>7, <3>1, DequeFacts DEF IInv, FirstInFirstOut
  <2>2. ASSUME NEW d \in delivered', NEW i \in DOMAIN items'
        PROVE  d.ticket < items'[i].ticket
    <3>1. CASE d = items[1]
      BY <1>3, <1>7, <3>1, DequeFacts DEF IInv, FirstInFirstOut
    <3>2. CASE d \in delivered
      BY <1>7, <3>2, DequeFacts DEF IInv, FirstInFirstOut
    <3> QED
      BY <1>1, <1>3, <2>2, <3>1, <3>2
  <2> QED
    BY <2>1, <2>2 DEF FirstInFirstOut
<1>9. Queued' \union delivered' = Queued \union delivered
  BY <1>1, <1>3, <1>4
<1>10. NothingVanishes'
  <2>1. Queued' \union delivered' \union evicted' =
           Queued \union delivered \union evicted
    BY <1>1, <1>9
  <2> QED
    BY <1>1, <1>9, <2>1 DEF IInv, NothingVanishes
<1>11. ControlNeverEvicted'
  BY <1>1 DEF IInv, ControlNeverEvicted
<1>12. NewestAudioKept'
  BY <1>1, <1>9 DEF IInv, NewestAudioKept, is_audio
<1> QED
  BY <1>6, <1>8, <1>10, <1>11, <1>12 DEF IInv

(* Steps that move no event.                                               *)
LEMMA QuietPreserves ==
    ASSUME IInv, TypeOK',
           UNCHANGED <<items, accepted, delivered, evicted>>
    PROVE  IInv'
BY DEF IInv, FirstInFirstOut, NothingVanishes, ControlNeverEvicted,
       NewestAudioKept, Queued, ToSet, is_audio

LEMMA NextPreserves == IInv /\ [Next]_vars => IInv'
PROOF
<1> SUFFICES ASSUME IInv, [Next]_vars PROVE IInv'
  OBVIOUS
<1>1. CASE \E s \in Sessions : \E w \in Weights : PushAudio(s, w)
  BY <1>1, EnqueuePreserves DEF PushAudio, Kinds
<1>2. CASE \E s \in Sessions : PushSessionEnd(s) \/ PushGap(s)
  BY <1>2, EnqueuePreserves DEF PushSessionEnd, PushGap, Kinds
<1>3. CASE EvictOldest
  BY <1>3, EvictPreserves
<1>4. CASE PushDone
  BY <1>4, QuietPreserves DEF PushDone, IInv, TypeOK
<1>5. CASE Pop
  BY <1>5, PopPreserves
<1>6. CASE PopClosed
  BY <1>6, QuietPreserves DEF PopClosed, IInv, TypeOK
<1>7. CASE Close
  BY <1>7, QuietPreserves DEF Close, IInv, TypeOK
<1>8. CASE UNCHANGED vars
  BY <1>8, QuietPreserves DEF vars, IInv, TypeOK
<1> QED
  BY <1>1, <1>2, <1>3, <1>4, <1>5, <1>6, <1>7, <1>8 DEF Next

(* The queue keeps its variables in their types, hands events out in the   *)
(* order it took them, loses none but superseded audio: queue.rs push and  *)
(* pop, for every budget and every mix of buffer lengths.                  *)
THEOREM InvariantHolds == Spec => []IInv
BY InitEstablishes, NextPreserves, PTL DEF Spec

(* No session end or gap is ever evicted (the promise of queue.rs's doc).  *)
THEOREM ControlIsSafe == Spec => []ControlNeverEvicted
<1>1. IInv => ControlNeverEvicted
  BY DEF IInv
<1> QED
  BY <1>1, InvariantHolds, PTL

(* Order and conservation hold whatever the loop removes from the middle.  *)
THEOREM OrderAndConservation == Spec => [](FirstInFirstOut /\ NothingVanishes)
<1>1. IInv => FirstInFirstOut /\ NothingVanishes
  BY DEF IInv
<1> QED
  BY <1>1, InvariantHolds, PTL

(* The newest buffer survives every overflow.                              *)
THEOREM NewestSurvives == Spec => []NewestAudioKept
<1>1. IInv => NewestAudioKept
  BY DEF IInv
<1> QED
  BY <1>1, InvariantHolds, PTL

-----------------------------------------------------------------------------
(* A set of naturals has a least member: what stands for induction below.  *)
LEMMA LeastExists ==
    ASSUME NEW S, S \subseteq Nat, S # {}
    PROVE  \E m \in S : \A n \in S : m <= n
PROOF
<1> DEFINE Upto == {0 .. n : n \in S}
           R == StrictSubsetOrdering(Nat)
<1>1. Upto \subseteq FiniteSubsetsOf(Nat) /\ Upto # {}
  <2>1. \A n \in S : 0 .. n \subseteq Nat /\ IsFiniteSet(0 .. n)
    BY FS_Interval
  <2> QED
    BY <2>1 DEF FiniteSubsetsOf
<1>2. PICK T \in Upto : \A U \in Upto : ~(<<U, T>> \in R)
  <2>1. IsWellFoundedOn(R, FiniteSubsetsOf(Nat))
    BY FS_StrictSubsetOrderingWellFounded
  <2> HIDE DEF R, Upto
  <2> QED
    BY <1>1, <2>1, WFMin
<1>3. PICK m \in S : T = 0 .. m
  OBVIOUS
<1>4. ASSUME NEW n \in S, n < m
      PROVE  FALSE
  <2>1. 0 .. n \subseteq 0 .. m /\ m \in 0 .. m /\ m \notin 0 .. n
    BY <1>4
  <2>2. <<0 .. n, 0 .. m>> \in R
    BY <2>1 DEF StrictSubsetOrdering
  <2> QED
    BY <1>2, <1>3, <2>2
<1> QED
  BY <1>4

-----------------------------------------------------------------------------
(* The samples of a deque, position by position.  SamplesIn is the last of *)
(* these running totals; whatever satisfies the recursion is the function. *)
Weighed(q) == Len(q) \in Nat /\ \A i \in 1..Len(q) : q[i].weight \in Nat

Counts(t, q, n) ==
    /\ t \in [0..n -> Nat]
    /\ t[0] = 0
    /\ \A i \in 1..n : t[i] = t[i - 1] + q[i].weight

LEMMA TotalsExist ==
    ASSUME NEW q, Weighed(q), NEW n \in 0..Len(q)
    PROVE  \E t : Counts(t, q, n)
PROOF
<1> DEFINE Bad == {k \in 0..Len(q) : ~\E t : Counts(t, q, k)}
<1> SUFFICES ASSUME Bad # {} PROVE FALSE
  OBVIOUS
<1>1. Len(q) \in Nat /\ \A i \in 1..Len(q) : q[i].weight \in Nat
  BY DEF Weighed
<1>2. PICK m \in Bad : \A k \in Bad : m <= k
  <2>1. Bad \subseteq Nat
    BY <1>1
  <2> HIDE DEF Bad
  <2> QED
    BY <2>1, LeastExists
<1>3. m # 0
  <2>1. Counts([i \in 0..0 |-> 0], q, 0)
    BY DEF Counts
  <2> QED
    BY <2>1
<1>4. m - 1 \in 0..Len(q) /\ m \in 1..Len(q) /\ m - 1 \notin Bad
  <2>1. m \in 0..Len(q) /\ m \in Nat
    BY <1>1, <1>2
  <2>2. m - 1 \in 0..Len(q) /\ m \in 1..Len(q) /\ ~(m <= m - 1)
    BY <1>1, <1>3, <2>1
  <2> HIDE DEF Bad
  <2> QED
    BY <1>2, <2>2
<1>5. PICK t : Counts(t, q, m - 1)
  BY <1>4
<1> DEFINE u == [i \in 0..m |-> IF i = m THEN t[m - 1] + q[m].weight ELSE t[i]]
<1>6. Counts(u, q, m)
  <2>1. \A i \in 0..(m - 1) : t[i] \in Nat
    BY <1>5 DEF Counts
  <2>2. u \in [0..m -> Nat] /\ u[0] = 0
    <3>1. q[m].weight \in Nat /\ t[m - 1] \in Nat /\ t[0] = 0 /\ m \in Nat
      BY <1>1, <1>4, <1>5, <2>1 DEF Counts
    <3> QED
      BY <1>4, <2>1, <3>1
  <2>3. ASSUME NEW i \in 1..m
        PROVE  u[i] = u[i - 1] + q[i].weight
    <3>1. CASE i = m
      BY <1>1, <1>4, <3>1
    <3>2. CASE i # m
      <4>1. i \in 1..(m - 1) /\ i - 1 # m /\ i - 1 \in 0..m
        BY <1>1, <1>4, <3>2
      <4>2. u[i] = t[i] /\ u[i - 1] = t[i - 1]
        BY <1>1, <1>4, <3>2, <4>1
      <4> QED
        BY <1>5, <4>1, <4>2 DEF Counts
    <3> QED
      BY <3>1, <3>2
  <2> QED
    BY <2>2, <2>3 DEF Counts
<1> QED
  BY <1>2, <1>6

LEMMA TotalsAreUnique ==
    ASSUME NEW q, Weighed(q), NEW n \in 0..Len(q),
           NEW t, Counts(t, q, n), NEW u, Counts(u, q, n)
    PROVE  t[n] = u[n]
PROOF
<1> DEFINE Bad == {k \in 0..n : t[k] # u[k]}
<1> SUFFICES ASSUME Bad # {} PROVE FALSE
  BY DEF Weighed
<1>1. Len(q) \in Nat
  BY DEF Weighed
<1>2. PICK m \in Bad : \A k \in Bad : m <= k
  <2>1. Bad \subseteq Nat
    BY <1>1
  <2> HIDE DEF Bad
  <2> QED
    BY <2>1, LeastExists
<1>3. m \in 1..n /\ m - 1 \in 0..n /\ m - 1 \notin Bad
  BY <1>1, <1>2 DEF Counts
<1>4. t[m - 1] = u[m - 1]
  BY <1>3
<1> QED
  BY <1>2, <1>3, <1>4 DEF Counts

LEMMA SamplesAreTheTotal ==
    ASSUME NEW q, Weighed(q)
    PROVE  /\ SamplesIn(q) \in Nat
           /\ \A t : Counts(t, q, Len(q)) => t[Len(q)] = SamplesIn(q)
PROOF
<1> DEFINE Recursion(t) ==
               t = [i \in 0..Len(q) |-> IF i = 0 THEN 0 ELSE t[i - 1] + q[i].weight]
           total == CHOOSE t : Recursion(t)
<1>1. Len(q) \in Nat /\ \A i \in 1..Len(q) : q[i].weight \in Nat
  BY DEF Weighed
<1>2. SamplesIn(q) = total[Len(q)]
  BY DEF SamplesIn
<1>3. PICK t : Counts(t, q, Len(q))
  BY <1>1, TotalsExist
<1>4. Recursion(t)
  <2>1. \A i \in 0..Len(q) : t[i] = IF i = 0 THEN 0 ELSE t[i - 1] + q[i].weight
    BY <1>1, <1>3 DEF Counts
  <2> QED
    BY <1>3, <2>1 DEF Counts
<1>5. Recursion(total)
  BY <1>4
<1> HIDE DEF total
<1>6. /\ DOMAIN total = 0..Len(q)
      /\ total[0] = 0
      /\ \A i \in 1..Len(q) : total[i] = total[i - 1] + q[i].weight
  BY <1>1, <1>5
<1>7. \A i \in 0..Len(q) : total[i] \in Nat
  <2> DEFINE Bad == {k \in 0..Len(q) : total[k] \notin Nat}
  <2> SUFFICES ASSUME Bad # {} PROVE FALSE
    OBVIOUS
  <2>1. PICK m \in Bad : \A k \in Bad : m <= k
    <3>1. Bad \subseteq Nat
      BY <1>1
    <3> HIDE DEF Bad
    <3> QED
      BY <3>1, LeastExists
  <2>2. m # 0 /\ m - 1 \in 0..Len(q) /\ m - 1 \notin Bad /\ m \in 1..Len(q)
    BY <1>1, <1>6, <2>1
  <2>3. total[m - 1] \in Nat /\ total[m] = total[m - 1] + q[m].weight
    BY <1>6, <2>2
  <2> QED
    BY <1>1, <2>1, <2>2, <2>3
<1>8. Counts(total, q, Len(q))
  BY <1>5, <1>6, <1>7 DEF Counts
<1>9. ASSUME NEW u, Counts(u, q, Len(q))
      PROVE  u[Len(q)] = total[Len(q)]
  BY <1>1, <1>8, <1>9, TotalsAreUnique
<1> QED
  BY <1>1, <1>2, <1>7, <1>9

(* Totals never fall, and are zero where nothing weighs anything.          *)
LEMMA TotalsGrow ==
    ASSUME NEW q, Weighed(q), NEW t, Counts(t, q, Len(q)),
           NEW i \in 0..Len(q), NEW j \in 0..Len(q), i <= j
    PROVE  t[i] <= t[j]
PROOF
<1> DEFINE Bad == {k \in 0..Len(q) : i <= k /\ ~(t[i] <= t[k])}
<1> SUFFICES ASSUME Bad # {} PROVE FALSE
  OBVIOUS
<1>1. /\ Len(q) \in Nat
      /\ \A k \in 0..Len(q) : t[k] \in Nat
      /\ \A k \in 1..Len(q) : q[k].weight \in Nat /\ t[k] = t[k - 1] + q[k].weight
  BY DEF Weighed, Counts
<1>2. PICK m \in Bad : \A k \in Bad : m <= k
  <2>1. Bad \subseteq Nat
    BY <1>1
  <2> HIDE DEF Bad
  <2> QED
    BY <2>1, LeastExists
<1>3. m # i /\ m \in 1..Len(q) /\ m - 1 \in 0..Len(q) /\ i <= m - 1
  BY <1>1, <1>2
<1>4. m - 1 \notin Bad
  BY <1>1, <1>2, <1>3
<1>5. t[i] <= t[m - 1]
  BY <1>3, <1>4
<1>6. t[m] = t[m - 1] + q[m].weight /\ q[m].weight \in Nat
  BY <1>1, <1>3
<1>7. t[i] \in Nat /\ t[m - 1] \in Nat
  BY <1>1, <1>3
<1>8. ~(t[i] <= t[m])
  BY <1>2
<1> HIDE DEF Bad
<1> QED
  BY <1>5, <1>6, <1>7, <1>8

LEMMA SilenceWeighsNothing ==
    ASSUME NEW q, Weighed(q), NEW t, Counts(t, q, Len(q)),
           \A k \in 1..Len(q) : q[k].weight = 0
    PROVE  t[Len(q)] = 0
PROOF
<1> DEFINE Bad == {k \in 0..Len(q) : t[k] # 0}
<1> SUFFICES ASSUME Bad # {} PROVE FALSE
  BY DEF Weighed
<1>1. /\ Len(q) \in Nat /\ t[0] = 0
      /\ \A k \in 1..Len(q) : q[k].weight = 0 /\ t[k] = t[k - 1] + q[k].weight
  BY DEF Weighed, Counts
<1>2. PICK m \in Bad : \A k \in Bad : m <= k
  <2>1. Bad \subseteq Nat
    BY <1>1
  <2> HIDE DEF Bad
  <2> QED
    BY <2>1, LeastExists
<1>3. m \in 1..Len(q) /\ m - 1 \in 0..Len(q) /\ m - 1 \notin Bad
  BY <1>1, <1>2
<1>4. t[m - 1] = 0
  BY <1>3
<1> QED
  BY <1>1, <1>2, <1>3, <1>4

(* The three ways the deque changes, and what each does to the samples.    *)
LEMMA SamplesOfAppend ==
    ASSUME NEW S, NEW q \in Seq(S), Weighed(q), NEW e \in S, e.weight \in Nat
    PROVE  SamplesIn(Append(q, e)) = SamplesIn(q) + e.weight
PROOF
<1> DEFINE p == Append(q, e)
<1>1. /\ Len(p) = Len(q) + 1 /\ Len(q) \in Nat
      /\ \A i \in 1..Len(q) : p[i] = q[i]
      /\ p[Len(q) + 1] = e
  OBVIOUS
<1> HIDE DEF p
<1>2. Weighed(p)
  BY <1>1 DEF Weighed
<1>3. PICK t : Counts(t, p, Len(p))
  BY <1>1, <1>2, TotalsExist DEF Weighed
<1> DEFINE u == [i \in 0..Len(q) |-> t[i]]
<1>4. Counts(u, q, Len(q))
  <2>1. u \in [0..Len(q) -> Nat] /\ u[0] = 0
    BY <1>1, <1>3 DEF Counts
  <2>2. ASSUME NEW i \in 1..Len(q)
        PROVE  u[i] = u[i - 1] + q[i].weight
    <3>1. i \in 1..Len(p) /\ i \in 0..Len(q) /\ i - 1 \in 0..Len(q)
      BY <1>1
    <3> QED
      BY <1>1, <1>3, <3>1 DEF Counts
  <2> HIDE DEF u
  <2> QED
    BY <2>1, <2>2 DEF Counts
<1>5. SamplesIn(q) = t[Len(q)]
  <2>1. u[Len(q)] = t[Len(q)]
    BY <1>1
  <2> QED
    BY <1>4, <2>1, SamplesAreTheTotal
<1>6. t[Len(p)] = t[Len(q)] + e.weight
  <2>1. Len(p) \in 1..Len(p) /\ Len(p) - 1 = Len(q) /\ p[Len(p)] = e
    BY <1>1
  <2> QED
    BY <1>3, <2>1 DEF Counts
<1>7. SamplesIn(p) = t[Len(p)]
  BY <1>2, <1>3, SamplesAreTheTotal
<1> QED
  BY <1>5, <1>6, <1>7 DEF p

(* Taking out position v: every later total is smaller by v's weight.      *)
LEMMA SamplesWithout ==
    ASSUME NEW q, Weighed(q), NEW v \in 1..Len(q),
           NEW p, Len(p) = Len(q) - 1,
           \A i \in 1..(Len(q) - 1) : p[i] = IF i < v THEN q[i] ELSE q[i + 1]
    PROVE  /\ q[v].weight <= SamplesIn(q)
           /\ SamplesIn(p) = SamplesIn(q) - q[v].weight
PROOF
<1>1. Len(q) \in Nat /\ Len(q) - 1 \in Nat /\ \A i \in 1..Len(q) : q[i].weight \in Nat
  BY DEF Weighed
<1>2. Weighed(p)
  <2>1. ASSUME NEW i \in 1..Len(p)
        PROVE  p[i].weight \in Nat
    <3>1. CASE i < v
      BY <1>1, <3>1
    <3>2. CASE ~(i < v)
      <4>1. p[i] = q[i + 1] /\ i + 1 \in 1..Len(q)
        BY <1>1, <3>2
      <4> QED
        BY <1>1, <4>1
    <3> QED
      BY <3>1, <3>2
  <2> QED
    BY <1>1, <2>1 DEF Weighed
<1>3. PICK t : Counts(t, q, Len(q))
  BY <1>1, TotalsExist
<1>4. /\ \A i \in 0..Len(q) : t[i] \in Nat
      /\ t[0] = 0
      /\ \A i \in 1..Len(q) : t[i] = t[i - 1] + q[i].weight
  BY <1>3 DEF Counts
<1>5. v \in 0..Len(q) /\ v - 1 \in 0..Len(q) /\ t[v] = t[v - 1] + q[v].weight
  BY <1>1, <1>4
<1>6. \A i \in v..Len(q) : q[v].weight <= t[i]
  <2>1. ASSUME NEW i \in v..Len(q)
        PROVE  q[v].weight <= t[i]
    <3>1. i \in 0..Len(q) /\ v <= i
      BY <1>1
    <3>2. t[v] <= t[i]
      BY <1>3, <1>5, <3>1, TotalsGrow
    <3>3. t[v - 1] \in Nat /\ q[v].weight \in Nat /\ t[i] \in Nat
      BY <1>1, <1>4, <1>5, <3>1
    <3> QED
      BY <1>5, <3>2, <3>3
  <2> QED
    BY <2>1
<1> DEFINE u == [i \in 0..Len(p) |->
                   IF i < v THEN t[i] ELSE t[i + 1] - q[v].weight]
<1>7. Counts(u, p, Len(p))
  <2>1. ASSUME NEW i \in 0..Len(p)
        PROVE  u[i] \in Nat
    <3>1. CASE i < v
      BY <1>1, <1>4, <3>1
    <3>2. CASE ~(i < v)
      <4>1. i + 1 \in 0..Len(q) /\ i + 1 \in v..Len(q)
        BY <1>1, <3>2
      <4>2. t[i + 1] \in Nat /\ q[v].weight <= t[i + 1] /\ q[v].weight \in Nat
        BY <1>1, <1>4, <1>6, <4>1
      <4>3. u[i] = t[i + 1] - q[v].weight
        BY <3>2
      <4> QED
        BY <4>2, <4>3
    <3> QED
      BY <3>1, <3>2
  <2>2. u \in [0..Len(p) -> Nat]
    BY <2>1
  <2>3. u[0] = 0
    BY <1>1, <1>4
  <2>4. ASSUME NEW i \in 1..Len(p)
        PROVE  u[i] = u[i - 1] + p[i].weight
    <3>1. i \in 1..Len(q) /\ i + 1 \in 1..Len(q) /\ i - 1 \in 0..Len(p)
          /\ i \in 0..Len(p) /\ (i - 1) + 1 = i /\ (i + 1) - 1 = i
      BY <1>1
    <3>2. t[i] = t[i - 1] + q[i].weight /\ t[i + 1] = t[i] + q[i + 1].weight
      BY <1>4, <3>1
    <3>3. /\ t[i - 1] \in Nat /\ t[i] \in Nat /\ t[i + 1] \in Nat
          /\ q[v].weight \in Nat /\ q[i + 1].weight \in Nat
      BY <1>1, <1>4, <3>1
    <3>4. CASE i < v
      <4>1. u[i] = t[i] /\ u[i - 1] = t[i - 1] /\ p[i] = q[i]
        BY <1>1, <3>1, <3>4
      <4> HIDE DEF u
      <4> QED
        BY <3>2, <4>1
    <3>5. CASE i = v
      <4>1. u[i] = t[i + 1] - q[v].weight /\ u[i - 1] = t[i - 1] /\ p[i] = q[i + 1]
        BY <1>1, <3>1, <3>5
      <4>2. q[v].weight = q[i].weight
        BY <3>5
      <4>3. /\ t[i] = t[i - 1] + q[v].weight
            /\ t[i + 1] = t[i] + p[i].weight /\ p[i].weight \in Nat
        BY <3>2, <3>3, <4>1, <4>2
      <4> HIDE DEF u
      <4> DEFINE a == t[i - 1]
                 b == t[i]
                 c == t[i + 1]
                 w == q[v].weight
                 x == p[i].weight
      <4>4. a \in Nat /\ b = a + w /\ c = b + x /\ w \in Nat /\ x \in Nat
        BY <3>3, <4>3
      <4>5. u[i] = c - w /\ u[i - 1] = a
        BY <4>1
      <4> HIDE DEF a, b, c, w, x
      <4>6. u[i] = u[i - 1] + x
        BY <4>4, <4>5
      <4> QED
        BY <4>6 DEF x
    <3>6. CASE i > v
      <4> DEFINE b == t[i]
                 c == t[i + 1]
                 w == q[v].weight
                 x == p[i].weight
      <4>1. ~(i < v) /\ ~(i - 1 < v) /\ v \in Nat
        BY <1>1, <3>1, <3>6
      <4>2. u[i] = c - w
        BY <3>1, <4>1
      <4>3. u[i - 1] = b - w
        BY <3>1, <4>1
      <4> HIDE DEF u
      <4>4. p[i] = q[i + 1]
        BY <1>1, <3>1, <3>6
      <4>5. b \in Nat /\ c = b + x /\ w \in Nat /\ x \in Nat
        BY <3>2, <3>3, <4>4
      <4> HIDE DEF b, c, w, x
      <4>6. u[i] = u[i - 1] + x
        BY <4>2, <4>3, <4>5
      <4> QED
        BY <4>6 DEF x
    <3> QED
      BY <1>1, <3>4, <3>5, <3>6
  <2> HIDE DEF u
  <2> QED
    BY <2>2, <2>3, <2>4 DEF Counts
<1>8. SamplesIn(q) = t[Len(q)] /\ SamplesIn(p) = u[Len(p)]
  BY <1>2, <1>3, <1>7, SamplesAreTheTotal
<1>9. u[Len(p)] = t[Len(q)] - q[v].weight
  <2>1. CASE Len(p) < v
    <3>1. v = Len(q) /\ Len(p) = v - 1 /\ u[Len(p)] = t[Len(p)]
      BY <1>1, <2>1
    <3> QED
      BY <1>1, <1>4, <1>5, <3>1
  <2>2. CASE ~(Len(p) < v)
    <3>1. Len(p) + 1 = Len(q) /\ Len(p) \in 0..Len(p)
      BY <1>1
    <3> QED
      BY <2>2, <3>1
  <2> QED
    BY <2>1, <2>2
<1>10. Len(q) \in v..Len(q)
  BY <1>1
<1> QED
  BY <1>6, <1>8, <1>9, <1>10

(* A deque with at most one audio buffer: all its samples are that one's.  *)
LEMMA OneBufferOrNone ==
    ASSUME NEW q, Weighed(q), DOMAIN q = 1..Len(q),
           \A i \in 1..Len(q) : ~is_audio(q[i]) => q[i].weight = 0,
           \A i, j \in 1..Len(q) : is_audio(q[i]) /\ is_audio(q[j]) => i = j
    PROVE  \/ SamplesIn(q) = 0
           \/ Cardinality({i \in DOMAIN q : is_audio(q[i])}) = 1
PROOF
<1>1. CASE \A i \in 1..Len(q) : ~is_audio(q[i])
  <2>1. Len(q) \in 0..Len(q)
    BY DEF Weighed
  <2>2. PICK t : Counts(t, q, Len(q))
    BY <2>1, TotalsExist
  <2>3. t[Len(q)] = 0
    BY <1>1, <2>2, SilenceWeighsNothing
  <2> QED
    BY <2>2, <2>3, SamplesAreTheTotal
<1>2. CASE \E i \in 1..Len(q) : is_audio(q[i])
  <2>1. PICK i \in 1..Len(q) : is_audio(q[i])
    BY <1>2
  <2>2. {j \in DOMAIN q : is_audio(q[j])} = {i}
    BY <2>1
  <2> QED
    BY <2>2, FS_Singleton
<1> QED
  BY <1>1, <1>2

-----------------------------------------------------------------------------
(* The budget.  What the loop compares with it is what the deque really    *)
(* holds, and control events weigh nothing; without either, leaving the    *)
(* loop or a later pop could leave more behind than the promise allows.    *)
BacklogInv ==
    /\ queued_samples = SamplesIn(items)
    /\ \A i \in DOMAIN items : ~is_audio(items[i]) => items[i].weight = 0
    /\ BoundedBacklog

LEMMA DequeIsWeighed ==
    ASSUME IInv
    PROVE  Weighed(items)
PROOF
BY DequeFacts, EventFields DEF Weighed

LEMMA EnqueueCounts ==
    ASSUME IInv, BacklogInv, NEW k \in Kinds, NEW s \in Sessions,
           NEW w \in Weights \union {0}, k # "audio" => w = 0, Enqueue(k, s, w)
    PROVE  BacklogInv'
PROOF
<1> DEFINE e == [ticket |-> accepted + 1, kind |-> k, session |-> s, weight |-> w]
<1>1. e \in Event /\ e.weight = w /\ e.kind = k
  <2>1. accepted + 1 \in 1..MaxEvents
    BY QueueAssumption DEF IInv, TypeOK, Enqueue
  <2> QED
    BY <2>1 DEF Event
<1>2. /\ items' = Append(items, e) /\ queued_samples' = queued_samples + w
      /\ pushing' = TRUE
  BY DEF Enqueue
<1>3. items \in Seq(Event) /\ Weighed(items) /\ w \in Nat
  BY DequeIsWeighed, QueueAssumption DEF IInv, TypeOK
<1> HIDE DEF e
<1>4. queued_samples' = SamplesIn(items')
  BY <1>1, <1>2, <1>3, SamplesOfAppend DEF BacklogInv
<1>5. /\ DOMAIN items' = 1..(Len(items) + 1)
      /\ \A i \in 1..Len(items) : items'[i] = items[i]
      /\ items'[Len(items) + 1] = e
  BY <1>1, <1>2, <1>3
<1>6. ASSUME NEW i \in DOMAIN items', ~is_audio(items'[i])
      PROVE  items'[i].weight = 0
  <2>1. CASE i = Len(items) + 1
    BY <1>1, <1>5, <1>6, <2>1 DEF is_audio
  <2>2. CASE i # Len(items) + 1
    <3>1. i \in DOMAIN items /\ items'[i] = items[i]
      BY <1>5, <2>2, DequeFacts
    <3> QED
      BY <1>6, <3>1 DEF BacklogInv
  <2> QED
    BY <2>1, <2>2
<1> QED
  BY <1>2, <1>4, <1>6 DEF BacklogInv, BoundedBacklog

LEMMA EvictCounts ==
    ASSUME IInv, BacklogInv, EvictOldest
    PROVE  BacklogInv'
PROOF
<1>1. PICK v \in AudioAt :
         /\ OldestAudioAt(v)
         /\ items' = RemoveAt(items, v)
         /\ queued_samples' = Saturating(queued_samples, items[v].weight)
  BY DEF EvictOldest
<1>2. MustEvict /\ pushing /\ pushing' = pushing
  BY DEF EvictOldest
<1>3. v \in 1..Len(items)
  BY <1>1, <1>2, VictimFacts
<1>4. /\ Len(items') = Len(items) - 1 /\ items' \in Seq(Event)
      /\ \A i \in 1..(Len(items) - 1) :
            items'[i] = IF i < v THEN items[i] ELSE items[i + 1]
  BY <1>1, <1>3, RemoveAtProperties DEF IInv, TypeOK
<1>5. queued_samples' = SamplesIn(items')
  BY <1>1, <1>3, <1>4, DequeIsWeighed, SamplesWithout DEF BacklogInv, Saturating
<1>6. ASSUME NEW i \in DOMAIN items'
      PROVE  \E k \in DOMAIN items : items'[i] = items[k]
  <2>1. i \in 1..(Len(items) - 1)
    BY <1>4
  <2>2. i \in 1..Len(items) /\ i + 1 \in 1..Len(items)
    BY <2>1, DequeFacts
  <2> QED
    BY <1>4, <2>1, <2>2, DequeFacts
<1> QED
  BY <1>2, <1>5, <1>6 DEF BacklogInv, BoundedBacklog

(* Leaving the loop: either the budget is met, or nothing is left to evict *)
(* but one buffer, or there was no audio at all.                           *)
LEMMA PushDoneCounts ==
    ASSUME IInv, BacklogInv, PushDone
    PROVE  BacklogInv'
PROOF
<1>1. ~MustEvict /\ UNCHANGED <<items, queued_samples>>
  BY DEF PushDone
<1>2. CapacitySamples \in Nat /\ queued_samples \in Nat
  BY QueueAssumption DEF IInv, TypeOK
<1>3. CASE queued_samples <= CapacitySamples
  BY <1>1, <1>3 DEF BacklogInv, BoundedBacklog, AudioAt
<1>4. CASE ~(queued_samples <= CapacitySamples)
  <2>1. \A i, j \in AudioAt : i = j
    BY <1>1, <1>2, <1>4 DEF MustEvict
  <2>2. \A i, j \in 1..Len(items) : is_audio(items[i]) /\ is_audio(items[j]) => i = j
    BY <2>1, DequeFacts DEF AudioAt
  <2>3. SamplesIn(items) = 0 \/ Cardinality(AudioAt) = 1
    BY <2>2, DequeFacts, DequeIsWeighed, OneBufferOrNone DEF BacklogInv, AudioAt
  <2> QED
    BY <1>1, <1>2, <2>3 DEF BacklogInv, BoundedBacklog, AudioAt
<1> QED
  BY <1>3, <1>4

(* A pop can only make the backlog smaller: if it takes the one buffer     *)
(* that exceeded the budget, no audio is left.                             *)
LEMMA PopCounts ==
    ASSUME IInv, BacklogInv, Pop
    PROVE  BacklogInv'
PROOF
<1>1. /\ items # <<>> /\ items' = Tail(items) /\ ~pushing
      /\ queued_samples' = Saturating(queued_samples, Head(items).weight)
  BY DEF Pop
<1>2. /\ Head(items) = items[1] /\ 1 \in 1..Len(items)
      /\ items' \in Seq(Event)
      /\ Len(items') = Len(items) - 1
      /\ \A i \in 1..(Len(items) - 1) : items'[i] = items[i + 1]
  BY <1>1, ToSetTail, DequeFacts DEF IInv, TypeOK
<1>3. /\ items[1].weight <= SamplesIn(items)
      /\ SamplesIn(items') = SamplesIn(items) - items[1].weight
  <2>1. \A i \in 1..(Len(items) - 1) :
            items'[i] = IF i < 1 THEN items[i] ELSE items[i + 1]
    BY <1>2
  <2> QED
    BY <1>2, <2>1, DequeIsWeighed, SamplesWithout
<1>4. queued_samples' = SamplesIn(items')
  BY <1>1, <1>2, <1>3 DEF BacklogInv, Saturating
<1>5. \A i \in DOMAIN items' :
          i + 1 \in DOMAIN items /\ items'[i] = items[i + 1]
  BY <1>2, DequeFacts
<1>6. \A i \in DOMAIN items' : ~is_audio(items'[i]) => items'[i].weight = 0
  BY <1>5 DEF BacklogInv
<1>7. BoundedBacklog'
  <2>1. CASE SamplesIn(items) <= CapacitySamples
    <3>1. SamplesIn(items) \in Nat /\ items[1].weight \in Nat /\ CapacitySamples \in Nat
      BY <1>2, DequeIsWeighed, SamplesAreTheTotal, QueueAssumption DEF Weighed
    <3> QED
      BY <1>3, <2>1, <3>1 DEF BoundedBacklog
  <2>2. CASE Cardinality(AudioAt) = 1
    <3>1. IsFiniteSet(1..Len(items)) /\ AudioAt \subseteq 1..Len(items)
      BY DequeFacts, FS_Interval DEF AudioAt
    <3>2. PICK a : AudioAt = {a}
      BY <2>2, <3>1, FS_Subset, FS_Singleton
    <3>3. \A i, j \in DOMAIN items' : is_audio(items'[i]) /\ is_audio(items'[j]) => i = j
      <4>1. ASSUME NEW i \in DOMAIN items', NEW j \in DOMAIN items',
                   is_audio(items'[i]), is_audio(items'[j])
            PROVE  i = j
        <5>1. i + 1 \in AudioAt /\ j + 1 \in AudioAt
          BY <1>5, <4>1 DEF AudioAt
        <5>2. i \in Int /\ j \in Int /\ i + 1 = j + 1
          BY <1>2, <3>2, <5>1
        <5> QED
          BY <5>2
      <4> QED
        BY <4>1
    <3>4. Weighed(items') /\ DOMAIN items' = 1..Len(items')
      BY <1>2, EventFields DEF Weighed
    <3>5. SamplesIn(items') = 0 \/ Cardinality({i \in DOMAIN items' : is_audio(items'[i])}) = 1
      BY <1>6, <3>3, <3>4, OneBufferOrNone
    <3> QED
      BY <3>5, QueueAssumption DEF BoundedBacklog, AudioAt
  <2> QED
    BY <1>1, <2>1, <2>2 DEF BacklogInv, BoundedBacklog
<1> QED
  BY <1>4, <1>6, <1>7 DEF BacklogInv

LEMMA InitCounts == Init => BacklogInv
PROOF
<1> SUFFICES ASSUME Init PROVE BacklogInv
  OBVIOUS
<1>1. items = <<>> /\ Len(items) = 0 /\ DOMAIN items = {} /\ queued_samples = 0
  BY DEF Init
<1>2. Weighed(items)
  BY <1>1 DEF Weighed
<1>3. Counts([i \in 0..0 |-> 0], items, Len(items))
  BY <1>1 DEF Counts
<1>4. SamplesIn(items) = 0
  BY <1>1, <1>2, <1>3, SamplesAreTheTotal
<1> QED
  BY <1>1, <1>4, QueueAssumption DEF BacklogInv, BoundedBacklog

LEMMA NextCounts == IInv /\ BacklogInv /\ [Next]_vars => BacklogInv'
PROOF
<1> SUFFICES ASSUME IInv, BacklogInv, [Next]_vars PROVE BacklogInv'
  OBVIOUS
<1>1. CASE \E s \in Sessions : \E w \in Weights : PushAudio(s, w)
  BY <1>1, EnqueueCounts DEF PushAudio, Kinds
<1>2. CASE \E s \in Sessions : PushSessionEnd(s) \/ PushGap(s)
  BY <1>2, EnqueueCounts DEF PushSessionEnd, PushGap, Kinds
<1>3. CASE EvictOldest
  BY <1>3, EvictCounts
<1>4. CASE PushDone
  BY <1>4, PushDoneCounts
<1>5. CASE Pop
  BY <1>5, PopCounts
<1>6. CASE PopClosed \/ Close \/ UNCHANGED vars
  BY <1>6 DEF PopClosed, Close, vars, BacklogInv, BoundedBacklog, AudioAt
<1> QED
  BY <1>1, <1>2, <1>3, <1>4, <1>5, <1>6 DEF Next

(* "A stalled VAD thread has to cost bounded memory": for every budget and *)
(* every mix of buffer lengths, the samples in the deque fit the budget or *)
(* are those of a single buffer whenever no producer is inside push.       *)
THEOREM BacklogStaysBounded == Spec => []BoundedBacklog
<1>1. BacklogInv => BoundedBacklog
  BY DEF BacklogInv
<1> QED
  BY <1>1, InitCounts, NextCounts, InvariantHolds, PTL DEF Spec

-----------------------------------------------------------------------------
(* The refinement: each push is one arrival at the abstract queue, each    *)
(* turn of the loop one loss, each pop one delivery, close one shutting;   *)
(* leaving the loop and reading PopResult::Closed are stutters.            *)
LEMMA EnqueueIsTake ==
    ASSUME IInv, NEW k \in Kinds, NEW s \in Sessions,
           NEW w \in Weights \union {0}, Enqueue(k, s, w)
    PROVE  Fifo!FifoStep
PROOF
<1> DEFINE e == [ticket |-> accepted + 1, kind |-> k, session |-> s, weight |-> w]
<1>1. e \in Event /\ e.ticket = accepted + 1
  <2>1. accepted + 1 \in 1..MaxEvents
    BY QueueAssumption DEF IInv, TypeOK, Enqueue
  <2> QED
    BY <2>1 DEF Event
<1>2. /\ items' = Append(items, e) /\ accepted' = accepted + 1 /\ ~closed
      /\ UNCHANGED <<closed, delivered, evicted>>
  BY DEF Enqueue
<1> HIDE DEF e
<1>3. Queued' = Queued \union {e}
  BY <1>1, <1>2, ToSetAppend DEF Queued, IInv, TypeOK
<1>4. Fifo!Take(e)
  BY <1>1, <1>2, <1>3 DEF Fifo!Take
<1> QED
  BY <1>1, <1>4 DEF Fifo!FifoStep, Fifo!FifoNext

LEMMA EvictIsLose ==
    ASSUME IInv, EvictOldest
    PROVE  Fifo!FifoStep
PROOF
<1>1. PICK v \in AudioAt :
         /\ OldestAudioAt(v)
         /\ items' = RemoveAt(items, v)
         /\ evicted' = evicted \union {items[v]}
  BY DEF EvictOldest
<1>2. UNCHANGED <<closed, accepted, delivered>> /\ MustEvict
  BY DEF EvictOldest
<1>3. /\ v \in 1..Len(items)
      /\ is_audio(items[v])
      /\ \E j \in 1..Len(items) : v < j /\ is_audio(items[j])
      /\ \A j \in 1..Len(items) : is_audio(items[j]) => v <= j
  BY <1>1, <1>2, VictimFacts
<1>4. Queued' = Queued \ {items[v]}
  BY <1>1, <1>3, ToSetRemoveAt, DequeFacts DEF IInv, TypeOK, Queued
<1>5. items[v] \in Fifo!Audio(Queued) /\ items[v] \in Event
  BY <1>3, DequeFacts DEF Fifo!Audio, Queued, ToSet, is_audio
<1>6. ASSUME NEW f \in Fifo!Audio(Queued)
      PROVE  items[v].ticket <= f.ticket
  <2>1. PICK j \in 1..Len(items) : f = items[j] /\ is_audio(items[j])
    BY DequeFacts DEF Fifo!Audio, Queued, ToSet, is_audio
  <2>2. CASE v = j
    BY <2>1, <2>2, DequeFacts
  <2>3. CASE v < j
    BY <1>3, <2>1, <2>3, DequeFacts DEF IInv, FirstInFirstOut
  <2> QED
    BY <1>3, <2>1, <2>2, <2>3
<1>7. \E f \in Fifo!Audio(Queued) : items[v].ticket < f.ticket
  <2>1. PICK j \in 1..Len(items) : v < j /\ is_audio(items[j])
    BY <1>3
  <2>2. items[v].ticket < items[j].ticket
    BY <1>3, <2>1, DequeFacts DEF IInv, FirstInFirstOut
  <2>3. items[j] \in Fifo!Audio(Queued)
    BY <2>1, DequeFacts DEF Fifo!Audio, Queued, ToSet, is_audio
  <2> QED
    BY <2>2, <2>3
<1>8. Fifo!Lose(items[v])
  BY <1>1, <1>2, <1>4, <1>5, <1>6, <1>7 DEF Fifo!Lose
<1> QED
  BY <1>5, <1>8 DEF Fifo!FifoStep, Fifo!FifoNext

LEMMA PopIsGive ==
    ASSUME IInv, Pop
    PROVE  Fifo!FifoStep
PROOF
<1>1. /\ items # <<>> /\ items' = Tail(items)
      /\ delivered' = delivered \union {Head(items)}
      /\ UNCHANGED <<closed, accepted, evicted>>
  BY DEF Pop
<1>2. /\ Head(items) = items[1] /\ 1 \in 1..Len(items)
      /\ Queued' = Queued \ {items[1]}
  BY <1>1, ToSetTail, DequeFacts DEF Queued, IInv, TypeOK
<1>3. items[1] \in Queued /\ items[1] \in Event
  BY <1>2, DequeFacts DEF Queued, ToSet
<1>4. ASSUME NEW f \in Queued
      PROVE  items[1].ticket <= f.ticket
  <2>1. PICK j \in 1..Len(items) : f = items[j]
    BY DequeFacts DEF Queued, ToSet
  <2>2. CASE j = 1
    BY <2>1, <2>2, DequeFacts
  <2>3. CASE j # 1
    BY <1>2, <2>1, <2>3, DequeFacts DEF IInv, FirstInFirstOut
  <2> QED
    BY <2>2, <2>3
<1>5. Fifo!Give(items[1])
  BY <1>1, <1>2, <1>3, <1>4 DEF Fifo!Give
<1> QED
  BY <1>3, <1>5 DEF Fifo!FifoStep, Fifo!FifoNext

LEMMA StepRefines == IInv /\ [Next]_vars => [Fifo!FifoStep]_(Fifo!fifoVars)
PROOF
<1> SUFFICES ASSUME IInv, [Next]_vars
             PROVE  [Fifo!FifoStep]_(Fifo!fifoVars)
  OBVIOUS
<1>1. CASE \E s \in Sessions : \E w \in Weights : PushAudio(s, w)
  BY <1>1, EnqueueIsTake DEF PushAudio, Kinds
<1>2. CASE \E s \in Sessions : PushSessionEnd(s) \/ PushGap(s)
  BY <1>2, EnqueueIsTake DEF PushSessionEnd, PushGap, Kinds
<1>3. CASE EvictOldest
  BY <1>3, EvictIsLose
<1>4. CASE PushDone
  BY <1>4 DEF PushDone, Fifo!fifoVars, Queued, ToSet
<1>5. CASE Pop
  BY <1>5, PopIsGive
<1>6. CASE PopClosed
  BY <1>6 DEF PopClosed, Fifo!fifoVars, Queued, ToSet
<1>7. CASE Close
  <2>1. Fifo!Shut
    BY <1>7 DEF Close, Fifo!Shut, Queued, ToSet
  <2> QED
    BY <2>1 DEF Fifo!FifoStep
<1>8. CASE UNCHANGED vars
  BY <1>8 DEF vars, Fifo!fifoVars, Queued, ToSet
<1> QED
  BY <1>1, <1>2, <1>3, <1>4, <1>5, <1>6, <1>7, <1>8 DEF Next

(* The deque, its budget, its loop and its lock implement the lossy FIFO   *)
(* the pipeline is written against.                                        *)
THEOREM ImplementsLossyFifo == Spec => IsLossyFifo
PROOF
<1>1. Init => Fifo!FifoInit
  BY DEF Init, Fifo!FifoInit, Queued, ToSet
<1> QED
  BY <1>1, StepRefines, InvariantHolds, PTL
     DEF Spec, IsLossyFifo, Fifo!FifoSpec
=============================================================================
