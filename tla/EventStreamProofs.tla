-------------------------- MODULE EventStreamProofs --------------------------
(***************************************************************************)
(* What EventStream guarantees for every length of the ring and the        *)
(* outbox, and every number of events, runs and failures.                  *)
(***************************************************************************)
EXTENDS EventStream, FiniteSetTheorems, WellFoundedInduction, TLAPS

(* A set of naturals has a least member: what stands for induction below.  *)
LEMMA LeastExists ==
    ASSUME NEW S, S \subseteq Nat, S # {}
    PROVE  \E m \in S : \A n \in S : m <= n
PROOF
<1> DEFINE Upto == {0 .. n : n \in S}
           R == StrictSubsetOrdering(Nat)
<1>1. Upto \subseteq FiniteSubsetsOf(Nat) /\ Upto # {}
  <2>1. \A n \in S : 0 .. n \subseteq Nat /\ IsFiniteSet(0 .. n)
    BY FS_Interval
  <2> QED
    BY <2>1 DEF FiniteSubsetsOf
<1>2. PICK T \in Upto : \A U \in Upto : ~(<<U, T>> \in R)
  <2>1. IsWellFoundedOn(R, FiniteSubsetsOf(Nat))
    BY FS_StrictSubsetOrderingWellFounded
  <2> HIDE DEF R, Upto
  <2> QED
    BY <1>1, <2>1, WFMin
<1>3. PICK m \in S : T = 0 .. m
  OBVIOUS
<1>4. ASSUME NEW n \in S, n < m
      PROVE  FALSE
  <2>1. 0 .. n \subseteq 0 .. m /\ m \in 0 .. m /\ m \notin 0 .. n
    BY <1>4
  <2>2. <<0 .. n, 0 .. m>> \in R
    BY <2>1 DEF StrictSubsetOrdering
  <2> QED
    BY <1>2, <1>3, <2>2
<1> QED
  BY <1>4

(* What holds of nothing and of one more step holds of every step.         *)
LEMMA StepByStep ==
    ASSUME NEW n \in Nat, NEW S, 0 \in S, \A i \in 1..n : i - 1 \in S => i \in S
    PROVE  \A i \in 0..n : i \in S
PROOF
<1> DEFINE Bad == (0..n) \ S
<1> SUFFICES ASSUME Bad # {} PROVE FALSE
  OBVIOUS
<1>1. PICK m \in Bad : \A k \in Bad : m <= k
  <2>1. Bad \subseteq Nat
    OBVIOUS
  <2> HIDE DEF Bad
  <2> QED
    BY <2>1, LeastExists
<1>2. m \in 0..n /\ m \notin S /\ m # 0
  BY <1>1
<1>3. m \in 1..n /\ m - 1 \in 0..n /\ ~(m <= m - 1)
  BY <1>2
<1>4. m - 1 \in S
  BY <1>1, <1>3
<1> QED
  BY <1>2, <1>3, <1>4

(* A loop over positions has a history.                                    *)
Runs(f, X, a, step, k) ==
    /\ f \in [0..k -> X] /\ f[0] = a
    /\ \A i \in 1..k : f[i] = step[<<i, f[i - 1]>>]

LEMMA LoopExists ==
    ASSUME NEW X, NEW a \in X, NEW n \in Nat,
           NEW step \in [(1..n) \X X -> X]
    PROVE  \E f : Runs(f, X, a, step, n)
PROOF
<1> DEFINE Ok == {k \in 0..n : \E f : Runs(f, X, a, step, k)}
<1>1. 0 \in Ok
  <2>1. Runs([i \in 0..0 |-> a], X, a, step, 0)
    BY DEF Runs
  <2> QED
    BY <2>1
<1>2. ASSUME NEW k \in 1..n, k - 1 \in Ok
      PROVE  k \in Ok
  <2>1. PICK f : Runs(f, X, a, step, k - 1)
    BY <1>2
  <2>2. f[k - 1] \in X /\ <<k, f[k - 1]>> \in (1..n) \X X
    BY <2>1 DEF Runs
  <2> DEFINE g == [i \in 0..k |-> IF i = k THEN step[<<k, f[k - 1]>>] ELSE f[i]]
  <2>3. g \in [0..k -> X] /\ g[0] = a
    BY <2>1, <2>2 DEF Runs
  <2>4. ASSUME NEW i \in 1..k
        PROVE  g[i] = step[<<i, g[i - 1]>>]
    <3>1. CASE i = k
      <4>1. g[k] = step[<<k, f[k - 1]>>] /\ k - 1 \in 0..k /\ k - 1 # k
        OBVIOUS
      <4>2. g[k - 1] = f[k - 1]
        BY <4>1
      <4> QED
        BY <3>1, <4>1, <4>2
    <3>2. CASE i # k
      <4>1. i \in 1..(k - 1) /\ i - 1 \in 0..k /\ i - 1 # k /\ i \in 0..k
        BY <3>2
      <4>2. g[i] = f[i] /\ g[i - 1] = f[i - 1]
        BY <3>2, <4>1
      <4> QED
        BY <2>1, <4>1, <4>2 DEF Runs
    <3> QED
      BY <3>1, <3>2
  <2>5. Runs(g, X, a, step, k)
    BY <2>3, <2>4 DEF Runs
  <2> QED
    BY <2>5
<1>3. n \in Ok
  <2> HIDE DEF Ok
  <2>1. \A i \in 0..n : i \in Ok
    BY <1>1, <1>2, StepByStep
  <2> QED
    BY <2>1
<1> QED
  BY <1>3

-----------------------------------------------------------------------------
(* What a list holds, and in what order.                                   *)
ItemsOf(s) == {s[i] : i \in DOMAIN s}
Ascending(q) == \A i, j \in DOMAIN q : i < j => q[i].seq < q[j].seq

LEMMA AppendItems ==
    ASSUME NEW S, NEW s \in Seq(S), NEW e \in S
    PROVE  /\ Append(s, e) \in Seq(S)
           /\ Len(s) \in Nat /\ DOMAIN s = 1..Len(s)
           /\ DOMAIN Append(s, e) = 1..(Len(s) + 1)
           /\ Len(Append(s, e)) = Len(s) + 1
           /\ \A i \in 1..Len(s) : Append(s, e)[i] = s[i]
           /\ Append(s, e)[Len(s) + 1] = e
           /\ ItemsOf(Append(s, e)) = ItemsOf(s) \union {e}
PROOF
<1>1. /\ Append(s, e) \in Seq(S)
      /\ Len(s) \in Nat /\ DOMAIN s = 1..Len(s)
      /\ DOMAIN Append(s, e) = 1..(Len(s) + 1)
      /\ Len(Append(s, e)) = Len(s) + 1
      /\ \A i \in 1..Len(s) : Append(s, e)[i] = s[i]
      /\ Append(s, e)[Len(s) + 1] = e
  OBVIOUS
<1>2. \A i : i \in 1..(Len(s) + 1) <=> i \in 1..Len(s) \/ i = Len(s) + 1
  BY <1>1
<1> QED
  BY <1>1, <1>2 DEF ItemsOf

LEMMA TailItems ==
    ASSUME NEW S, NEW s \in Seq(S), s # <<>>
    PROVE  /\ Tail(s) \in Seq(S) /\ Head(s) = s[1] /\ Head(s) \in S
           /\ Len(s) \in Nat /\ DOMAIN s = 1..Len(s) /\ 1 \in 1..Len(s)
           /\ DOMAIN Tail(s) = 1..(Len(s) - 1)
           /\ Len(Tail(s)) = Len(s) - 1
           /\ \A i \in 1..(Len(s) - 1) :
                 Tail(s)[i] = s[i + 1] /\ i + 1 \in 1..Len(s)
           /\ ItemsOf(s) = ItemsOf(Tail(s)) \union {Head(s)}
PROOF
<1>1. /\ Tail(s) \in Seq(S) /\ Head(s) = s[1]
      /\ Len(s) \in Nat /\ DOMAIN s = 1..Len(s) /\ 1 \in 1..Len(s)
      /\ DOMAIN Tail(s) = 1..(Len(s) - 1)
      /\ Len(Tail(s)) = Len(s) - 1
      /\ \A i \in 1..(Len(s) - 1) : Tail(s)[i] = s[i + 1]
  OBVIOUS
<1>2. Head(s) \in S
  BY <1>1
<1>3. \A i \in 1..(Len(s) - 1) : i + 1 \in 1..Len(s)
  BY <1>1
<1>4. ASSUME NEW i \in 1..Len(s), i # 1
      PROVE  s[i] \in ItemsOf(Tail(s))
  <2>1. i - 1 \in 1..(Len(s) - 1) /\ (i - 1) + 1 = i
    BY <1>1, <1>4
  <2>2. Tail(s)[i - 1] = s[i]
    BY <1>1, <2>1
  <2> QED
    BY <1>1, <2>1, <2>2 DEF ItemsOf
<1>5. ItemsOf(s) \subseteq ItemsOf(Tail(s)) \union {Head(s)}
  BY <1>1, <1>4 DEF ItemsOf
<1>6. ItemsOf(Tail(s)) \subseteq ItemsOf(s) /\ Head(s) \in ItemsOf(s)
  BY <1>1, <1>3 DEF ItemsOf
<1> QED
  BY <1>1, <1>2, <1>3, <1>5, <1>6

LEMMA AscendingAppend ==
    ASSUME NEW S, NEW s \in Seq(S), NEW e \in S, Ascending(s),
           \A x \in ItemsOf(s) : x.seq < e.seq
    PROVE  Ascending(Append(s, e))
PROOF
<1>1. ASSUME NEW i \in 1..(Len(s) + 1), NEW j \in 1..(Len(s) + 1), i < j
      PROVE  Append(s, e)[i].seq < Append(s, e)[j].seq
  <2>1. i \in 1..Len(s) /\ Append(s, e)[i] = s[i] /\ s[i] \in ItemsOf(s)
    BY <1>1, AppendItems DEF ItemsOf
  <2>2. CASE j = Len(s) + 1
    BY <2>1, <2>2, AppendItems
  <2>3. CASE j # Len(s) + 1
    <3>1. j \in 1..Len(s) /\ Append(s, e)[j] = s[j]
      BY <2>3, AppendItems
    <3> QED
      BY <1>1, <2>1, <3>1, AppendItems DEF Ascending
  <2> QED
    BY <2>2, <2>3
<1> QED
  BY <1>1, AppendItems DEF Ascending

LEMMA AscendingTail ==
    ASSUME NEW S, NEW s \in Seq(S), s # <<>>, Ascending(s)
    PROVE  /\ Ascending(Tail(s))
           /\ \A x \in ItemsOf(Tail(s)) : Head(s).seq < x.seq
PROOF
<1>1. ASSUME NEW i \in DOMAIN Tail(s), NEW j \in DOMAIN Tail(s), i < j
      PROVE  Tail(s)[i].seq < Tail(s)[j].seq
  <2>1. /\ i + 1 \in DOMAIN s /\ j + 1 \in DOMAIN s /\ i + 1 < j + 1
        /\ Tail(s)[i] = s[i + 1] /\ Tail(s)[j] = s[j + 1]
    BY <1>1, TailItems
  <2> QED
    BY <2>1 DEF Ascending
<1>2. ASSUME NEW i \in DOMAIN Tail(s)
      PROVE  Head(s).seq < Tail(s)[i].seq
  <2>1. /\ i + 1 \in DOMAIN s /\ 1 \in DOMAIN s /\ 1 < i + 1
        /\ Tail(s)[i] = s[i + 1] /\ Head(s) = s[1]
    BY TailItems
  <2> QED
    BY <2>1 DEF Ascending
<1> QED
  BY <1>1, <1>2 DEF Ascending, ItemsOf

(* Filtering keeps what is beyond n and the order of it.                   *)
LEMMA BeyondKeeps ==
    ASSUME NEW S, NEW q \in Seq(S), NEW n
    PROVE  /\ Beyond(q, n) \in Seq(S)
           /\ ItemsOf(Beyond(q, n)) = {e \in ItemsOf(q) : e.seq > n}
           /\ Ascending(q) => Ascending(Beyond(q, n))
PROOF
<1> DEFINE more(i, s) == IF q[i].seq > n THEN Append(s, q[i]) ELSE s
           Recursion(f) == f = [i \in 0..Len(q) |->
                                  IF i = 0 THEN <<>>
                                  ELSE IF q[i].seq > n THEN Append(f[i - 1], q[i])
                                  ELSE f[i - 1]]
           kept == CHOOSE f : Recursion(f)
<1>1. Len(q) \in Nat /\ DOMAIN q = 1..Len(q) /\ \A i \in 1..Len(q) : q[i] \in S
  OBVIOUS
<1>2. Beyond(q, n) = kept[Len(q)]
  BY DEF Beyond
<1>3. PICK f : /\ f \in [0..Len(q) -> Seq(S)] /\ f[0] = <<>>
               /\ \A i \in 1..Len(q) : f[i] = more(i, f[i - 1])
  <2> DEFINE step == [x \in (1..Len(q)) \X Seq(S) |-> more(x[1], x[2])]
  <2>1. step \in [(1..Len(q)) \X Seq(S) -> Seq(S)]
    BY <1>1
  <2>2. \A i \in 1..Len(q), s \in Seq(S) : step[<<i, s>>] = more(i, s)
    OBVIOUS
  <2>3. <<>> \in Seq(S)
    OBVIOUS
  <2> HIDE DEF step
  <2>4. PICK f : Runs(f, Seq(S), <<>>, step, Len(q))
    BY <1>1, <2>1, <2>3, LoopExists
  <2>5. \A i \in 1..Len(q) : i - 1 \in 0..Len(q)
    BY <1>1
  <2> HIDE DEF more
  <2>6. \A i \in 1..Len(q) : f[i] = more(i, f[i - 1])
    BY <2>2, <2>4, <2>5 DEF Runs
  <2> QED
    BY <2>4, <2>6 DEF Runs
<1>4. Recursion(f)
  <2>1. \A i \in 0..Len(q) :
           f[i] = IF i = 0 THEN <<>>
                  ELSE IF q[i].seq > n THEN Append(f[i - 1], q[i]) ELSE f[i - 1]
    <3>1. \A i \in 0..Len(q) : i = 0 \/ i \in 1..Len(q)
      BY <1>1
    <3> QED
      BY <1>3, <3>1
  <2>2. DOMAIN f = 0..Len(q) /\ f = [i \in DOMAIN f |-> f[i]]
    BY <1>3
  <2> QED
    BY <2>1, <2>2
<1>5. Recursion(kept)
  BY <1>4
<1> HIDE DEF kept
<1>6. kept[0] = <<>> /\ \A i \in 1..Len(q) : kept[i] = more(i, kept[i - 1])
  <2>1. \A i \in 0..Len(q) :
           kept[i] = IF i = 0 THEN <<>>
                     ELSE IF q[i].seq > n THEN Append(kept[i - 1], q[i]) ELSE kept[i - 1]
    BY <1>5
  <2>2. 0 \in 0..Len(q) /\ \A i \in 1..Len(q) : i \in 0..Len(q) /\ i # 0
    BY <1>1
  <2> QED
    BY <2>1, <2>2
<1> HIDE DEF Recursion
<1> DEFINE Good(i) ==
      /\ kept[i] \in Seq(S)
      /\ ItemsOf(kept[i]) = {e \in {q[j] : j \in 1..i} : e.seq > n}
      /\ Ascending(q) => Ascending(kept[i])
<1>7. Good(0)
  BY <1>6 DEF ItemsOf, Ascending
<1>8. ASSUME NEW i \in 1..Len(q), Good(i - 1)
      PROVE  Good(i)
  <2>1. \A j : j \in 1..i <=> j \in 1..(i - 1) \/ j = i
    BY <1>1
  <2>2. kept[i] = more(i, kept[i - 1]) /\ q[i] \in S
    BY <1>1, <1>6
  <2>3. CASE q[i].seq > n
    <3>1. kept[i] = Append(kept[i - 1], q[i])
      BY <2>2, <2>3
    <3>2. kept[i] \in Seq(S) /\ ItemsOf(kept[i]) = ItemsOf(kept[i - 1]) \union {q[i]}
      BY <1>8, <2>2, <3>1, AppendItems
    <3>3. ItemsOf(kept[i]) = {e \in {q[j] : j \in 1..i} : e.seq > n}
      BY <1>8, <2>1, <2>3, <3>2
    <3>4. ASSUME Ascending(q) PROVE Ascending(kept[i])
      <4>1. \A j \in 1..(i - 1) : q[j].seq < q[i].seq
        BY <1>1, <3>4 DEF Ascending
      <4>2. \A x \in ItemsOf(kept[i - 1]) : x.seq < q[i].seq
        BY <1>8, <4>1
      <4> QED
        BY <1>8, <2>2, <3>1, <3>4, <4>2, AscendingAppend
    <3> QED
      BY <3>2, <3>3, <3>4
  <2>4. CASE ~(q[i].seq > n)
    <3>1. kept[i] = kept[i - 1]
      BY <2>2, <2>4
    <3>2. ItemsOf(kept[i]) = {e \in {q[j] : j \in 1..i} : e.seq > n}
      BY <1>8, <2>1, <2>4, <3>1
    <3> QED
      BY <1>8, <3>1, <3>2
  <2> QED
    BY <2>3, <2>4
<1>9. Good(Len(q))
  <2> HIDE DEF Good
  <2> DEFINE Ok == {i \in 0..Len(q) : Good(i)}
  <2>1. 0 \in Ok
    BY <1>1, <1>7
  <2>2. \A i \in 1..Len(q) : i - 1 \in Ok => i \in Ok
    BY <1>1, <1>8
  <2> HIDE DEF Ok
  <2>3. \A i \in 0..Len(q) : i \in Ok
    BY <1>1, <2>1, <2>2, StepByStep
  <2>4. Len(q) \in Ok
    BY <1>1, <2>3
  <2> QED
    BY <2>4 DEF Ok
<1>10. {q[j] : j \in 1..Len(q)} = ItemsOf(q)
  BY <1>1 DEF ItemsOf
<1> QED
  BY <1>2, <1>9, <1>10

(* Applying a list moves the position to the highest number it holds, or   *)
(* leaves it; in ascending order everything new and lasting is shown.      *)
Positions == [seq : Int, boot : Int, view : SUBSET Facts]

Applied(at, r, events, n) ==
    /\ r \in Positions
    /\ at.seq <= r.seq
    /\ \A j \in 1..n : events[j].seq <= r.seq
    /\ \/ r.seq = at.seq /\ r.boot = at.boot
       \/ \E j \in 1..n : r.seq = events[j].seq /\ r.boot = events[j].boot
    /\ at.view \subseteq r.view
    /\ Ascending(events) =>
          \A j \in 1..n : events[j].seq > at.seq /\ events[j].lasting => events[j] \in r.view

LEMMA EventFields ==
    ASSUME NEW e \in Events
    PROVE  /\ e.seq \in Int /\ e.boot \in Int /\ e.seq \in Nat /\ e.boot \in Nat
           /\ e.seq \in 1..MaxSeq /\ e.boot \in Boots /\ e.lasting \in BOOLEAN
           /\ e.lasting => e \in Facts
BY StreamAssumption DEF Events, Boots, Facts

LEMMA ApplyEventIs ==
    ASSUME NEW at \in Positions, NEW e \in Events
    PROVE  /\ ApplyEvent(at, e) \in Positions
           /\ e.seq <= at.seq => ApplyEvent(at, e) = at
           /\ e.seq > at.seq => /\ ApplyEvent(at, e).seq = e.seq
                                /\ ApplyEvent(at, e).boot = e.boot
                                /\ at.view \subseteq ApplyEvent(at, e).view
                                /\ e.lasting => e \in ApplyEvent(at, e).view
PROOF
<1>1. at.seq \in Int /\ at.view \subseteq Facts /\ e.seq \in Int /\ e.boot \in Int
  BY EventFields DEF Positions
<1>2. CASE e.seq <= at.seq
  BY <1>1, <1>2 DEF ApplyEvent
<1>3. CASE ~(e.seq <= at.seq)
  <2>1. ApplyEvent(at, e) =
          [seq |-> e.seq, boot |-> e.boot,
           view |-> IF e.lasting THEN at.view \union {e} ELSE at.view]
    BY <1>3 DEF ApplyEvent
  <2>2. (IF e.lasting THEN at.view \union {e} ELSE at.view) \subseteq Facts
    BY <1>1, EventFields
  <2> QED
    BY <1>1, <1>3, <2>1, <2>2 DEF Positions
<1> QED
  BY <1>2, <1>3

LEMMA ApplyFollows ==
    ASSUME NEW at \in Positions, NEW events \in Seq(Events)
    PROVE  Applied(at, Apply(at, events), events, Len(events))
PROOF
<1> DEFINE Recursion(f) == f = [i \in 0..Len(events) |->
                                  IF i = 0 THEN at
                                  ELSE ApplyEvent(f[i - 1], events[i])]
           now == CHOOSE f : Recursion(f)
<1>1. Len(events) \in Nat /\ DOMAIN events = 1..Len(events)
      /\ \A i \in 1..Len(events) : events[i] \in Events
  OBVIOUS
<1>2. Apply(at, events) = now[Len(events)]
  BY DEF Apply
<1>3. PICK f : /\ f \in [0..Len(events) -> Positions] /\ f[0] = at
               /\ \A i \in 1..Len(events) : f[i] = ApplyEvent(f[i - 1], events[i])
  <2> DEFINE step == [x \in (1..Len(events)) \X Positions |-> ApplyEvent(x[2], events[x[1]])]
  <2>1. step \in [(1..Len(events)) \X Positions -> Positions]
    BY <1>1, ApplyEventIs
  <2>2. \A i \in 1..Len(events), s \in Positions : step[<<i, s>>] = ApplyEvent(s, events[i])
    OBVIOUS
  <2> HIDE DEF step
  <2>4. PICK f : Runs(f, Positions, at, step, Len(events))
    BY <1>1, <2>1, LoopExists
  <2>5. \A i \in 1..Len(events) : i - 1 \in 0..Len(events)
    BY <1>1
  <2>6. \A i \in 1..Len(events) : f[i] = ApplyEvent(f[i - 1], events[i])
    BY <2>2, <2>4, <2>5 DEF Runs
  <2> QED
    BY <2>4, <2>6 DEF Runs
<1>4. Recursion(f)
  <2>1. \A i \in 0..Len(events) :
           f[i] = IF i = 0 THEN at ELSE ApplyEvent(f[i - 1], events[i])
    <3>1. \A i \in 0..Len(events) : i = 0 \/ i \in 1..Len(events)
      BY <1>1
    <3> QED
      BY <1>3, <3>1
  <2>2. DOMAIN f = 0..Len(events) /\ f = [i \in DOMAIN f |-> f[i]]
    BY <1>3
  <2> QED
    BY <2>1, <2>2
<1>5. Recursion(now)
  BY <1>4
<1> HIDE DEF now
<1>6. now[0] = at /\ \A i \in 1..Len(events) : now[i] = ApplyEvent(now[i - 1], events[i])
  <2>1. \A i \in 0..Len(events) :
           now[i] = IF i = 0 THEN at ELSE ApplyEvent(now[i - 1], events[i])
    BY <1>5
  <2>2. 0 \in 0..Len(events) /\ \A i \in 1..Len(events) : i \in 0..Len(events) /\ i # 0
    BY <1>1
  <2> QED
    BY <2>1, <2>2
<1> HIDE DEF Recursion
<1>7. Applied(at, now[0], events, 0)
  BY <1>6 DEF Applied, Positions
<1>8. ASSUME NEW i \in 1..Len(events), Applied(at, now[i - 1], events, i - 1)
      PROVE  Applied(at, now[i], events, i)
  <2> DEFINE p == now[i - 1]
             e == events[i]
             r == now[i]
  <2>1. \A j : j \in 1..i <=> j \in 1..(i - 1) \/ j = i
    BY <1>1
  <2>2. r = ApplyEvent(p, e) /\ e \in Events /\ p \in Positions /\ i \in 1..i
    BY <1>1, <1>6, <1>8 DEF Applied
  <2>3. /\ r \in Positions
        /\ e.seq <= p.seq => r = p
        /\ e.seq > p.seq => /\ r.seq = e.seq /\ r.boot = e.boot
                            /\ p.view \subseteq r.view
                            /\ e.lasting => e \in r.view
    <3> HIDE DEF p, e, r
    <3> QED
      BY <2>2, ApplyEventIs
  <2>4. p.seq \in Int /\ r.seq \in Int /\ e.seq \in Int /\ at.seq \in Int
    BY <2>2, <2>3, EventFields DEF Positions
  <2>5. \A j \in 1..(i - 1) : events[j].seq \in Int
    BY <1>1, EventFields
  <2>6. /\ at.seq <= p.seq
        /\ \A j \in 1..(i - 1) : events[j].seq <= p.seq
        /\ \/ p.seq = at.seq /\ p.boot = at.boot
           \/ \E j \in 1..(i - 1) : p.seq = events[j].seq /\ p.boot = events[j].boot
        /\ at.view \subseteq p.view
        /\ Ascending(events) =>
              \A j \in 1..(i - 1) :
                  events[j].seq > at.seq /\ events[j].lasting => events[j] \in p.view
    BY <1>8 DEF Applied
  <2> HIDE DEF p, e, r
  <2>7. at.seq <= r.seq /\ at.view \subseteq r.view /\ p.view \subseteq r.view /\ p.seq <= r.seq
    BY <2>3, <2>4, <2>6
  <2>8. \A j \in 1..i : events[j].seq <= r.seq
    <3>1. e.seq <= r.seq
      BY <2>3, <2>4
    <3>2. \A j \in 1..(i - 1) : events[j].seq <= r.seq
      BY <2>4, <2>5, <2>6, <2>7
    <3> QED
      BY <2>1, <3>1, <3>2 DEF e
  <2>9. \/ r.seq = at.seq /\ r.boot = at.boot
        \/ \E j \in 1..i : r.seq = events[j].seq /\ r.boot = events[j].boot
    <3>1. CASE e.seq <= p.seq
      BY <2>1, <2>3, <2>6, <3>1
    <3>2. CASE ~(e.seq <= p.seq)
      BY <2>2, <2>3, <2>4, <3>2 DEF e
    <3> QED
      BY <3>1, <3>2
  <2>10. ASSUME Ascending(events), NEW j \in 1..i, events[j].seq > at.seq, events[j].lasting
         PROVE  events[j] \in r.view
    <3>1. CASE j # i
      BY <2>1, <2>6, <2>7, <2>10, <3>1
    <3>2. CASE j = i
      <4>1. \A k \in 1..(i - 1) : events[k].seq < e.seq
        BY <1>1, <2>10 DEF Ascending, e
      <4>2. e.seq > p.seq
        <5>1. e.seq > at.seq
          BY <2>10, <3>2 DEF e
        <5> QED
          BY <2>6, <4>1, <5>1
      <4> QED
        BY <2>3, <2>10, <3>2, <4>2 DEF e
    <3> QED
      BY <3>1, <3>2
  <2> QED
    BY <2>3, <2>7, <2>8, <2>9, <2>10 DEF Applied, r
<1>9. Applied(at, now[Len(events)], events, Len(events))
  <2> DEFINE Ok == {i \in 0..Len(events) : Applied(at, now[i], events, i)}
  <2>1. 0 \in Ok
    BY <1>1, <1>7
  <2>2. \A i \in 1..Len(events) : i - 1 \in Ok => i \in Ok
    BY <1>1, <1>8
  <2> HIDE DEF Ok
  <2>3. \A i \in 0..Len(events) : i \in Ok
    BY <1>1, <2>1, <2>2, StepByStep
  <2>4. Len(events) \in Ok
    BY <1>1, <2>3
  <2> QED
    BY <2>4 DEF Ok
<1> QED
  BY <1>2, <1>9

(* The same in terms of what the list holds.                               *)
LEMMA ApplyIs ==
    ASSUME NEW at \in Positions, NEW events \in Seq(Events)
    PROVE  /\ Apply(at, events) \in Positions
           /\ at.seq <= Apply(at, events).seq
           /\ \A e \in ItemsOf(events) : e.seq <= Apply(at, events).seq
           /\ \/ /\ Apply(at, events).seq = at.seq
                 /\ Apply(at, events).boot = at.boot
              \/ \E e \in ItemsOf(events) : /\ Apply(at, events).seq = e.seq
                                            /\ Apply(at, events).boot = e.boot
           /\ at.view \subseteq Apply(at, events).view
           /\ Ascending(events) =>
                 \A e \in ItemsOf(events) :
                    e.seq > at.seq /\ e.lasting => e \in Apply(at, events).view
PROOF
<1> DEFINE r == Apply(at, events)
<1>1. Applied(at, r, events, Len(events))
  BY ApplyFollows
<1>2. DOMAIN events = 1..Len(events)
  OBVIOUS
<1> HIDE DEF r
<1> QED
  BY <1>1, <1>2 DEF Applied, ItemsOf, r

-----------------------------------------------------------------------------
(* What is on its way.                                                     *)
EventsOn(o) == {o[i].event : i \in {j \in DOMAIN o : o[j].kind = "event"}}

InOrder(o) ==
    \A i, j \in DOMAIN o :
        o[i].kind = "event" /\ o[j].kind = "event" /\ i < j
            => o[i].event.seq < o[j].event.seq

(* A request for a reload, its answer and its failure are one token.       *)
For(x, l) == x.kind \in {"query", "answer", "failed"} /\ x.load = l
None(s, l) == \A i \in DOMAIN s : ~For(s[i], l)
AtMostOne(s, l) == \A i, j \in DOMAIN s : For(s[i], l) /\ For(s[j], l) => i = j

LEMMA LineFields ==
    ASSUME NEW x \in Lines
    PROVE  /\ x.kind = "event" => x.event \in Events
           /\ x.kind = "welcome" => x.welcome \in Welcomes
           /\ x.kind = "replay" => x.boot \in Boots /\ x.events \in Seq(Events)
           /\ x.kind = "answer" => x.load \in Loads /\ x.snapshot \subseteq Facts
           /\ x.kind = "failed" => x.load \in Loads
           /\ x.kind \in {"event", "welcome", "subscribed", "resync", "refused",
                          "replay", "answer", "failed"}
BY DEF Lines

LEMMA EventsAppend ==
    ASSUME NEW o \in Seq(Lines), NEW x \in Lines
    PROVE  /\ EventsOn(Append(o, x)) =
                EventsOn(o) \union (IF x.kind = "event" THEN {x.event} ELSE {})
           /\ InOrder(o) /\ (x.kind = "event" => \A e \in EventsOn(o) : e.seq < x.event.seq)
                => InOrder(Append(o, x))
PROOF
<1> DEFINE p == Append(o, x)
<1>1. /\ Len(o) \in Nat /\ DOMAIN o = 1..Len(o) /\ DOMAIN p = 1..(Len(o) + 1)
      /\ \A i \in 1..Len(o) : p[i] = o[i]
      /\ p[Len(o) + 1] = x
  BY AppendItems
<1> HIDE DEF p
<1>2. \A i : i \in 1..(Len(o) + 1) <=> i \in 1..Len(o) \/ i = Len(o) + 1
  BY <1>1
<1>3. ASSUME NEW e
      PROVE  e \in EventsOn(p) <=> e \in EventsOn(o) \/ (x.kind = "event" /\ e = x.event)
  <2>1. e \in EventsOn(p) <=> \E i \in 1..(Len(o) + 1) : p[i].kind = "event" /\ e = p[i].event
    BY <1>1 DEF EventsOn
  <2>2. e \in EventsOn(o) <=> \E i \in 1..Len(o) : o[i].kind = "event" /\ e = o[i].event
    BY <1>1 DEF EventsOn
  <2> QED
    BY <1>1, <1>2, <2>1, <2>2
<1>4. ASSUME InOrder(o), x.kind = "event" => \A e \in EventsOn(o) : e.seq < x.event.seq
      PROVE  InOrder(p)
  <2>1. ASSUME NEW i \in 1..(Len(o) + 1), NEW j \in 1..(Len(o) + 1),
               p[i].kind = "event", p[j].kind = "event", i < j
        PROVE  p[i].event.seq < p[j].event.seq
    <3>1. i \in 1..Len(o) /\ p[i] = o[i] /\ o[i].event \in EventsOn(o)
      BY <1>1, <2>1 DEF EventsOn
    <3>2. CASE j = Len(o) + 1
      BY <1>1, <1>4, <2>1, <3>1, <3>2
    <3>3. CASE j \in 1..Len(o)
      BY <1>1, <1>4, <2>1, <3>1, <3>3 DEF InOrder
    <3> QED
      BY <1>2, <3>2, <3>3
  <2> QED
    BY <1>1, <2>1 DEF InOrder
<1>5. EventsOn(p) = EventsOn(o) \union (IF x.kind = "event" THEN {x.event} ELSE {})
  BY <1>3
<1> QED
  BY <1>4, <1>5 DEF p

LEMMA EventsTail ==
    ASSUME NEW o \in Seq(Lines), o # <<>>
    PROVE  /\ EventsOn(o) =
                EventsOn(Tail(o)) \union
                  (IF Head(o).kind = "event" THEN {Head(o).event} ELSE {})
           /\ InOrder(o) => InOrder(Tail(o))
           /\ InOrder(o) /\ Head(o).kind = "event" =>
                \A e \in EventsOn(Tail(o)) : Head(o).event.seq < e.seq
PROOF
<1> DEFINE t == Tail(o)
<1>1. /\ Len(o) \in Nat /\ DOMAIN o = 1..Len(o) /\ DOMAIN t = 1..(Len(o) - 1)
      /\ \A i \in 1..(Len(o) - 1) : t[i] = o[i + 1] /\ i + 1 \in 1..Len(o)
      /\ Head(o) = o[1] /\ 1 \in 1..Len(o)
  BY TailItems
<1> HIDE DEF t
<1>2. \A i \in 1..Len(o) : i = 1 \/ (i - 1 \in 1..(Len(o) - 1) /\ (i - 1) + 1 = i)
  BY <1>1
<1>3. ASSUME NEW e
      PROVE  e \in EventsOn(o) <=>
               e \in EventsOn(t) \/ (Head(o).kind = "event" /\ e = Head(o).event)
  <2>1. e \in EventsOn(t) <=> \E i \in 1..(Len(o) - 1) : t[i].kind = "event" /\ e = t[i].event
    BY <1>1 DEF EventsOn
  <2>2. e \in EventsOn(o) <=> \E i \in 1..Len(o) : o[i].kind = "event" /\ e = o[i].event
    BY <1>1 DEF EventsOn
  <2>3. ASSUME NEW i \in 1..Len(o), o[i].kind = "event", e = o[i].event
        PROVE  e \in EventsOn(t) \/ (Head(o).kind = "event" /\ e = Head(o).event)
    <3>1. CASE i = 1
      BY <1>1, <2>3, <3>1
    <3>2. CASE i # 1
      <4>1. i - 1 \in 1..(Len(o) - 1) /\ (i - 1) + 1 = i
        BY <1>2, <3>2
      <4>2. t[i - 1] = o[i]
        BY <1>1, <4>1
      <4> QED
        BY <2>1, <2>3, <4>1, <4>2
    <3> QED
      BY <3>1, <3>2
  <2>4. e \in EventsOn(t) => e \in EventsOn(o)
    BY <1>1, <2>1, <2>2
  <2>5. Head(o).kind = "event" /\ e = Head(o).event => e \in EventsOn(o)
    BY <1>1, <2>2
  <2> QED
    BY <2>2, <2>3, <2>4, <2>5
<1>4. EventsOn(o) = EventsOn(t) \union (IF Head(o).kind = "event" THEN {Head(o).event} ELSE {})
  BY <1>3
<1>5. ASSUME InOrder(o), NEW i \in 1..(Len(o) - 1), NEW j \in 1..(Len(o) - 1), i < j,
             t[i].kind = "event", t[j].kind = "event"
      PROVE  t[i].event.seq < t[j].event.seq
  <2>1. i + 1 \in DOMAIN o /\ j + 1 \in DOMAIN o /\ i + 1 < j + 1
    BY <1>1, <1>5
  <2> QED
    BY <1>1, <1>5, <2>1 DEF InOrder
<1>6. ASSUME InOrder(o), Head(o).kind = "event", NEW e \in EventsOn(t)
      PROVE  Head(o).event.seq < e.seq
  <2>1. PICK i \in 1..(Len(o) - 1) : t[i].kind = "event" /\ e = t[i].event
    BY <1>1 DEF EventsOn
  <2>2. i + 1 \in DOMAIN o /\ 1 \in DOMAIN o /\ 1 < i + 1 /\ o[i + 1] = t[i]
    BY <1>1
  <2> QED
    BY <1>1, <1>6, <2>1, <2>2 DEF InOrder
<1>7. InOrder(o) => InOrder(t)
  BY <1>1, <1>5 DEF InOrder
<1> QED
  BY <1>4, <1>6, <1>7 DEF t

LEMMA TokenAppend ==
    ASSUME NEW S, NEW s \in Seq(S), NEW x \in S, NEW l
    PROVE  /\ None(Append(s, x), l) <=> None(s, l) /\ ~For(x, l)
           /\ AtMostOne(s, l) /\ (For(x, l) => None(s, l)) => AtMostOne(Append(s, x), l)
PROOF
<1> DEFINE p == Append(s, x)
<1>1. /\ Len(s) \in Nat /\ DOMAIN s = 1..Len(s) /\ DOMAIN p = 1..(Len(s) + 1)
      /\ \A i \in 1..Len(s) : p[i] = s[i]
      /\ p[Len(s) + 1] = x
  BY AppendItems
<1> HIDE DEF p
<1>2. \A i : i \in 1..(Len(s) + 1) <=> i \in 1..Len(s) \/ i = Len(s) + 1
  BY <1>1
<1> QED
  BY <1>1, <1>2 DEF None, AtMostOne, p

LEMMA TokenTail ==
    ASSUME NEW S, NEW s \in Seq(S), s # <<>>, NEW l
    PROVE  /\ None(s, l) <=> None(Tail(s), l) /\ ~For(Head(s), l)
           /\ AtMostOne(s, l) => AtMostOne(Tail(s), l)
           /\ AtMostOne(s, l) /\ For(Head(s), l) => None(Tail(s), l)
PROOF
<1> DEFINE t == Tail(s)
<1>1. /\ Len(s) \in Nat /\ DOMAIN s = 1..Len(s) /\ DOMAIN t = 1..(Len(s) - 1)
      /\ \A i \in 1..(Len(s) - 1) : t[i] = s[i + 1] /\ i + 1 \in 1..Len(s)
      /\ Head(s) = s[1] /\ 1 \in 1..Len(s)
  BY TailItems
<1> HIDE DEF t
<1>2. \A i \in 1..Len(s) : i = 1 \/ (i - 1 \in 1..(Len(s) - 1) /\ (i - 1) + 1 = i)
  BY <1>1
<1>3. None(s, l) <=> None(t, l) /\ ~For(Head(s), l)
  BY <1>1, <1>2 DEF None
<1>4. AtMostOne(s, l) => AtMostOne(t, l)
  <2>1. \A i, j \in 1..(Len(s) - 1) : i + 1 = j + 1 => i = j
    BY <1>1
  <2> QED
    BY <1>1, <2>1 DEF AtMostOne
<1>5. AtMostOne(s, l) /\ For(Head(s), l) => None(t, l)
  <2>1. \A i \in 1..(Len(s) - 1) : i + 1 # 1
    BY <1>1
  <2> QED
    BY <1>1, <2>1 DEF AtMostOne, None
<1> QED
  BY <1>3, <1>4, <1>5 DEF t

(* What applying a list leaves the client with.                            *)
Places == [seq : {NoSeq} \union 0..MaxSeq, boot : Boots, view : SUBSET Facts]

LEMMA ApplyStaysAPlace ==
    ASSUME NEW at \in Places, NEW events \in Seq(Events)
    PROVE  at \in Positions /\ Apply(at, events) \in Places
PROOF
<1>1. at \in Positions
  BY StreamAssumption DEF Places, Positions, NoSeq, Boots
<1>2. /\ Apply(at, events) \in Positions
      /\ \/ /\ Apply(at, events).seq = at.seq
            /\ Apply(at, events).boot = at.boot
         \/ \E e \in ItemsOf(events) : /\ Apply(at, events).seq = e.seq
                                       /\ Apply(at, events).boot = e.boot
  BY <1>1, ApplyIs
<1>3. \A e \in ItemsOf(events) : e.seq \in 0..MaxSeq /\ e.boot \in Boots
  <2>1. ItemsOf(events) \subseteq Events
    BY DEF ItemsOf
  <2> QED
    BY <2>1, EventFields, StreamAssumption
<1>4. Apply(at, events).seq \in {NoSeq} \union 0..MaxSeq /\ Apply(at, events).boot \in Boots
  BY <1>2, <1>3 DEF Places
<1> QED
  BY <1>1, <1>2, <1>4 DEF Places, Positions

-----------------------------------------------------------------------------
(* Every step keeps the types.                                             *)
LEMMA TypedPlaces ==
    ASSUME TypeOK
    PROVE  /\ Here \in Places /\ Rebased \in Places
           /\ StillAhead \in Seq(Events)
PROOF
<1>1. Here \in Places /\ Rebased \in Places
  BY DEF TypeOK, Here, Rebased, Places, Welcomes
<1>2. StillAhead \in Seq(Events)
  BY BeyondKeeps DEF TypeOK, StillAhead
<1> QED
  BY <1>1, <1>2

LEMMA NumberedNext ==
    ASSUME TypeOK, seq < MaxSeq, NEW b \in BOOLEAN
    PROVE  /\ [boot |-> boot, seq |-> seq + 1, lasting |-> b] \in Events
           /\ b => [boot |-> boot, seq |-> seq + 1, lasting |-> b] \in Facts
           /\ seq + 1 \in 0..MaxSeq
PROOF
<1>1. seq + 1 \in 1..MaxSeq /\ boot \in Boots
  BY StreamAssumption DEF TypeOK
<1>2. [boot |-> boot, seq |-> seq + 1, lasting |-> b] \in Events
  BY <1>1 DEF Events
<1> QED
  BY <1>1, <1>2 DEF Facts

(* A line is sent, or the connection is over.                              *)
Sent(line) == \/ outbox' = Append(outbox, line) /\ dead' = dead
              \/ outbox' = outbox /\ dead' = TRUE

LEMMA SendIs ==
    ASSUME TypeOK, NEW x \in Lines, Send(x)
    PROVE  /\ Sent(x)
           /\ outbox' \in Seq(Lines) /\ Len(outbox') <= OutboxCap
           /\ dead' \in BOOLEAN
PROOF
<1>1. outbox \in Seq(Lines) /\ Len(outbox) <= OutboxCap /\ dead \in BOOLEAN /\ OutboxCap \in Nat
  BY StreamAssumption DEF TypeOK
<1>2. CASE Len(outbox) < OutboxCap
  <2>1. outbox' = Append(outbox, x) /\ dead' = dead
    BY <1>2 DEF Send
  <2>2. /\ Append(outbox, x) \in Seq(Lines) /\ Len(Append(outbox, x)) = Len(outbox) + 1
        /\ Len(outbox) \in Nat
    BY <1>1, AppendItems
  <2> QED
    BY <1>1, <1>2, <2>1, <2>2 DEF Sent
<1>3. CASE ~(Len(outbox) < OutboxCap)
  BY <1>1, <1>3 DEF Send, Sent
<1> QED
  BY <1>2, <1>3

(* What fans out goes to a subscriber that is still there.                 *)
LEMMA FanOutIs ==
    ASSUME TypeOK, NEW e \in Events, FanOut(e)
    PROVE  /\ IF subscribed /\ ~dead THEN Sent([kind |-> "event", event |-> e])
              ELSE outbox' = outbox /\ dead' = dead
           /\ outbox' \in Seq(Lines) /\ Len(outbox') <= OutboxCap
           /\ dead' \in BOOLEAN
PROOF
<1>1. [kind |-> "event", event |-> e] \in Lines
  BY DEF Lines
<1>2. CASE subscribed /\ ~dead
  <2>1. Send([kind |-> "event", event |-> e])
    BY <1>2 DEF FanOut
  <2> QED
    BY <1>1, <1>2, <2>1, SendIs
<1>3. CASE ~(subscribed /\ ~dead)
  BY <1>3 DEF FanOut, TypeOK
<1> QED
  BY <1>2, <1>3

LEMMA ReadsIs ==
    ASSUME TypeOK, NEW k, Reads(k)
    PROVE  /\ outbox # <<>> /\ Head(outbox) \in Lines /\ Head(outbox).kind = k
           /\ outbox' = Tail(outbox) /\ outbox' \in Seq(Lines) /\ Len(outbox') <= OutboxCap
           /\ status # "offline"
           /\ UNCHANGED <<bus_vars, greeted, subscribed, dead, reply>>
PROOF
<1>1. outbox # <<>> /\ Head(outbox).kind = k /\ outbox' = Tail(outbox)
      /\ UNCHANGED <<bus_vars, greeted, subscribed, dead, reply>> /\ status # "offline"
  BY DEF Reads
<1>2. outbox \in Seq(Lines) /\ Len(outbox) <= OutboxCap /\ OutboxCap \in Nat
  BY StreamAssumption DEF TypeOK
<1>3. Tail(outbox) \in Seq(Lines) /\ Head(outbox) \in Lines
      /\ Len(outbox) \in Nat /\ Len(Tail(outbox)) = Len(outbox) - 1
  BY <1>1, <1>2, TailItems
<1> QED
  BY <1>1, <1>2, <1>3

LEMMA NothingHeld ==
    /\ <<>> \in Seq(Lines) /\ <<>> \in Seq(Calls) /\ <<>> \in Seq(Events)
    /\ Len(<<>>) <= OutboxCap
    /\ \A e \in Events : <<e>> \in Seq(Events)
PROOF
<1>1. <<>> \in Seq(Lines) /\ <<>> \in Seq(Calls) /\ <<>> \in Seq(Events) /\ Len(<<>>) = 0
  OBVIOUS
<1>2. \A e \in Events : <<e>> \in Seq(Events)
  OBVIOUS
<1>3. 0 <= OutboxCap
  BY StreamAssumption
<1> QED
  BY <1>1, <1>2, <1>3

LEMMA CallsGrow ==
    ASSUME TypeOK
    PROVE  /\ Append(calls, [kind |-> "hello"]) \in Seq(Calls)
           /\ Append(calls, [kind |-> "subscribe"]) \in Seq(Calls)
           /\ last_seq # NoSeq =>
                 Append(calls, [kind |-> "since", seq |-> last_seq]) \in Seq(Calls)
           /\ \A l \in Loads : Ask(l, calls) \in Seq(Calls)
PROOF
<1>1. calls \in Seq(Calls) /\ last_seq \in {NoSeq} \union 0..MaxSeq
  BY DEF TypeOK
<1>2. /\ [kind |-> "hello"] \in Calls /\ [kind |-> "subscribe"] \in Calls
      /\ last_seq # NoSeq => [kind |-> "since", seq |-> last_seq] \in Calls
      /\ \A l \in Loads : [kind |-> "query", load |-> l] \in Calls
  BY <1>1 DEF Calls
<1> QED
  BY <1>1, <1>2, AppendItems DEF Ask

LEMMA MoveTyped ==
    ASSUME TypeOK, NEW at \in Places, Move(at)
    PROVE  /\ last_seq' \in {NoSeq} \union 0..MaxSeq /\ counted_by' \in Boots
           /\ view' \subseteq Facts /\ lost' \subseteq Facts
BY DEF TypeOK, Move, Places

LEMMA StartOverTyped ==
    ASSUME TypeOK, StartOver
    PROVE  /\ status' = "live" /\ queued' = <<>> /\ queued' \in Seq(Events)
           /\ welcome' \in Welcomes /\ calls' \in Seq(Calls)
           /\ load' \in [Loads -> LoadStates] /\ retry' \in BOOLEAN
           /\ last_seq' \in {NoSeq} \union 0..MaxSeq /\ counted_by' \in Boots
           /\ view' \subseteq Facts /\ lost' \subseteq Facts
PROOF
<1>1. Apply(Rebased, StillAhead) \in Places
  BY TypedPlaces, ApplyStaysAPlace
<1>2. Move(Apply(Rebased, StillAhead))
  BY DEF StartOver
<1>3. /\ last_seq' \in {NoSeq} \union 0..MaxSeq /\ counted_by' \in Boots
      /\ view' \subseteq Facts /\ lost' \subseteq Facts
  BY <1>1, <1>2, MoveTyped
<1>4. calls' \in Seq(Calls)
  BY CallsGrow DEF StartOver, Loads
<1>5. load' \in [Loads -> LoadStates]
  BY DEF StartOver, TypeOK, LoadStates
<1>6. status' = "live" /\ queued' = <<>> /\ welcome' = welcome /\ retry' = FALSE
  BY DEF StartOver
<1>7. queued' \in Seq(Events)
  BY <1>6, NothingHeld
<1> QED
  BY <1>3, <1>4, <1>5, <1>6, <1>7 DEF TypeOK

LEMMA HangupTyped ==
    ASSUME TypeOK, Hangup
    PROVE  /\ status' = "offline" /\ queued' = <<>>
           /\ view' \subseteq Facts /\ lost' \subseteq Facts
           /\ load' \in [Loads -> LoadStates] /\ retry' \in BOOLEAN
           /\ last_seq' \in {NoSeq} \union 0..MaxSeq /\ counted_by' \in Boots
           /\ dead' = TRUE /\ outbox' = <<>> /\ calls' = <<>> /\ reply' = NoLine
           /\ UNCHANGED <<bus_vars, greeted, subscribed, welcome>>
PROOF
<1>1. /\ \A l \in Loads : load[l].stage = "held" => load[l].snapshot \subseteq Facts
      /\ {"resync", "again"} = Loads
  <2>1. ASSUME NEW l \in Loads, load[l].stage = "held" PROVE load[l].snapshot \subseteq Facts
    <3>1. load[l] \in LoadStates
      BY DEF TypeOK
    <3> QED
      BY <2>1, <3>1 DEF LoadStates, Idle
  <2> QED
    BY <2>1 DEF Loads
<1>2. Reloaded(Reloaded(view, "resync"), "again") \subseteq Facts
  BY <1>1 DEF Reloaded, TypeOK
<1>3. view' \subseteq Facts /\ lost' \subseteq Facts
  BY <1>2 DEF Hangup, TypeOK
<1>4. load' \in [Loads -> LoadStates] /\ retry' \in BOOLEAN
  <2>1. load' = [l \in Loads |-> Idle]
    BY DEF Hangup
  <2>2. retry' = (retry \/ status = "asking" \/ \E l \in Loads : load[l] # Idle)
    BY DEF Hangup
  <2> QED
    BY <2>1, <2>2 DEF LoadStates
<1>5. last_seq' \in {NoSeq} \union 0..MaxSeq /\ counted_by' \in Boots
  BY DEF Hangup, TypeOK, Welcomes
<1> QED
  BY <1>3, <1>4, <1>5 DEF Hangup

LEMMA EventsSinceIsALine ==
    ASSUME TypeOK, NEW n
    PROVE  EventsSince(n) \in Lines
PROOF
<1>1. Beyond(ring, n) \in Seq(Events) /\ boot \in Boots
  <2>1. ring \in Seq(Events)
    BY DEF TypeOK, Facts
  <2> QED
    BY <2>1, BeyondKeeps DEF TypeOK
<1> QED
  BY <1>1 DEF EventsSince, Lines

LEMMA StepKeepsTypes ==
    ASSUME TypeOK, [Next]_vars
    PROVE  TypeOK'
PROOF
<1> USE DEF bus_vars, link_vars, client_vars, view_vars
<1>1. CASE Publish
  <2> DEFINE e == [boot |-> boot, seq |-> seq + 1, lasting |-> TRUE]
  <2>1. e \in Events /\ e \in Facts /\ seq' \in 0..MaxSeq /\ FanOut(e)
    BY <1>1, NumberedNext DEF Publish
  <2>2. outbox' \in Seq(Lines) /\ Len(outbox') <= OutboxCap /\ dead' \in BOOLEAN
    BY <2>1, FanOutIs
  <2>3. ring' \in Seq(Facts)
    <3>1. ring \in Seq(Facts)
      BY DEF TypeOK
    <3>2. /\ Append(ring, e) \in Seq(Facts) /\ Len(Append(ring, e)) = Len(ring) + 1
          /\ Len(ring) \in Nat
      BY <2>1, <3>1, AppendItems
    <3>3. Append(ring, e) # <<>>
      BY <3>2
    <3>4. Tail(Append(ring, e)) \in Seq(Facts)
      BY <3>2, <3>3, TailItems
    <3> QED
      BY <1>1, <3>2, <3>4 DEF Publish
  <2>4. facts' \subseteq Facts
    BY <1>1, <2>1 DEF Publish, TypeOK
  <2> QED
    BY <1>1, <2>1, <2>2, <2>3, <2>4 DEF Publish, TypeOK
<1>2. CASE PublishEphemeral
  <2> DEFINE e == [boot |-> boot, seq |-> seq + 1, lasting |-> FALSE]
  <2>1. e \in Events /\ seq' \in 0..MaxSeq /\ FanOut(e)
    BY <1>2, NumberedNext DEF PublishEphemeral
  <2>2. outbox' \in Seq(Lines) /\ Len(outbox') <= OutboxCap /\ dead' \in BOOLEAN
    BY <2>1, FanOutIs
  <2> QED
    BY <1>2, <2>1, <2>2 DEF PublishEphemeral, TypeOK
<1>3. CASE Handle
  <2>1. calls' \in Seq(Calls)
    BY <1>3, TailItems DEF Handle, TypeOK
  <2>2. Head(calls) \in Calls
    BY <1>3, TailItems DEF Handle, TypeOK
  <2>3. reply' \in Lines \union {NoLine}
    <3>1. boot \in Boots /\ seq \in 0..MaxSeq /\ facts \subseteq Facts
          /\ reply \in Lines \union {NoLine}
      BY DEF TypeOK
    <3>2. [kind |-> "welcome", welcome |-> [boot |-> boot, seq |-> seq]] \in Lines
          /\ [kind |-> "subscribed"] \in Lines
      BY <3>1 DEF Lines, Welcomes
    <3>3. EventsSince(Head(calls).seq) \in Lines
      BY EventsSinceIsALine
    <3>4. Head(calls).kind = "query" =>
            /\ [kind |-> "answer", load |-> Head(calls).load, snapshot |-> facts] \in Lines
            /\ [kind |-> "failed", load |-> Head(calls).load] \in Lines
      BY <2>2, <3>1 DEF Lines, Calls
    <3> QED
      BY <1>3, <3>1, <3>2, <3>3, <3>4 DEF Handle
  <2>4. greeted' \in BOOLEAN /\ subscribed' \in BOOLEAN /\ dead' \in BOOLEAN
        /\ failures' \in 0..MaxFailures
    <3>1. /\ greeted \in BOOLEAN /\ subscribed \in BOOLEAN /\ dead \in BOOLEAN
          /\ failures \in 0..MaxFailures
          /\ failures < MaxFailures => failures + 1 \in 0..MaxFailures
      BY StreamAssumption DEF TypeOK
    <3>2. greeted' \in {greeted, TRUE} /\ subscribed' \in {subscribed, TRUE}
          /\ dead' \in {dead, TRUE}
      BY <1>3 DEF Handle
    <3>3. failures' = failures \/ (failures < MaxFailures /\ failures' = failures + 1)
      BY <1>3 DEF Handle
    <3> QED
      BY <3>1, <3>2, <3>3
  <2>5. UNCHANGED <<bus_vars, outbox, client_vars, view_vars>>
    BY <1>3 DEF Handle
  <2> QED
    BY <2>1, <2>3, <2>4, <2>5 DEF TypeOK
<1>4. CASE Answer
  <2>1. reply \in Lines /\ Send(reply)
    BY <1>4 DEF Answer, TypeOK
  <2>2. outbox' \in Seq(Lines) /\ Len(outbox') <= OutboxCap /\ dead' \in BOOLEAN
    BY <2>1, SendIs
  <2> QED
    BY <1>4, <2>2 DEF Answer, TypeOK
<1>5. CASE Restart
  <2>1. boot' \in Boots /\ seq' \in 0..MaxSeq /\ ring' = <<>> /\ dead' = TRUE
        /\ calls' = <<>> /\ reply' = NoLine
    BY <1>5, StreamAssumption DEF Restart, TypeOK, Boots
  <2> QED
    BY <1>5, <2>1 DEF Restart, TypeOK
<1>6. CASE RetryReload
  <2>1. calls' \in Seq(Calls)
    BY <1>6, CallsGrow DEF RetryReload, Loads
  <2>2. load' \in [Loads -> LoadStates] /\ retry' \in BOOLEAN
    BY <1>6 DEF RetryReload, TypeOK, LoadStates
  <2>3. failures' \in 0..MaxFailures
    BY <1>6, StreamAssumption DEF RetryReload, TypeOK
  <2> QED
    BY <1>6, <2>1, <2>2, <2>3 DEF RetryReload, TypeOK
<1>7. CASE \E l \in Loads : FinishReload(l)
  <2>1. PICK l \in Loads : FinishReload(l)
    BY <1>7
  <2>2. load[l] \in LoadStates /\ load[l].stage = "held"
    BY <2>1 DEF FinishReload, TypeOK
  <2>3. load[l].snapshot \subseteq Facts
    BY <2>2 DEF LoadStates, Idle
  <2>4. view' \subseteq Facts /\ lost' \subseteq Facts
    BY <2>1, <2>3 DEF FinishReload, Reloaded, TypeOK
  <2>5. load' \in [Loads -> LoadStates]
    BY <2>1 DEF FinishReload, TypeOK, LoadStates
  <2> QED
    BY <2>1, <2>4, <2>5 DEF FinishReload, TypeOK
<1>8. CASE Connect
  BY <1>8, NothingHeld DEF Connect, TypeOK
<1>9. CASE SayHello
  BY <1>9, CallsGrow DEF SayHello, TypeOK
<1>10. CASE HearWelcome
  <2>1. /\ Head(outbox) \in Lines /\ Head(outbox).kind = "welcome"
        /\ outbox' \in Seq(Lines) /\ Len(outbox') <= OutboxCap
        /\ UNCHANGED <<bus_vars, greeted, subscribed, dead, reply>>
    BY <1>10, ReadsIs DEF HearWelcome
  <2>2. welcome' \in Welcomes
    BY <1>10, <2>1, LineFields DEF HearWelcome
  <2>3. calls' \in Seq(Calls)
    BY <1>10, CallsGrow DEF HearWelcome
  <2> QED
    BY <1>10, <2>1, <2>2, <2>3 DEF HearWelcome, TypeOK
<1>11. CASE HearSubscribed
  <2>1. /\ outbox' \in Seq(Lines) /\ Len(outbox') <= OutboxCap
        /\ UNCHANGED <<bus_vars, greeted, subscribed, dead, reply>>
    BY <1>11, ReadsIs DEF HearSubscribed
  <2>2. CASE StartOver
    BY <1>11, <2>1, <2>2, StartOverTyped DEF HearSubscribed, TypeOK
  <2>3. CASE ~StartOver
    <3>1. /\ last_seq # NoSeq /\ status' = "asking"
          /\ calls' = Append(calls, [kind |-> "since", seq |-> last_seq])
          /\ UNCHANGED <<last_seq, welcome, queued, counted_by, view_vars, failures>>
      BY <1>11, <2>3 DEF HearSubscribed
    <3>2. calls' \in Seq(Calls)
      BY <3>1, CallsGrow
    <3> QED
      BY <2>1, <3>1, <3>2 DEF TypeOK
  <2> QED
    BY <2>2, <2>3
<1>12. CASE HearReplay
  <2>1. /\ Head(outbox) \in Lines /\ Head(outbox).kind = "replay"
        /\ outbox' \in Seq(Lines) /\ Len(outbox') <= OutboxCap
        /\ UNCHANGED <<bus_vars, greeted, subscribed, dead, reply>>
    BY <1>12, ReadsIs DEF HearReplay
  <2>2. Head(outbox).boot \in Boots /\ Head(outbox).events \in Seq(Events)
    BY <2>1, LineFields
  <2> DEFINE at == Apply(Apply(Here, Head(outbox).events), queued)
  <2>3. at \in Places
    BY <2>2, TypedPlaces, ApplyStaysAPlace DEF TypeOK
  <2>4. /\ last_seq' = at.seq /\ counted_by' = Head(outbox).boot
        /\ view' = at.view /\ lost' \subseteq lost \union facts
    BY <1>12 DEF HearReplay
  <2> HIDE DEF at
  <2>5. last_seq' \in {NoSeq} \union 0..MaxSeq /\ counted_by' \in Boots
        /\ view' \subseteq Facts /\ lost' \subseteq Facts
    BY <2>2, <2>3, <2>4 DEF Places, TypeOK
  <2> QED
    BY <1>12, <2>1, <2>5 DEF HearReplay, TypeOK
<1>13. CASE HearResync
  BY <1>13, ReadsIs, StartOverTyped DEF HearResync, TypeOK
<1>14. CASE HearLateReply
  BY <1>14, ReadsIs DEF HearLateReply, TypeOK
<1>15. CASE HearEvent
  <2>1. /\ Head(outbox) \in Lines /\ Head(outbox).kind = "event"
        /\ outbox' \in Seq(Lines) /\ Len(outbox') <= OutboxCap
        /\ UNCHANGED <<bus_vars, greeted, subscribed, dead, reply>>
    BY <1>15, ReadsIs DEF HearEvent
  <2>2. Head(outbox).event \in Events
    BY <2>1, LineFields
  <2>3. CASE Move(Apply(Here, <<Head(outbox).event>>)) /\ UNCHANGED queued
    <3>1. Apply(Here, <<Head(outbox).event>>) \in Places
      BY <2>2, TypedPlaces, ApplyStaysAPlace, NothingHeld
    <3>2. /\ last_seq' \in {NoSeq} \union 0..MaxSeq /\ counted_by' \in Boots
          /\ view' \subseteq Facts /\ lost' \subseteq Facts
      BY <2>3, <3>1, MoveTyped
    <3> QED
      BY <1>15, <2>1, <2>3, <3>2 DEF HearEvent, TypeOK
  <2>4. CASE queued' = Append(queued, Head(outbox).event)
             /\ UNCHANGED <<last_seq, counted_by, view, lost>>
    <3>1. queued' \in Seq(Events)
      BY <2>2, <2>4, AppendItems DEF TypeOK
    <3> QED
      BY <1>15, <2>1, <2>4, <3>1 DEF HearEvent, TypeOK
  <2> QED
    BY <1>15, <2>3, <2>4 DEF HearEvent
<1>16. CASE \E l \in Loads : HearAnswer(l)
  <2>1. PICK l \in Loads : HearAnswer(l)
    BY <1>16
  <2>2. /\ outbox' \in Seq(Lines) /\ Len(outbox') <= OutboxCap
        /\ UNCHANGED <<bus_vars, greeted, subscribed, dead, reply>>
        /\ Head(outbox) \in Lines
    BY <2>1, ReadsIs DEF HearAnswer
  <2>3. Head(outbox).kind = "answer" => Head(outbox).snapshot \subseteq Facts
    BY <2>2, LineFields
  <2>4. load' \in [Loads -> LoadStates] /\ retry' \in BOOLEAN
    <3>1. load \in [Loads -> LoadStates] /\ retry \in BOOLEAN /\ Idle \in LoadStates
      BY DEF TypeOK, LoadStates
    <3>2. Head(outbox).kind = "answer" =>
            [stage |-> "held", snapshot |-> Head(outbox).snapshot] \in LoadStates
      BY <2>3 DEF LoadStates
    <3> QED
      BY <2>1, <3>1, <3>2 DEF HearAnswer, Reads
  <2> QED
    BY <2>1, <2>2, <2>4 DEF HearAnswer, TypeOK
<1>17. CASE SinceTimesOut
  <2>1. failures' \in 0..MaxFailures
    BY <1>17, StreamAssumption DEF SinceTimesOut, TypeOK
  <2> QED
    BY <1>17, <2>1, StartOverTyped DEF SinceTimesOut, TypeOK
<1>18. CASE NoticeClose
  BY <1>18, HangupTyped, NothingHeld DEF NoticeClose, TypeOK
<1>19. CASE GiveUp
  <2>1. failures' \in 0..MaxFailures
    BY <1>19, StreamAssumption DEF GiveUp, TypeOK
  <2> QED
    BY <1>19, <2>1, HangupTyped, NothingHeld DEF GiveUp, TypeOK
<1>20. CASE UNCHANGED vars
  BY <1>20 DEF vars, TypeOK
<1> QED
  BY <1>1, <1>2, <1>3, <1>4, <1>5, <1>6, <1>7, <1>8, <1>9, <1>10, <1>11, <1>12,
     <1>13, <1>14, <1>15, <1>16, <1>17, <1>18, <1>19, <1>20
     DEF Next, Daemon, Client, Renderer, Hear

-----------------------------------------------------------------------------
(* The invariant.                                                          *)

(* Replies on their way; live events on their way, held or on the wire;    *)
(* the facts that are shown or set apart as lost.                          *)
InFlight == ItemsOf(outbox) \union {reply}
Stream == ItemsOf(queued) \union EventsOn(outbox)
Seen == view \union lost

Streaming == status \in {"subscribing", "asking", "live"}

(* The ring is the end of what this run has published of facts.            *)
BusInv ==
    /\ Ascending(ring)
    /\ \A e \in ItemsOf(ring) : e \in facts /\ e.boot = boot /\ e.seq <= seq
    /\ \A f \in facts : f.boot <= boot
    /\ \A f \in facts : f.boot = boot =>
          /\ f.seq <= seq /\ ring # <<>>
          /\ f.seq >= ring[1].seq => f \in ItemsOf(ring)

(* A number the daemon has given out.                                      *)
Counted(b, n) == b <= boot /\ (b = boot => n <= seq)

(* Nobody holds a number that was not given out, and no welcome is of an   *)
(* earlier run than the position.                                          *)
NumberInv ==
    /\ Counted(welcome.boot, welcome.seq)
    /\ Counted(counted_by, last_seq)
    /\ counted_by <= welcome.boot
    /\ \A l \in InFlight : l.kind = "welcome" =>
          /\ Counted(l.welcome.boot, l.welcome.seq)
          /\ ~dead => l.welcome.boot = boot
          /\ status \in {"connecting", "greeting"} => counted_by <= l.welcome.boot
    /\ \A e \in Stream : e.boot = welcome.boot /\ Counted(e.boot, e.seq)

(* Live events reach the client in the order of their numbers.             *)
StreamInv ==
    /\ Ascending(queued) /\ InOrder(outbox)
    /\ \A e \in ItemsOf(queued), f \in EventsOn(outbox) : e.seq < f.seq

(* What may be on its way at each stage of connecting.                     *)
LinkInv ==
    /\ status = "offline" => dead
    /\ reply.kind # "event"
    /\ ~Streaming =>
          /\ EventsOn(outbox) = {} /\ queued = <<>>
          /\ \A c \in ItemsOf(calls) : c.kind # "subscribe"
          /\ dead \/ ~subscribed
          /\ \A l \in InFlight : l.kind # "subscribed"
    /\ Streaming /\ ~dead => welcome.boot = boot
    /\ ~dead /\ (status \in {"asking", "live"} \/ \E l \in InFlight : l.kind = "subscribed")
          => subscribed
    /\ status \in {"asking", "live"} => last_seq # NoSeq
    /\ status = "live" => counted_by = welcome.boot /\ queued = <<>>
    /\ status \notin {"asking", "live"} =>
          /\ \A c \in ItemsOf(calls) : c.kind # "since"
          /\ \A l \in InFlight : l.kind \notin {"replay", "resync"}
    /\ status = "asking" =>
          /\ last_seq <= welcome.seq
          /\ \A c \in ItemsOf(calls) : c.kind = "since" => c.seq = last_seq

(* The client may still hear of f, or of something after it.               *)
Reachable(f) == ~dead \/ \E e \in Stream : e.seq >= f.seq

(* A replay and the live events after it leave nothing out between them.   *)
Covers(events) ==
    \A f \in facts : f.boot = welcome.boot /\ f.seq > last_seq /\ f \notin ItemsOf(events) =>
        /\ \A e \in ItemsOf(events) : e.seq < f.seq
        /\ Reachable(f) => f \in Stream

ReplayInv ==
    status = "asking" => \A l \in InFlight : l.kind = "replay" =>
        /\ l.boot = welcome.boot /\ Ascending(l.events)
        /\ \A e \in ItemsOf(l.events) : e.boot = welcome.boot /\ Counted(e.boot, e.seq)
        /\ Covers(l.events)

CoreInv == BusInv /\ NumberInv /\ StreamInv /\ LinkInv /\ ReplayInv

(* A reload has at most one query, answer or failure on its way, and only  *)
(* while it waits; the one of a resync belongs to a live connection.       *)
OneToken(l) ==
    /\ load[l].stage # "asked" => None(calls, l) /\ ~For(reply, l) /\ None(outbox, l)
    /\ AtMostOne(calls, l) /\ AtMostOne(outbox, l)
    /\ ~None(calls, l) => ~For(reply, l) /\ None(outbox, l)
    /\ For(reply, l) => None(outbox, l)

LoadInv ==
    /\ status # "live" => load["resync"] = Idle
    /\ \A l \in Loads : OneToken(l)

(* What the client should show or be about to hear of: what its position   *)
(* claims and, once it is live, all it has not been cut off from.          *)
Expected(f) ==
    \/ Passed(f)
    \/ status = "live" /\ f.boot = welcome.boot /\ Reachable(f)
Coming(f) == f \in EventsOn(outbox) /\ f.seq > last_seq
Missing == {f \in facts : Expected(f) /\ f \notin Seen /\ ~Coming(f)}

(* A reload under way whose answer, given or to come, has all that is      *)
(* missing.                                                                *)
Owed(l) ==
    /\ load[l] # Idle
    /\ load[l].stage = "held" => Missing \subseteq load[l].snapshot
    /\ \A x \in InFlight : x.kind = "answer" /\ x.load = l => Missing \subseteq x.snapshot

HonestInv == last_seq # NoSeq => retry \/ Missing = {} \/ \E l \in Loads : Owed(l)

IInv == TypeOK /\ CoreInv /\ LoadInv /\ HonestInv

(* What the types say of the numbers.                                      *)
LEMMA Numbers ==
    ASSUME TypeOK
    PROVE  /\ boot \in Int /\ seq \in Nat /\ last_seq \in Int /\ counted_by \in Int
           /\ welcome.boot \in Int /\ welcome.seq \in Nat
           /\ \A e \in Stream : e \in Events /\ e.seq \in Nat /\ e.boot \in Int
           /\ ItemsOf(queued) \subseteq Events /\ EventsOn(outbox) \subseteq Events
           /\ \A e \in ItemsOf(ring) : e \in Facts /\ e.seq \in Nat /\ e.boot \in Int
           /\ \A f \in facts : f \in Facts /\ f \in Events /\ f.seq \in Nat /\ f.boot \in Int
                   /\ f.lasting
           /\ InFlight \subseteq Lines \union {NoLine}
           /\ ItemsOf(calls) \subseteq Calls
           /\ \A l \in InFlight : l.kind = "welcome" =>
                 l.welcome.boot \in Int /\ l.welcome.seq \in Nat /\ l.welcome \in Welcomes
           /\ \A l \in InFlight : l.kind = "replay" =>
                 /\ l.events \in Seq(Events)
                 /\ \A e \in ItemsOf(l.events) : e \in Events /\ e.seq \in Nat /\ e.boot \in Int
PROOF
<1>1. /\ boot \in Int /\ seq \in Nat /\ last_seq \in Int /\ counted_by \in Int
      /\ welcome.boot \in Int /\ welcome.seq \in Nat
  BY StreamAssumption DEF TypeOK, Boots, NoSeq, Welcomes
<1>2. ItemsOf(queued) \subseteq Events /\ ItemsOf(ring) \subseteq Facts
      /\ ItemsOf(outbox) \subseteq Lines /\ ItemsOf(calls) \subseteq Calls
  BY DEF TypeOK, ItemsOf
<1>3. InFlight \subseteq Lines \union {NoLine}
  BY <1>2 DEF InFlight, TypeOK
<1>4. EventsOn(outbox) \subseteq Events
  <2>1. ASSUME NEW i \in DOMAIN outbox, outbox[i].kind = "event"
        PROVE  outbox[i].event \in Events
    <3>1. outbox[i] \in Lines
      BY DEF TypeOK
    <3> QED
      BY <2>1, <3>1, LineFields
  <2> QED
    BY <2>1 DEF EventsOn
<1>5. \A e \in Events : e.seq \in Nat /\ e.boot \in Int
  BY EventFields
<1>6. \A e \in Facts : e \in Events /\ e.lasting
  BY DEF Facts
<1>7. facts \subseteq Facts
  BY DEF TypeOK
<1>8. ASSUME NEW l \in InFlight, l.kind = "welcome"
      PROVE  l.welcome.boot \in Int /\ l.welcome.seq \in Nat /\ l.welcome \in Welcomes
  <2>1. l \in Lines
    BY <1>3, <1>8 DEF NoLine
  <2>2. l.welcome \in Welcomes
    BY <1>8, <2>1, LineFields
  <2> QED
    BY <2>2, StreamAssumption DEF Welcomes, Boots
<1>9. ASSUME NEW l \in InFlight, l.kind = "replay"
      PROVE  /\ l.events \in Seq(Events)
             /\ \A e \in ItemsOf(l.events) : e \in Events /\ e.seq \in Nat /\ e.boot \in Int
  <2>1. l \in Lines
    BY <1>3, <1>9 DEF NoLine
  <2>2. l.events \in Seq(Events)
    BY <1>9, <2>1, LineFields
  <2>3. ItemsOf(l.events) \subseteq Events
    BY <2>2 DEF ItemsOf
  <2> QED
    BY <1>5, <2>2, <2>3
<1> QED
  BY <1>1, <1>2, <1>3, <1>4, <1>5, <1>6, <1>7, <1>8, <1>9 DEF Stream

-----------------------------------------------------------------------------
(* The bus.                                                                *)

(* The daemon's count only moves on.                                       *)
Later == \/ boot' = boot /\ seq <= seq'
         \/ boot < boot'

LEMMA BusStep ==
    ASSUME TypeOK, BusInv, [Next]_vars
    PROVE  BusInv' /\ Later /\ boot' \in Int /\ seq' \in Int
PROOF
<1> USE DEF bus_vars, link_vars, client_vars, view_vars
<1>0. /\ boot \in Int /\ seq \in Nat /\ ring \in Seq(Facts)
      /\ \A e \in ItemsOf(ring) : e.seq \in Nat
      /\ \A f \in facts : f.seq \in Nat /\ f.boot \in Int
  BY Numbers DEF TypeOK
<1>1. CASE Publish
  <2> DEFINE e == [boot |-> boot, seq |-> seq + 1, lasting |-> TRUE]
             longer == Append(ring, e)
  <2>1. e \in Facts /\ e.boot = boot /\ e.seq = seq + 1
    BY <1>1, NumberedNext DEF Publish
  <2>2. /\ boot' = boot /\ seq' = seq + 1 /\ facts' = facts \union {e}
        /\ ring' = IF Len(longer) > ReplayCap THEN Tail(longer) ELSE longer
    BY <1>1 DEF Publish
  <2> HIDE DEF e
  <2>3. /\ longer \in Seq(Facts) /\ Len(longer) = Len(ring) + 1 /\ Len(ring) \in Nat
        /\ DOMAIN longer = 1..(Len(ring) + 1) /\ DOMAIN ring = 1..Len(ring)
        /\ \A i \in 1..Len(ring) : longer[i] = ring[i]
        /\ longer[Len(ring) + 1] = e
        /\ ItemsOf(longer) = ItemsOf(ring) \union {e}
    BY <1>0, <2>1, AppendItems
  <2>4. longer # <<>>
    BY <2>3
  <2> HIDE DEF longer
  <2>5. Ascending(longer)
    <3>1. Ascending(ring) /\ \A x \in ItemsOf(ring) : x.seq < e.seq
      BY <1>0, <2>1 DEF BusInv
    <3> QED
      BY <1>0, <2>1, <3>1, AscendingAppend DEF longer
  <2>6. \A x \in ItemsOf(longer) : x \in facts' /\ x.boot = boot' /\ x.seq <= seq'
    BY <1>0, <2>1, <2>2, <2>3 DEF BusInv
  <2>7. \A f \in facts' : f.boot <= boot' /\ (f.boot = boot' => f.seq <= seq')
    BY <1>0, <2>1, <2>2 DEF BusInv
  <2>8. ASSUME NEW f \in facts', f.boot = boot', f.seq >= longer[1].seq
        PROVE  f \in ItemsOf(longer)
    <3>1. CASE f = e
      BY <2>3, <3>1
    <3>2. CASE f # e
      <4>1. f \in facts /\ ring # <<>>
        BY <2>2, <2>8, <3>2 DEF BusInv
      <4>2. 1 \in 1..Len(ring)
        BY <1>0, <4>1, TailItems
      <4>3. longer[1] = ring[1]
        BY <2>3, <4>2
      <4> QED
        BY <2>2, <2>3, <2>8, <4>1, <4>3 DEF BusInv
    <3> QED
      BY <3>1, <3>2
  <2>9. CASE ~(Len(longer) > ReplayCap)
    <3>1. ring' = longer
      BY <2>2, <2>9
    <3> QED
      BY <2>2, <2>4, <2>5, <2>6, <2>7, <2>8, <3>1, <1>0 DEF BusInv, Later
  <2>10. CASE Len(longer) > ReplayCap
    <3> DEFINE rest == Tail(longer)
    <3>1. ring' = rest
      BY <2>2, <2>10
    <3>2. /\ Head(longer) = longer[1] /\ ItemsOf(longer) = ItemsOf(rest) \union {Head(longer)}
          /\ DOMAIN rest = 1..(Len(longer) - 1)
          /\ \A i \in 1..(Len(longer) - 1) : rest[i] = longer[i + 1]
      BY <2>3, <2>4, TailItems
    <3>3. /\ Ascending(rest)
          /\ \A x \in ItemsOf(rest) : Head(longer).seq < x.seq
      BY <2>3, <2>4, <2>5, AscendingTail
    <3> HIDE DEF rest
    <3>4. 1 \in DOMAIN rest
      BY <2>3, <2>10, <3>2, StreamAssumption
    <3>5. rest # <<>> /\ rest[1] \in ItemsOf(rest)
      <4>1. rest[1] \in ItemsOf(rest)
        BY <3>4 DEF ItemsOf
      <4>2. rest # <<>>
        BY <3>4
      <4> QED
        BY <4>1, <4>2
    <3>6. ASSUME NEW f \in facts', f.boot = boot', f.seq >= rest[1].seq
          PROVE  f \in ItemsOf(rest)
      <4>1. Head(longer).seq < rest[1].seq /\ rest[1] \in ItemsOf(longer)
            /\ Head(longer) \in ItemsOf(longer)
        BY <3>2, <3>3, <3>5
      <4>2. rest[1].seq \in Int /\ Head(longer).seq \in Int
        BY <1>0, <2>1, <2>3, <4>1
      <4>3. f.seq \in Int
        BY <1>0, <2>1, <2>2
      <4>4. f.seq > Head(longer).seq
        BY <3>6, <4>1, <4>2, <4>3
      <4>5. f \in ItemsOf(longer) /\ f # Head(longer)
        BY <2>8, <3>2, <3>6, <4>1, <4>2, <4>3, <4>4
      <4> QED
        BY <3>2, <4>5
    <3>7. \A x \in ItemsOf(rest) : x \in facts' /\ x.boot = boot' /\ x.seq <= seq'
      BY <2>6, <3>2
    <3>8. \A f \in facts' : f.boot = boot' =>
              /\ f.seq <= seq' /\ rest # <<>>
              /\ f.seq >= rest[1].seq => f \in ItemsOf(rest)
      BY <2>7, <3>5, <3>6
    <3>9. BusInv'
      BY <2>7, <3>1, <3>3, <3>7, <3>8 DEF BusInv
    <3> QED
      BY <1>0, <2>2, <3>9 DEF Later
  <2> QED
    BY <2>9, <2>10
<1>2. CASE PublishEphemeral
  <2>1. boot' = boot /\ ring' = ring /\ facts' = facts /\ seq' = seq + 1
    BY <1>2 DEF PublishEphemeral
  <2>2. /\ \A e \in ItemsOf(ring) : e.seq <= seq => e.seq <= seq'
        /\ \A e \in facts : e.seq <= seq => e.seq <= seq'
    BY <1>0, <2>1
  <2> QED
    BY <1>0, <2>1, <2>2 DEF BusInv, Later
<1>3. CASE Restart
  <2>1. boot' = boot + 1 /\ ring' = <<>> /\ facts' = facts /\ seq' = 0
    BY <1>3 DEF Restart
  <2>2. \A f \in facts : f.boot < boot'
    BY <1>0, <2>1 DEF BusInv
  <2>3. ItemsOf(<<>>) = {} /\ Ascending(<<>>)
    BY DEF ItemsOf, Ascending
  <2> QED
    BY <1>0, <2>1, <2>2, <2>3 DEF BusInv, Later
<1>4. CASE UNCHANGED bus_vars
  BY <1>0, <1>4 DEF BusInv, Later, ItemsOf
<1> QED
  BY <1>1, <1>2, <1>3, <1>4
     DEF Next, Daemon, Client, Renderer, Hear, Handle, Answer, RetryReload,
         FinishReload, Connect, SayHello, HearWelcome, HearSubscribed, HearReplay,
         HearResync, HearLateReply, HearEvent, HearAnswer, SinceTimesOut,
         NoticeClose, GiveUp, Hangup, Reads, vars

LEMMA StillCounted ==
    ASSUME TypeOK, Later, boot' \in Int, seq' \in Int, NEW b \in Int, NEW n \in Int,
           Counted(b, n)
    PROVE  b <= boot' /\ (b = boot' => n <= seq')
BY Numbers DEF Later, Counted

-----------------------------------------------------------------------------
(* A step that at most takes away from what is on its way: it queues no    *)
(* event and gives no answer.                                              *)
Quietly ==
    /\ facts' = facts
    /\ boot' = boot \/ dead'
    /\ UNCHANGED <<client_vars, subscribed>>
    /\ dead => dead'
    /\ reply'.kind # "event"
    /\ InFlight' \subseteq InFlight \union {NoLine}
    /\ EventsOn(outbox') = EventsOn(outbox)
    /\ InOrder(outbox) => InOrder(outbox')
    /\ \A c \in ItemsOf(calls') : c \in ItemsOf(calls) \/ c.kind = "query"
    /\ Seen \subseteq Seen'

LEMMA QuietStep ==
    ASSUME TypeOK, CoreInv, BusInv', Later, boot' \in Int, seq' \in Int, Quietly
    PROVE  CoreInv' /\ Missing' \subseteq Missing
PROOF
<1> USE DEF client_vars
<1>1. /\ last_seq' = last_seq /\ counted_by' = counted_by /\ welcome' = welcome
      /\ queued' = queued /\ status' = status /\ subscribed' = subscribed
      /\ facts' = facts /\ (dead => dead') /\ (boot' = boot \/ dead')
      /\ InFlight' \subseteq InFlight \union {NoLine}
      /\ EventsOn(outbox') = EventsOn(outbox)
      /\ (InOrder(outbox) => InOrder(outbox'))
  BY DEF Quietly
<1>2. Stream' = Stream
  BY <1>1 DEF Stream
<1>3. \A f : Reachable(f)' => Reachable(f)
  BY <1>1, <1>2 DEF Reachable
<1>4. \A l \in InFlight' : l.kind # "none" => l \in InFlight
  BY <1>1 DEF NoLine
<1>5. NumberInv'
  <2>1. Counted(welcome.boot, welcome.seq)' /\ Counted(counted_by, last_seq)'
        /\ counted_by' <= welcome.boot'
    BY <1>1, Numbers, StillCounted DEF CoreInv, NumberInv, Counted
  <2>2. ASSUME NEW l \in InFlight', l.kind = "welcome"
        PROVE  /\ l.welcome.boot <= boot' /\ (l.welcome.boot = boot' => l.welcome.seq <= seq')
               /\ ~dead' => l.welcome.boot = boot'
               /\ status' \in {"connecting", "greeting"} => counted_by' <= l.welcome.boot
    <3>1. l \in InFlight
      BY <1>4, <2>2
    <3>2. l.welcome.boot \in Int /\ l.welcome.seq \in Int
      BY <2>2, <3>1, Numbers
    <3>3. /\ Counted(l.welcome.boot, l.welcome.seq)
          /\ ~dead => l.welcome.boot = boot
          /\ status \in {"connecting", "greeting"} => counted_by <= l.welcome.boot
      BY <2>2, <3>1 DEF CoreInv, NumberInv
    <3>4. l.welcome.boot <= boot' /\ (l.welcome.boot = boot' => l.welcome.seq <= seq')
      BY <3>2, <3>3, StillCounted
    <3> QED
      BY <1>1, <3>3, <3>4
  <2>3. ASSUME NEW e \in Stream'
        PROVE  e.boot = welcome.boot' /\ e.boot <= boot' /\ (e.boot = boot' => e.seq <= seq')
    <3>1. e \in Stream /\ e.boot \in Int /\ e.seq \in Int
      BY <1>2, <2>3, Numbers
    <3>2. e.boot = welcome.boot /\ Counted(e.boot, e.seq)
      BY <3>1 DEF CoreInv, NumberInv
    <3> QED
      BY <1>1, <3>1, <3>2, StillCounted
  <2> QED
    BY <2>1, <2>2, <2>3 DEF NumberInv, Counted
<1>6. StreamInv'
  BY <1>1 DEF CoreInv, StreamInv
<1>7. LinkInv'
  <2>1. \A c \in ItemsOf(calls') : c \in ItemsOf(calls) \/ c.kind = "query"
    BY DEF Quietly
  <2>2. reply'.kind # "event"
    BY DEF Quietly
  <2>3. Streaming' = Streaming
    BY <1>1 DEF Streaming
  <2>4. /\ \A l \in InFlight' : l.kind = "subscribed" => l \in InFlight
        /\ \A l \in InFlight' : l.kind \in {"replay", "resync"} => l \in InFlight
    BY <1>4
  <2>5. LinkInv
    BY DEF CoreInv
  <2>6. /\ status' = "offline" => dead'
        /\ (Streaming /\ ~dead => welcome.boot = boot)'
        /\ (status \in {"asking", "live"} => last_seq # NoSeq)'
        /\ (status = "live" => counted_by = welcome.boot /\ queued = <<>>)'
    BY <1>1, <2>3, <2>5 DEF LinkInv
  <2>7. (~Streaming =>
          /\ EventsOn(outbox) = {} /\ queued = <<>>
          /\ \A c \in ItemsOf(calls) : c.kind # "subscribe"
          /\ dead \/ ~subscribed
          /\ \A l \in InFlight : l.kind # "subscribed")'
    BY <1>1, <2>1, <2>3, <2>4, <2>5 DEF LinkInv
  <2>8. (~dead /\ (status \in {"asking", "live"} \/ \E l \in InFlight : l.kind = "subscribed")
          => subscribed)'
    BY <1>1, <2>4, <2>5 DEF LinkInv
  <2>9. (status \notin {"asking", "live"} =>
          /\ \A c \in ItemsOf(calls) : c.kind # "since"
          /\ \A l \in InFlight : l.kind \notin {"replay", "resync"})'
    BY <1>1, <2>1, <2>4, <2>5 DEF LinkInv
  <2>10. (status = "asking" =>
          /\ last_seq <= welcome.seq
          /\ \A c \in ItemsOf(calls) : c.kind = "since" => c.seq = last_seq)'
    BY <1>1, <2>1, <2>5 DEF LinkInv
  <2> QED
    BY <2>2, <2>6, <2>7, <2>8, <2>9, <2>10 DEF LinkInv
<1>8. ReplayInv'
  <2>1. ASSUME status' = "asking", NEW l \in InFlight', l.kind = "replay"
        PROVE  /\ l.boot = welcome.boot' /\ Ascending(l.events)
               /\ \A e \in ItemsOf(l.events) :
                     /\ e.boot = welcome.boot'
                     /\ e.boot <= boot' /\ (e.boot = boot' => e.seq <= seq')
               /\ Covers(l.events)'
    <3>1. l \in InFlight /\ status = "asking"
      BY <1>1, <1>4, <2>1
    <3>2. /\ l.boot = welcome.boot /\ Ascending(l.events)
          /\ \A e \in ItemsOf(l.events) : e.boot = welcome.boot /\ Counted(e.boot, e.seq)
          /\ Covers(l.events)
      BY <2>1, <3>1 DEF CoreInv, ReplayInv
    <3>3. \A e \in ItemsOf(l.events) : e.boot \in Int /\ e.seq \in Int
      BY <2>1, <3>1, Numbers
    <3>4. \A e \in ItemsOf(l.events) : e.boot <= boot' /\ (e.boot = boot' => e.seq <= seq')
      BY <3>2, <3>3, StillCounted
    <3>5. Covers(l.events)'
      BY <1>1, <1>2, <1>3, <3>2 DEF Covers
    <3> QED
      BY <1>1, <3>2, <3>4, <3>5
  <2> QED
    BY <2>1 DEF ReplayInv, Counted
<1>9. Missing' \subseteq Missing
  <2>1. Seen \subseteq Seen'
    BY DEF Quietly
  <2>2. \A f : Expected(f)' => Expected(f)
    BY <1>1, <1>3 DEF Expected, Passed
  <2>3. \A f : Coming(f) => Coming(f)'
    BY <1>1 DEF Coming
  <2> QED
    BY <1>1, <2>1, <2>2, <2>3 DEF Missing
<1> QED
  BY <1>5, <1>6, <1>7, <1>8 , <1>9 DEF CoreInv

(* Reading a line that is no event takes only that line away.              *)
LEMMA ReadsTakes ==
    ASSUME TypeOK, NEW k, Reads(k)
    PROVE  /\ InFlight = InFlight' \union {Head(outbox)}
           /\ Head(outbox) \in InFlight /\ Head(outbox).kind = k
           /\ outbox # <<>> /\ outbox' = Tail(outbox)
           /\ InOrder(outbox) => InOrder(outbox')
           /\ k # "event" => EventsOn(outbox') = EventsOn(outbox)
           /\ k = "event" =>
                 /\ Head(outbox).event \in Events
                 /\ EventsOn(outbox) = EventsOn(outbox') \union {Head(outbox).event}
                 /\ InOrder(outbox) => \A e \in EventsOn(outbox') : Head(outbox).event.seq < e.seq
           /\ UNCHANGED <<bus_vars, greeted, subscribed, dead, reply>>
           /\ status # "offline"
PROOF
<1>1. /\ outbox # <<>> /\ Head(outbox) \in Lines /\ Head(outbox).kind = k
      /\ outbox' = Tail(outbox)
      /\ UNCHANGED <<bus_vars, greeted, subscribed, dead, reply>>
      /\ status # "offline"
  BY ReadsIs
<1>2. outbox \in Seq(Lines)
  BY DEF TypeOK
<1>3. ItemsOf(outbox) = ItemsOf(outbox') \union {Head(outbox)}
  BY <1>1, <1>2, TailItems
<1>4. InFlight = InFlight' \union {Head(outbox)} /\ Head(outbox) \in InFlight
  BY <1>1, <1>3 DEF InFlight
<1>5. /\ EventsOn(outbox) = EventsOn(outbox')
                           \union (IF k = "event" THEN {Head(outbox).event} ELSE {})
      /\ InOrder(outbox) => InOrder(outbox')
      /\ InOrder(outbox) /\ k = "event"
            => \A e \in EventsOn(outbox') : Head(outbox).event.seq < e.seq
  BY <1>1, <1>2, EventsTail
<1>6. k = "event" => Head(outbox).event \in Events
  BY <1>1, LineFields
<1> QED
  BY <1>1, <1>4, <1>5, <1>6

LEMMA AnswerIsQuiet ==
    ASSUME TypeOK, CoreInv, Answer
    PROVE  Quietly
PROOF
<1>1. reply \in Lines /\ reply.kind # "event" /\ outbox \in Seq(Lines)
  BY DEF Answer, TypeOK, CoreInv, LinkInv
<1>2. Sent(reply)
  BY <1>1, SendIs DEF Answer
<1>3. /\ ItemsOf(outbox') \subseteq ItemsOf(outbox) \union {reply}
      /\ EventsOn(outbox') = EventsOn(outbox)
      /\ InOrder(outbox) => InOrder(outbox')
  <2>1. CASE outbox' = outbox
    BY <2>1
  <2>2. CASE outbox' = Append(outbox, reply)
    <3>1. ItemsOf(Append(outbox, reply)) = ItemsOf(outbox) \union {reply}
      BY <1>1, AppendItems
    <3>2. EventsOn(Append(outbox, reply)) = EventsOn(outbox)
          /\ (InOrder(outbox) => InOrder(Append(outbox, reply)))
      BY <1>1, EventsAppend
    <3> QED
      BY <2>2, <3>1, <3>2
  <2> QED
    BY <1>2, <2>1, <2>2 DEF Sent
<1>4. reply' = NoLine /\ UNCHANGED <<bus_vars, subscribed, calls, client_vars, view_vars>>
  BY DEF Answer
<1>5. InFlight' \subseteq InFlight \union {NoLine}
  BY <1>3, <1>4 DEF InFlight
<1>6. dead => dead'
  BY <1>2 DEF Sent
<1> QED
  BY <1>3, <1>4, <1>5, <1>6 DEF Quietly, NoLine, Seen, bus_vars, client_vars, view_vars

LEMMA HeardIsQuiet ==
    ASSUME TypeOK, CoreInv, NEW k, Reads(k), k # "event",
           UNCHANGED <<calls, client_vars, view, lost>>
    PROVE  Quietly
PROOF
<1>1. reply.kind # "event"
  BY DEF CoreInv, LinkInv
<1>2. InFlight' \subseteq InFlight
  BY ReadsTakes
<1>3. /\ EventsOn(outbox') = EventsOn(outbox)
      /\ InOrder(outbox) => InOrder(outbox')
      /\ UNCHANGED <<bus_vars, greeted, subscribed, dead, reply>>
  BY ReadsTakes
<1> QED
  BY <1>1, <1>2, <1>3 DEF Quietly, Seen, bus_vars, client_vars

LEMMA QuietActions ==
    ASSUME TypeOK, CoreInv,
           \/ Answer \/ Restart \/ RetryReload \/ HearLateReply
           \/ \E l \in Loads : HearAnswer(l)
           \/ \E l \in Loads : FinishReload(l)
           \/ UNCHANGED vars
    PROVE  Quietly
PROOF
<1> USE DEF bus_vars, link_vars, client_vars, view_vars
<1>1. reply.kind # "event"
  BY DEF CoreInv, LinkInv
<1>2. CASE Answer
  BY <1>2, AnswerIsQuiet
<1>3. CASE Restart
  <2>1. dead' /\ reply' = NoLine /\ ItemsOf(calls') = {}
        /\ UNCHANGED <<facts, subscribed, outbox, client_vars, view_vars>>
    BY <1>3 DEF Restart, ItemsOf
  <2>2. InFlight' \subseteq InFlight \union {NoLine} /\ reply'.kind # "event"
    BY <2>1 DEF InFlight, NoLine
  <2> QED
    BY <2>1, <2>2 DEF Quietly, Seen
<1>4. CASE RetryReload
  <2>1. [kind |-> "query", load |-> "again"] \in Calls /\ calls \in Seq(Calls)
    BY DEF TypeOK, Calls, Loads
  <2>2. ItemsOf(calls') = ItemsOf(calls) \union {[kind |-> "query", load |-> "again"]}
    BY <1>4, <2>1, AppendItems DEF RetryReload, Ask
  <2> QED
    BY <1>1, <1>4, <2>2 DEF RetryReload, Quietly, InFlight, Seen
<1>5. CASE HearLateReply
  <2>1. PICK k \in {"replay", "resync"} : Reads(k)
    BY <1>5 DEF HearLateReply
  <2> QED
    BY <1>5, <2>1, HeardIsQuiet DEF HearLateReply
<1>6. CASE \E l \in Loads : HearAnswer(l)
  <2>1. PICK k \in {"answer", "failed"} : Reads(k)
    BY <1>6 DEF HearAnswer
  <2> QED
    BY <1>6, <2>1, HeardIsQuiet DEF HearAnswer
<1>7. CASE \E l \in Loads : FinishReload(l)
  <2>1. Seen \subseteq Seen'
    BY <1>7 DEF FinishReload, Seen
  <2> QED
    BY <1>1, <1>7, <2>1 DEF FinishReload, Quietly, InFlight
<1>8. CASE UNCHANGED vars
  BY <1>1, <1>8 DEF vars, Quietly, InFlight, Seen
<1> QED
  BY <1>2, <1>3, <1>4, <1>5, <1>6, <1>7, <1>8

-----------------------------------------------------------------------------
(* A publication: it reaches a subscriber or the subscriber is cut off.    *)
LEMMA PublishReaches ==
    ASSUME TypeOK, CoreInv, NEW e \in Events, e.boot = boot, e.seq = seq + 1, FanOut(e)
    PROVE  /\ EventsOn(outbox) \subseteq EventsOn(outbox')
           /\ EventsOn(outbox') \subseteq EventsOn(outbox) \union {e}
           /\ EventsOn(outbox') # EventsOn(outbox) =>
                 Streaming /\ subscribed /\ ~dead /\ welcome.boot = boot
           /\ subscribed /\ ~dead' => e \in EventsOn(outbox')
           /\ ItemsOf(outbox') \subseteq ItemsOf(outbox) \union {[kind |-> "event", event |-> e]}
           /\ InOrder(outbox')
           /\ \A q \in ItemsOf(queued), f \in EventsOn(outbox') : q.seq < f.seq
           /\ dead => dead'
PROOF
<1> DEFINE x == [kind |-> "event", event |-> e]
<1>1. x \in Lines /\ x.kind = "event" /\ x.event = e /\ outbox \in Seq(Lines)
  BY DEF Lines, TypeOK
<1>2. IF subscribed /\ ~dead THEN Sent(x) ELSE outbox' = outbox /\ dead' = dead
  BY FanOutIs
<1> HIDE DEF x
<1>3. StreamInv /\ LinkInv /\ NumberInv
  BY DEF CoreInv
<1>4. CASE outbox' = outbox
  <2>1. (dead => dead') /\ (subscribed => dead')
    <3>1. Append(outbox, x) # outbox
      <4>1. Len(Append(outbox, x)) = Len(outbox) + 1 /\ Len(outbox) \in Nat
        BY <1>1, AppendItems
      <4> QED
        BY <4>1
    <3> QED
      BY <1>2, <1>4, <3>1 DEF Sent
  <2> QED
    BY <1>3, <1>4, <2>1 DEF StreamInv
<1>5. CASE outbox' # outbox
  <2>1. outbox' = Append(outbox, x) /\ dead' = dead /\ subscribed /\ ~dead
    BY <1>2, <1>5 DEF Sent
  <2>2. Streaming /\ welcome.boot = boot
    BY <1>3, <2>1 DEF LinkInv
  <2>3. \A f \in Stream : f.seq < e.seq
    <3>1. ASSUME NEW f \in Stream PROVE f.seq < e.seq
      <4>1. f.seq \in Nat /\ seq \in Nat
        BY Numbers
      <4>2. f.boot = boot /\ f.seq <= seq
        BY <1>3, <2>2 DEF NumberInv, Counted
      <4> QED
        BY <4>1, <4>2
    <3> QED
      BY <3>1
  <2>4. EventsOn(outbox') = EventsOn(outbox) \union {e} /\ InOrder(outbox')
    <3>1. /\ EventsOn(Append(outbox, x)) = EventsOn(outbox) \union {e}
          /\ InOrder(outbox) /\ (\A f \in EventsOn(outbox) : f.seq < e.seq)
                => InOrder(Append(outbox, x))
      BY <1>1, EventsAppend
    <3> QED
      BY <1>3, <2>1, <2>3, <3>1 DEF StreamInv, Stream
  <2>5. ItemsOf(outbox') = ItemsOf(outbox) \union {x}
    BY <1>1, <2>1, AppendItems
  <2>6. \A q \in ItemsOf(queued), f \in EventsOn(outbox') : q.seq < f.seq
    BY <1>3, <2>3, <2>4 DEF StreamInv, Stream
  <2> QED
    BY <2>1, <2>2, <2>4, <2>5, <2>6 DEF x
<1> QED
  BY <1>4, <1>5

LEMMA PublishStep ==
    ASSUME TypeOK, CoreInv, BusInv', Later, boot' \in Int, seq' \in Int,
           Publish \/ PublishEphemeral
    PROVE  CoreInv' /\ (last_seq # NoSeq => Missing' \subseteq Missing)
PROOF
<1> USE DEF client_vars, view_vars
<1>1. PICK e \in Events :
        /\ e.boot = boot /\ e.seq = seq + 1 /\ FanOut(e)
        /\ facts' \subseteq facts \union {e} /\ facts \subseteq facts'
        /\ seq < MaxSeq /\ seq' = seq + 1 /\ boot' = boot
        /\ UNCHANGED <<greeted, subscribed, calls, reply, client_vars, view_vars, failures>>
  <2>1. CASE Publish
    <3> DEFINE e == [boot |-> boot, seq |-> seq + 1, lasting |-> TRUE]
    <3>1. e \in Events
      BY <2>1, NumberedNext DEF Publish
    <3> QED
      BY <2>1, <3>1 DEF Publish
  <2>2. CASE PublishEphemeral
    <3> DEFINE e == [boot |-> boot, seq |-> seq + 1, lasting |-> FALSE]
    <3>1. e \in Events
      BY <2>2, NumberedNext DEF PublishEphemeral
    <3> QED
      BY <2>2, <3>1 DEF PublishEphemeral
  <2> QED
    BY <2>1, <2>2
<1> DEFINE x == [kind |-> "event", event |-> e]
<1>2. /\ EventsOn(outbox) \subseteq EventsOn(outbox')
      /\ EventsOn(outbox') \subseteq EventsOn(outbox) \union {e}
      /\ EventsOn(outbox') # EventsOn(outbox) =>
            Streaming /\ subscribed /\ ~dead /\ welcome.boot = boot
      /\ subscribed /\ ~dead' => e \in EventsOn(outbox')
      /\ ItemsOf(outbox') \subseteq ItemsOf(outbox) \union {x}
      /\ InOrder(outbox')
      /\ \A q \in ItemsOf(queued), f \in EventsOn(outbox') : q.seq < f.seq
      /\ dead => dead'
  BY <1>1, PublishReaches
<1>3. x.kind = "event"
  OBVIOUS
<1> HIDE DEF x
<1>4. /\ last_seq' = last_seq /\ counted_by' = counted_by /\ welcome' = welcome
      /\ queued' = queued /\ status' = status /\ subscribed' = subscribed
      /\ calls' = calls /\ reply' = reply /\ Seen' = Seen
  BY <1>1 DEF Seen
<1>5. \A l \in InFlight' : l.kind # "event" => l \in InFlight
  BY <1>2, <1>3, <1>4 DEF InFlight
<1>6. /\ Stream \subseteq Stream' /\ Stream' \subseteq Stream \union {e}
      /\ Stream' # Stream => Streaming /\ subscribed /\ ~dead /\ welcome.boot = boot
  BY <1>2, <1>4 DEF Stream
<1>7. \A f \in facts : Reachable(f)' => Reachable(f)
  BY <1>2, <1>6 DEF Reachable
<1>8. NumberInv /\ LinkInv /\ StreamInv /\ ReplayInv /\ BusInv
  BY DEF CoreInv
(* Nobody has heard of the new number before.                              *)
<1>9. /\ e.seq \in Int /\ e.boot \in Int /\ boot \in Int /\ seq \in Int
      /\ \A f \in Stream : f.seq \in Int /\ f.boot \in Int
      /\ \A f \in facts : f.seq \in Int /\ f.boot \in Int
      /\ last_seq \in Int /\ counted_by \in Int
  BY EventFields, Numbers
(* Were it to be reached, it is on its way.                                *)
<1>10. ASSUME welcome.boot = boot, status \in {"asking", "live"}, Reachable(e)'
       PROVE  e \in EventsOn(outbox')
  <2>1. CASE ~dead'
    <3>1. subscribed
      BY <1>2, <1>8, <1>10, <2>1 DEF LinkInv
    <3> QED
      BY <1>2, <2>1, <3>1
  <2>2. CASE dead'
    <3>1. PICK f \in Stream' : f.seq >= e.seq
      BY <1>10, <2>2 DEF Reachable
    <3>2. f \notin Stream
      <4>1. SUFFICES ASSUME f \in Stream PROVE FALSE
        OBVIOUS
      <4>2. f.boot = boot /\ f.seq <= seq
        BY <1>8, <1>10, <4>1 DEF NumberInv, Counted
      <4> QED
        BY <1>1, <1>9, <3>1, <4>1, <4>2
    <3>3. f = e
      BY <1>6, <3>1, <3>2
    <3> QED
      BY <1>4, <3>1, <3>2, <3>3 DEF Stream
  <2> QED
    BY <2>1, <2>2
<1>11. NumberInv'
  <2>1. Counted(welcome.boot, welcome.seq)' /\ Counted(counted_by, last_seq)'
        /\ counted_by' <= welcome.boot'
    BY <1>4, <1>8, Numbers, StillCounted DEF NumberInv, Counted
  <2>2. ASSUME NEW l \in InFlight', l.kind = "welcome"
        PROVE  /\ l.welcome.boot <= boot' /\ (l.welcome.boot = boot' => l.welcome.seq <= seq')
               /\ ~dead' => l.welcome.boot = boot'
               /\ status' \in {"connecting", "greeting"} => counted_by' <= l.welcome.boot
    <3>1. l \in InFlight
      BY <1>5, <2>2
    <3>2. l.welcome.boot \in Int /\ l.welcome.seq \in Int
      BY <2>2, <3>1, Numbers
    <3>3. /\ Counted(l.welcome.boot, l.welcome.seq)
          /\ ~dead => l.welcome.boot = boot
          /\ status \in {"connecting", "greeting"} => counted_by <= l.welcome.boot
      BY <1>8, <2>2, <3>1 DEF NumberInv
    <3>4. l.welcome.boot <= boot' /\ (l.welcome.boot = boot' => l.welcome.seq <= seq')
      BY <3>2, <3>3, StillCounted
    <3> QED
      BY <1>1, <1>2, <1>4, <3>3, <3>4
  <2>3. ASSUME NEW f \in Stream'
        PROVE  f.boot = welcome.boot' /\ f.boot <= boot' /\ (f.boot = boot' => f.seq <= seq')
    <3>1. CASE f \in Stream
      <4>1. f.boot = welcome.boot /\ Counted(f.boot, f.seq)
        BY <1>8, <3>1 DEF NumberInv
      <4> QED
        BY <1>4, <1>9, <3>1, <4>1, StillCounted
    <3>2. CASE f \notin Stream
      <4>1. f = e /\ welcome.boot = boot
        BY <1>6, <2>3, <3>2
      <4> QED
        BY <1>1, <1>4, <1>9, <4>1
    <3> QED
      BY <3>1, <3>2
  <2> QED
    BY <2>1, <2>2, <2>3 DEF NumberInv, Counted
<1>12. StreamInv'
  BY <1>2, <1>4, <1>8 DEF StreamInv
<1>13. LinkInv'
  <2>1. \A l \in InFlight' : l.kind \in {"subscribed", "replay", "resync"} => l \in InFlight
    BY <1>5
  <2>2. Streaming' = Streaming
    BY <1>4 DEF Streaming
  <2>3. ~Streaming => EventsOn(outbox') = EventsOn(outbox)
    BY <1>2
  <2>4. (~Streaming =>
          /\ EventsOn(outbox) = {} /\ queued = <<>>
          /\ \A c \in ItemsOf(calls) : c.kind # "subscribe"
          /\ dead \/ ~subscribed
          /\ \A l \in InFlight : l.kind # "subscribed")'
    BY <1>2, <1>4, <1>8, <2>1, <2>2, <2>3 DEF LinkInv
  <2>5. (~dead /\ (status \in {"asking", "live"} \/ \E l \in InFlight : l.kind = "subscribed")
          => subscribed)'
    BY <1>2, <1>4, <1>8, <2>1 DEF LinkInv
  <2>6. (status \notin {"asking", "live"} =>
          /\ \A c \in ItemsOf(calls) : c.kind # "since"
          /\ \A l \in InFlight : l.kind \notin {"replay", "resync"})'
    BY <1>4, <1>8, <2>1 DEF LinkInv
  <2>7. (Streaming /\ ~dead => welcome.boot = boot)'
    BY <1>1, <1>2, <1>4, <1>8, <2>2 DEF LinkInv
  <2> QED
    BY <1>2, <1>4, <1>8, <2>4, <2>5, <2>6, <2>7 DEF LinkInv
<1>14. ReplayInv'
  <2>1. ASSUME status' = "asking", NEW l \in InFlight', l.kind = "replay"
        PROVE  /\ l.boot = welcome.boot' /\ Ascending(l.events)
               /\ \A f \in ItemsOf(l.events) :
                     /\ f.boot = welcome.boot'
                     /\ f.boot <= boot' /\ (f.boot = boot' => f.seq <= seq')
               /\ Covers(l.events)'
    <3>1. l \in InFlight /\ status = "asking"
      BY <1>4, <1>5, <2>1
    <3>2. /\ l.boot = welcome.boot /\ Ascending(l.events)
          /\ \A f \in ItemsOf(l.events) : f.boot = welcome.boot /\ Counted(f.boot, f.seq)
          /\ Covers(l.events)
      BY <1>8, <2>1, <3>1 DEF ReplayInv
    <3>3. \A f \in ItemsOf(l.events) : f.boot \in Int /\ f.seq \in Int
      BY <2>1, <3>1, Numbers
    <3>4. \A f \in ItemsOf(l.events) : f.boot <= boot' /\ (f.boot = boot' => f.seq <= seq')
      BY <3>2, <3>3, StillCounted
    <3>5. ASSUME NEW f \in facts', f.boot = welcome.boot', f.seq > last_seq',
                 f \notin ItemsOf(l.events)
          PROVE  /\ \A g \in ItemsOf(l.events) : g.seq < f.seq
                 /\ Reachable(f)' => f \in Stream'
      <4>1. CASE f \in facts
        BY <1>4, <1>6, <1>7, <3>2, <3>5, <4>1 DEF Covers
      <4>2. CASE f \notin facts
        <5>1. f = e /\ welcome.boot = boot
          BY <1>1, <1>4, <3>5, <4>2
        <5>2. \A g \in ItemsOf(l.events) : g.seq <= seq
          BY <3>2, <5>1 DEF Counted
        <5>3. Reachable(f)' => f \in Stream'
          BY <1>10, <3>1, <5>1 DEF Stream
        <5> QED
          BY <1>1, <1>9, <3>3, <5>1, <5>2, <5>3
      <4> QED
        BY <4>1, <4>2
    <3>6. Covers(l.events)'
      BY <3>5 DEF Covers
    <3> QED
      BY <1>4, <3>2, <3>4, <3>6
  <2> QED
    BY <2>1 DEF ReplayInv, Counted
<1>15. Missing' \subseteq Missing
  <2>1. SUFFICES ASSUME NEW f \in Missing' PROVE f \in Missing
    OBVIOUS
  <2>2. f \in facts' /\ Expected(f)' /\ f \notin Seen /\ ~Coming(f)'
    BY <1>4, <2>1 DEF Missing
  <2>3. Coming(f) => Coming(f)'
    BY <1>2, <1>4 DEF Coming
  <2>4. f \in facts
    <3>1. SUFFICES ASSUME f \notin facts PROVE FALSE
      OBVIOUS
    <3>2. f = e
      BY <1>1, <2>2, <3>1
    <3>3. ~Passed(e)'
      BY <1>1, <1>4, <1>8, <1>9 DEF Passed, NumberInv, Counted
    <3>4. status = "live" /\ welcome.boot = boot /\ Reachable(e)'
      BY <1>1, <1>4, <2>2, <3>2, <3>3 DEF Expected
    <3>5. e \in EventsOn(outbox')
      BY <1>10, <3>4
    <3>6. e.seq > last_seq'
      BY <1>1, <1>4, <1>8, <1>9, <3>4 DEF LinkInv, NumberInv, Counted
    <3> QED
      BY <2>2, <3>2, <3>5, <3>6 DEF Coming
  <2>5. Expected(f)
    BY <1>4, <1>7, <2>2, <2>4 DEF Expected, Passed
  <2> QED
    BY <2>2, <2>3, <2>4, <2>5 DEF Missing
<1> QED
  BY <1>11, <1>12, <1>13, <1>14, <1>15 DEF CoreInv

-----------------------------------------------------------------------------
(* A request is handled: what the replay ring still holds is all there is  *)
(* beyond the client's position.                                           *)
LEMMA EventsSinceCovers ==
    ASSUME TypeOK, CoreInv, welcome.boot = boot, EventsSince(last_seq).kind = "replay"
    PROVE  LET l == EventsSince(last_seq) IN
           /\ l.boot = welcome.boot /\ Ascending(l.events)
           /\ \A e \in ItemsOf(l.events) : e.boot = welcome.boot /\ Counted(e.boot, e.seq)
           /\ \A f \in facts : f.boot = welcome.boot /\ f.seq > last_seq
                                  => f \in ItemsOf(l.events)
PROOF
<1> DEFINE events == Beyond(ring, last_seq)
<1>1. /\ ~FallenOut(last_seq) /\ EventsSince(last_seq).boot = boot
      /\ EventsSince(last_seq).events = events
  BY DEF EventsSince
<1>2. BusInv /\ ring \in Seq(Facts)
  BY DEF CoreInv, TypeOK
<1>3. /\ ItemsOf(events) = {e \in ItemsOf(ring) : e.seq > last_seq}
      /\ Ascending(events)
  BY <1>2, BeyondKeeps DEF BusInv
<1> HIDE DEF events
<1>4. \A e \in ItemsOf(events) : e.boot = welcome.boot /\ Counted(e.boot, e.seq)
  BY <1>2, <1>3, Numbers DEF BusInv, Counted
<1>5. ASSUME NEW f \in facts, f.boot = welcome.boot, f.seq > last_seq
      PROVE  f \in ItemsOf(events)
  <2>1. ring # <<>> /\ (f.seq >= ring[1].seq => f \in ItemsOf(ring))
    BY <1>2, <1>5 DEF BusInv
  <2>2. ring[1] \in ItemsOf(ring)
    <3>1. Head(ring) = ring[1] /\ Head(ring) \in ItemsOf(ring)
      BY <1>2, <2>1, TailItems
    <3> QED
      BY <3>1
  <2>3. f.seq >= ring[1].seq
    <3>1. ~(last_seq + 1 < ring[1].seq)
      BY <1>1, <2>1 DEF FallenOut
    <3>2. ring[1].seq \in Int /\ last_seq \in Int /\ f.seq \in Int
      BY <2>2, Numbers
    <3> QED
      BY <1>5, <3>1, <3>2
  <2> QED
    BY <1>3, <1>5, <2>1, <2>3
<1> QED
  BY <1>1, <1>3, <1>4, <1>5

LEMMA HandleIs ==
    ASSUME TypeOK, Handle
    PROVE  /\ ~dead /\ calls # <<>> /\ reply = NoLine /\ calls' = Tail(calls)
           /\ Head(calls) \in ItemsOf(calls) /\ Head(calls) \in Calls
           /\ ItemsOf(calls') \subseteq ItemsOf(calls)
           /\ UNCHANGED <<bus_vars, outbox, client_vars, view_vars>>
           /\ \/ /\ reply' = [kind |-> "welcome", welcome |-> [boot |-> boot, seq |-> seq]]
                 /\ UNCHANGED <<subscribed, dead>> /\ Head(calls).kind = "hello"
              \/ /\ reply' = NoLine /\ dead' = TRUE /\ UNCHANGED subscribed
              \/ /\ reply' = [kind |-> "subscribed"] /\ Head(calls).kind = "subscribe"
                 /\ subscribed' = TRUE /\ UNCHANGED dead
              \/ /\ reply' = EventsSince(Head(calls).seq) /\ Head(calls).kind = "since"
                 /\ UNCHANGED <<subscribed, dead>>
              \/ /\ reply' = [kind |-> "answer", load |-> Head(calls).load, snapshot |-> facts]
                 /\ UNCHANGED <<subscribed, dead>> /\ Head(calls).kind = "query"
              \/ /\ reply' = [kind |-> "failed", load |-> Head(calls).load]
                 /\ UNCHANGED <<subscribed, dead>> /\ Head(calls).kind = "query"
PROOF
<1>1. ~dead /\ calls # <<>> /\ reply = NoLine /\ calls' = Tail(calls)
      /\ UNCHANGED <<bus_vars, outbox, client_vars, view_vars>>
  BY DEF Handle
<1>2. calls \in Seq(Calls)
  BY DEF TypeOK
<1>3. ItemsOf(calls) = ItemsOf(Tail(calls)) \union {Head(calls)} /\ Head(calls) \in Calls
  BY <1>1, <1>2, TailItems
<1> QED
  BY <1>1, <1>3 DEF Handle

LEMMA HandleStep ==
    ASSUME TypeOK, CoreInv, BusInv', Handle
    PROVE  CoreInv' /\ Missing' \subseteq Missing
PROOF
<1> USE DEF bus_vars, client_vars, view_vars
<1>1. /\ UNCHANGED <<bus_vars, outbox, client_vars, view_vars>>
      /\ ~dead /\ ItemsOf(calls') \subseteq ItemsOf(calls)
  BY HandleIs
<1>2. NumberInv /\ LinkInv /\ StreamInv /\ ReplayInv /\ BusInv
  BY DEF CoreInv
<1>3. \A l \in InFlight' : l \in InFlight \/ l = reply'
  BY <1>1 DEF InFlight
<1>4. Stream' = Stream /\ Seen' = Seen /\ Streaming' = Streaming
  BY <1>1 DEF Stream, Seen, Streaming
<1>5. \A f : Reachable(f)' => Reachable(f)
  BY <1>1, <1>4 DEF Reachable
<1>6. /\ reply'.kind # "event"
      /\ reply'.kind = "welcome" => reply'.welcome = [boot |-> boot, seq |-> seq] /\ dead' = dead
      /\ reply'.kind = "subscribed" =>
            subscribed' = TRUE /\ \E c \in ItemsOf(calls) : c.kind = "subscribe"
      /\ reply'.kind \in {"replay", "resync"} =>
            \E c \in ItemsOf(calls) : c.kind = "since" /\ reply' = EventsSince(c.seq)
      /\ subscribed' = subscribed \/ reply'.kind = "subscribed"
  <2>1. \A n : EventsSince(n).kind \in {"replay", "resync"}
    BY DEF EventsSince
  <2> DEFINE c == Head(calls)
  <2>2. c \in ItemsOf(calls)
    BY HandleIs
  <2>3. \/ /\ reply' = [kind |-> "welcome", welcome |-> [boot |-> boot, seq |-> seq]]
           /\ UNCHANGED <<subscribed, dead>>
        \/ reply' = NoLine /\ UNCHANGED subscribed
        \/ /\ reply' = [kind |-> "subscribed"] /\ c.kind = "subscribe"
           /\ subscribed' = TRUE
        \/ /\ reply' = EventsSince(c.seq) /\ c.kind = "since"
           /\ UNCHANGED subscribed
        \/ reply' = [kind |-> "answer", load |-> c.load, snapshot |-> facts] /\ UNCHANGED subscribed
        \/ reply' = [kind |-> "failed", load |-> c.load] /\ UNCHANGED subscribed
    BY HandleIs
  <2> HIDE DEF c
  <2>4. CASE reply' = EventsSince(c.seq) /\ c.kind = "since" /\ UNCHANGED subscribed
    <3>1. reply'.kind \in {"replay", "resync"}
      BY <2>1, <2>4
    <3> QED
      BY <2>2, <2>4, <3>1
  <2>5. CASE reply' = [kind |-> "subscribed"] /\ c.kind = "subscribe" /\ subscribed' = TRUE
    BY <2>2, <2>5
  <2>6. CASE \/ /\ reply' = [kind |-> "welcome", welcome |-> [boot |-> boot, seq |-> seq]]
                /\ UNCHANGED <<subscribed, dead>>
             \/ reply' = NoLine /\ UNCHANGED subscribed
             \/ /\ reply' = [kind |-> "answer", load |-> c.load, snapshot |-> facts]
                /\ UNCHANGED subscribed
             \/ reply' = [kind |-> "failed", load |-> c.load] /\ UNCHANGED subscribed
    BY <2>6 DEF NoLine
  <2> QED
    BY <2>3, <2>4, <2>5, <2>6
<1>7. NumberInv'
  <2>1. ASSUME NEW l \in InFlight', l.kind = "welcome"
        PROVE  /\ Counted(l.welcome.boot, l.welcome.seq)
               /\ ~dead' => l.welcome.boot = boot
               /\ status \in {"connecting", "greeting"} => counted_by <= l.welcome.boot
    <3>1. CASE l \in InFlight
      BY <1>1, <1>2, <2>1, <3>1 DEF NumberInv
    <3>2. CASE l = reply'
      <4>1. l.welcome.boot = boot /\ l.welcome.seq = seq
        BY <1>6, <2>1, <3>2
      <4>2. boot <= boot /\ seq <= seq /\ counted_by <= boot
        BY <1>2, Numbers DEF NumberInv, Counted
      <4> QED
        BY <4>1, <4>2 DEF Counted
    <3> QED
      BY <1>3, <3>1, <3>2
  <2> QED
    BY <1>1, <1>2, <1>4, <2>1 DEF NumberInv, Counted
<1>8. StreamInv'
  BY <1>1, <1>2 DEF StreamInv
<1>9. LinkInv'
  <2>1. (~Streaming =>
          /\ EventsOn(outbox) = {} /\ queued = <<>>
          /\ \A c \in ItemsOf(calls) : c.kind # "subscribe"
          /\ dead \/ ~subscribed
          /\ \A l \in InFlight : l.kind # "subscribed")'
    BY <1>1, <1>2, <1>3, <1>4, <1>6 DEF LinkInv
  <2>2. (~dead /\ (status \in {"asking", "live"} \/ \E l \in InFlight : l.kind = "subscribed")
          => subscribed)'
    BY <1>1, <1>2, <1>3, <1>6 DEF LinkInv
  <2>3. (status \notin {"asking", "live"} =>
          /\ \A c \in ItemsOf(calls) : c.kind # "since"
          /\ \A l \in InFlight : l.kind \notin {"replay", "resync"})'
    BY <1>1, <1>2, <1>3, <1>6 DEF LinkInv
  <2>4. (status = "asking" =>
          /\ last_seq <= welcome.seq
          /\ \A c \in ItemsOf(calls) : c.kind = "since" => c.seq = last_seq)'
    BY <1>1, <1>2 DEF LinkInv
  <2> QED
    BY <1>1, <1>2, <1>4, <1>6, <2>1, <2>2, <2>3, <2>4 DEF LinkInv
<1>10. ReplayInv'
  <2>1. ASSUME status' = "asking", NEW l \in InFlight', l.kind = "replay"
        PROVE  /\ l.boot = welcome.boot /\ Ascending(l.events)
               /\ \A e \in ItemsOf(l.events) : e.boot = welcome.boot /\ Counted(e.boot, e.seq)
               /\ Covers(l.events)'
    <3>1. status = "asking" /\ welcome.boot = boot
      BY <1>1, <1>2, <2>1 DEF LinkInv, Streaming
    <3>2. CASE l \in InFlight
      <4>1. /\ l.boot = welcome.boot /\ Ascending(l.events)
            /\ \A e \in ItemsOf(l.events) : e.boot = welcome.boot /\ Counted(e.boot, e.seq)
            /\ Covers(l.events)
        BY <1>2, <2>1, <3>1, <3>2 DEF ReplayInv
      <4>2. Covers(l.events)'
        BY <1>1, <1>4, <1>5, <4>1 DEF Covers
      <4> QED
        BY <4>1, <4>2
    <3>3. CASE l = reply'
      <4>1. l = EventsSince(last_seq)
        BY <1>2, <1>6, <2>1, <3>1, <3>3 DEF LinkInv
      <4>2. /\ l.boot = welcome.boot /\ Ascending(l.events)
            /\ \A e \in ItemsOf(l.events) : e.boot = welcome.boot /\ Counted(e.boot, e.seq)
            /\ \A f \in facts : f.boot = welcome.boot /\ f.seq > last_seq
                                   => f \in ItemsOf(l.events)
        BY <2>1, <3>1, <4>1, EventsSinceCovers
      <4>3. Covers(l.events)'
        BY <1>1, <4>2 DEF Covers
      <4> QED
        BY <4>2, <4>3
    <3> QED
      BY <1>3, <3>2, <3>3
  <2> QED
    BY <1>1, <2>1 DEF ReplayInv, Counted
<1>11. Missing' \subseteq Missing
  <2>1. \A f : Expected(f)' => Expected(f)
    BY <1>1, <1>5 DEF Expected, Passed
  <2>2. \A f : Coming(f) => Coming(f)'
    BY <1>1 DEF Coming
  <2> QED
    BY <1>1, <1>4, <2>1, <2>2 DEF Missing
<1> QED
  BY <1>7, <1>8, <1>9, <1>10, <1>11 DEF CoreInv

-----------------------------------------------------------------------------
(* The steps of connecting, up to the question for what was missed.        *)
LEMMA NoLines ==
    /\ ItemsOf(<<>>) = {} /\ EventsOn(<<>>) = {}
    /\ InOrder(<<>>) /\ Ascending(<<>>)
BY DEF ItemsOf, EventsOn, InOrder, Ascending

LEMMA OneMoreCall ==
    ASSUME TypeOK, NEW c \in Calls
    PROVE  ItemsOf(Append(calls, c)) = ItemsOf(calls) \union {c}
BY AppendItems DEF TypeOK

LEMMA ConnectStep ==
    ASSUME TypeOK, CoreInv, BusInv', Connect
    PROVE  CoreInv' /\ Missing' \subseteq Missing
PROOF
<1> USE DEF bus_vars, client_vars, view_vars
<1>1. /\ status = "offline" /\ status' = "connecting" /\ dead' = FALSE
      /\ subscribed' = FALSE /\ outbox' = <<>> /\ calls' = <<>> /\ reply' = NoLine
      /\ UNCHANGED <<bus_vars, last_seq, welcome, queued, counted_by, view_vars>>
  BY DEF Connect
<1>2. NumberInv /\ LinkInv /\ queued = <<>> /\ EventsOn(outbox) = {}
  BY <1>1 DEF CoreInv, LinkInv, Streaming
<1>3. InFlight' = {NoLine} /\ Stream' = {} /\ Seen' = Seen /\ ItemsOf(calls') = {} /\ ~Streaming'
      /\ EventsOn(outbox') = {}
  BY <1>1, <1>2, NoLines DEF InFlight, Stream, Seen, Streaming
<1>4. NumberInv'
  BY <1>1, <1>2, <1>3 DEF NumberInv, Counted, NoLine
<1>5. StreamInv'
  BY <1>1, <1>2, <1>3, NoLines DEF StreamInv
<1>6. LinkInv'
  BY <1>1, <1>2, <1>3 DEF LinkInv, NoLine
<1>7. ReplayInv'
  BY <1>1 DEF ReplayInv
<1>8. Missing' \subseteq Missing
  BY <1>1, <1>2, <1>3 DEF Missing, Expected, Passed, Coming
<1> QED
  BY <1>4, <1>5, <1>6, <1>7, <1>8 DEF CoreInv

LEMMA HelloStep ==
    ASSUME TypeOK, CoreInv, BusInv', SayHello
    PROVE  CoreInv' /\ Missing' \subseteq Missing
PROOF
<1> USE DEF bus_vars, client_vars, view_vars
<1>1. /\ status = "connecting" /\ status' = "greeting"
      /\ calls' = Append(calls, [kind |-> "hello"])
      /\ UNCHANGED <<bus_vars, greeted, subscribed, dead, outbox, reply,
                     last_seq, welcome, queued, counted_by, view_vars>>
  BY DEF SayHello
<1>2. NumberInv /\ LinkInv /\ StreamInv
  BY DEF CoreInv
<1>3. /\ InFlight' = InFlight /\ Stream' = Stream /\ Seen' = Seen
      /\ ~Streaming /\ ~Streaming'
  BY <1>1 DEF InFlight, Stream, Seen, Streaming
<1>4. ItemsOf(calls') = ItemsOf(calls) \union {[kind |-> "hello"]}
  BY <1>1, OneMoreCall DEF Calls
<1>5. NumberInv'
  BY <1>1, <1>2, <1>3 DEF NumberInv, Counted
<1>6. StreamInv'
  BY <1>1, <1>2 DEF StreamInv
<1>7. LinkInv'
  BY <1>1, <1>2, <1>3, <1>4 DEF LinkInv
<1>8. ReplayInv'
  BY <1>1 DEF ReplayInv
<1>9. Missing' \subseteq Missing
  BY <1>1, <1>3 DEF Missing, Expected, Passed, Coming
<1> QED
  BY <1>5, <1>6, <1>7, <1>8, <1>9 DEF CoreInv

LEMMA WelcomeStep ==
    ASSUME TypeOK, CoreInv, BusInv', HearWelcome
    PROVE  CoreInv' /\ Missing' \subseteq Missing
PROOF
<1> USE DEF bus_vars, client_vars, view_vars
<1> DEFINE x == Head(outbox)
<1>1. /\ status = "greeting" /\ status' = "subscribing" /\ queued' = <<>>
      /\ welcome' = x.welcome /\ calls' = Append(calls, [kind |-> "subscribe"])
      /\ UNCHANGED <<last_seq, counted_by, view_vars>>
      /\ Reads("welcome")
  BY DEF HearWelcome
<1>2. /\ InFlight = InFlight' \union {x} /\ x \in InFlight /\ x.kind = "welcome"
      /\ EventsOn(outbox') = EventsOn(outbox)
      /\ (InOrder(outbox) => InOrder(outbox'))
      /\ UNCHANGED <<bus_vars, subscribed, dead, reply>>
  BY <1>1, ReadsTakes
<1> HIDE DEF x
<1>3. NumberInv /\ LinkInv /\ StreamInv
  BY DEF CoreInv
<1>4. /\ ~Streaming /\ Streaming' /\ EventsOn(outbox') = {} /\ Stream' = {} /\ Seen' = Seen
      /\ EventsOn(outbox) = {}
  BY <1>1, <1>2, <1>3, NoLines DEF Streaming, LinkInv, Stream, Seen
<1>5. ItemsOf(calls') = ItemsOf(calls) \union {[kind |-> "subscribe"]}
  BY <1>1, OneMoreCall DEF Calls
<1>6. /\ Counted(welcome'.boot, welcome'.seq)
      /\ ~dead => welcome'.boot = boot
      /\ counted_by <= welcome'.boot
  BY <1>1, <1>2, <1>3 DEF NumberInv
<1>7. NumberInv'
  BY <1>1, <1>2, <1>3, <1>4, <1>6 DEF NumberInv, Counted
<1>8. StreamInv'
  BY <1>1, <1>2, <1>3, <1>4, NoLines DEF StreamInv
<1>9. LinkInv'
  BY <1>1, <1>2, <1>3, <1>4, <1>5, <1>6 DEF LinkInv
<1>10. ReplayInv'
  BY <1>1 DEF ReplayInv
<1>11. Missing' \subseteq Missing
  BY <1>1, <1>2, <1>4 DEF Missing, Expected, Passed, Coming
<1> QED
  BY <1>7, <1>8, <1>9, <1>10, <1>11 DEF CoreInv

LEMMA AskStep ==
    ASSUME TypeOK, CoreInv, BusInv', HearSubscribed, status' = "asking"
    PROVE  CoreInv' /\ Missing' \subseteq Missing
PROOF
<1> USE DEF bus_vars, client_vars, view_vars
<1> DEFINE x == Head(outbox)
           c == [kind |-> "since", seq |-> last_seq]
<1>1. /\ status = "subscribing" /\ Reads("subscribed")
      /\ last_seq # NoSeq /\ welcome.seq >= last_seq
      /\ calls' = Append(calls, c)
      /\ UNCHANGED <<last_seq, welcome, queued, counted_by, view_vars>>
  BY DEF HearSubscribed, StartOver
<1>2. /\ InFlight = InFlight' \union {x} /\ x \in InFlight /\ x.kind = "subscribed"
      /\ EventsOn(outbox') = EventsOn(outbox)
      /\ (InOrder(outbox) => InOrder(outbox'))
      /\ UNCHANGED <<bus_vars, subscribed, dead, reply>>
  BY <1>1, ReadsTakes
<1> HIDE DEF x
<1>3. NumberInv /\ LinkInv /\ StreamInv
  BY DEF CoreInv
<1>4. Streaming /\ Streaming' /\ Stream' = Stream /\ Seen' = Seen
  BY <1>1, <1>2 DEF Streaming, Stream, Seen
<1>5. ItemsOf(calls') = ItemsOf(calls) \union {c} /\ c.kind = "since" /\ c.seq = last_seq
  <2>1. c \in Calls
    BY <1>1 DEF Calls, TypeOK
  <2> QED
    BY <1>1, <2>1, OneMoreCall
<1> HIDE DEF c
<1>6. \A l \in InFlight' : l \in InFlight /\ l.kind \notin {"replay", "resync"}
  BY <1>1, <1>2, <1>3 DEF LinkInv
<1>7. NumberInv'
  BY <1>1, <1>2, <1>3, <1>4, <1>6 DEF NumberInv, Counted
<1>8. StreamInv'
  BY <1>1, <1>2, <1>3 DEF StreamInv
<1>9. LinkInv'
  <2>1. ~dead => subscribed
    BY <1>2, <1>3 DEF LinkInv
  <2>2. last_seq <= welcome.seq
    BY <1>1, Numbers
  <2>3. \A d \in ItemsOf(calls') : d.kind = "since" => d.seq = last_seq
    BY <1>1, <1>3, <1>5 DEF LinkInv
  <2> QED
    BY <1>1, <1>2, <1>3, <1>4, <2>1, <2>2, <2>3 DEF LinkInv
<1>10. ReplayInv'
  BY <1>6 DEF ReplayInv
<1>11. Missing' \subseteq Missing
  BY <1>1, <1>2, <1>4 DEF Missing, Expected, Passed, Coming
<1> QED
  BY <1>7, <1>8, <1>9, <1>10, <1>11 DEF CoreInv

-----------------------------------------------------------------------------
(* Starting over: the position is the welcome or a live event after it, and *)
(* the reload just asked for has everything.                               *)
LEMMA NoneMeans ==
    ASSUME NEW s, NEW l, None(s, l)
    PROVE  \A x \in ItemsOf(s) : ~For(x, l)
BY DEF None, ItemsOf

LEMMA StartOverStep ==
    ASSUME TypeOK, CoreInv, LoadInv, BusInv', StartOver,
           status \in {"subscribing", "asking"}, ~dead => subscribed,
           UNCHANGED <<bus_vars, subscribed, dead, reply>>,
           InFlight' \subseteq InFlight,
           EventsOn(outbox') = EventsOn(outbox), InOrder(outbox')
    PROVE  CoreInv' /\ HonestInv'
PROOF
<1> USE DEF bus_vars
<1> DEFINE at == Apply(Rebased, StillAhead)
           c == [kind |-> "query", load |-> "resync"]
<1>1. /\ last_seq' = at.seq /\ counted_by' = at.boot
      /\ queued' = <<>> /\ status' = "live" /\ welcome' = welcome
      /\ load' = [load EXCEPT !["resync"] = [stage |-> "asked"]]
      /\ calls' = Append(calls, c)
  BY DEF StartOver, Move, Ask
<1>2. NumberInv /\ LinkInv /\ StreamInv
  BY DEF CoreInv
<1>3. ItemsOf(StillAhead) \subseteq ItemsOf(queued) /\ StillAhead \in Seq(Events)
  BY TypedPlaces, BeyondKeeps DEF StillAhead, TypeOK
<1>4. Rebased \in Positions /\ Rebased.seq = welcome.seq /\ Rebased.boot = welcome.boot
  BY TypedPlaces, ApplyStaysAPlace, <1>3 DEF Rebased
<1>5. /\ at \in Positions /\ at.seq >= welcome.seq
      /\ \/ at.seq = welcome.seq /\ at.boot = welcome.boot
         \/ \E e \in ItemsOf(queued) : at.seq = e.seq /\ at.boot = e.boot
  <2>1. /\ at \in Positions /\ Rebased.seq <= at.seq
        /\ \/ at.seq = Rebased.seq /\ at.boot = Rebased.boot
           \/ \E e \in ItemsOf(StillAhead) : at.seq = e.seq /\ at.boot = e.boot
    BY <1>3, <1>4, ApplyIs
  <2>2. at.seq \in Int /\ welcome.seq \in Int
    BY <2>1, Numbers DEF Positions
  <2> QED
    BY <1>3, <1>4, <2>1, <2>2
<1> HIDE DEF at
<1>6. /\ at.boot = welcome.boot /\ Counted(at.boot, at.seq)
      /\ at.seq # NoSeq
  <2>1. at.boot = welcome.boot /\ Counted(at.boot, at.seq)
    BY <1>2, <1>5 DEF NumberInv, Stream
  <2>2. at.seq # NoSeq
    BY <1>5, Numbers DEF NoSeq, Positions
  <2> QED
    BY <2>1, <2>2
<1>7. /\ Stream' \subseteq Stream /\ ItemsOf(queued') = {} /\ Streaming /\ Streaming'
  BY <1>1, NoLines DEF Stream, Streaming
<1>8. ItemsOf(calls') = ItemsOf(calls) \union {c}
  BY <1>1, OneMoreCall DEF Calls, Loads
<1>9. NumberInv'
  <2>1. welcome.boot <= welcome.boot
    BY Numbers
  <2> QED
    BY <1>1, <1>2, <1>6, <1>7, <2>1 DEF NumberInv, Counted
<1>10. StreamInv'
  BY <1>1, <1>7, NoLines DEF StreamInv
<1>11. LinkInv'
  BY <1>1, <1>2, <1>6, <1>7 DEF LinkInv
<1>12. ReplayInv'
  BY <1>1 DEF ReplayInv
<1>13. HonestInv'
  <2>1. load["resync"] = Idle /\ "resync" \in Loads /\ load \in [Loads -> LoadStates]
    BY DEF LoadInv, TypeOK, Loads
  <2>2. ~For(reply, "resync") /\ None(outbox, "resync")
    BY <2>1 DEF LoadInv, OneToken, Idle
  <2>3. \A x \in InFlight : ~For(x, "resync")
    BY <2>2, NoneMeans DEF InFlight
  <2>4. \A x \in InFlight' : ~(x.kind = "answer" /\ x.load = "resync")
    BY <2>3 DEF For
  <2>5. load'["resync"] = [stage |-> "asked"]
    BY <1>1, <2>1
  <2>6. load'["resync"] # Idle /\ load'["resync"].stage # "held"
    BY <2>5 DEF Idle
  <2>7. Owed("resync")'
    BY <2>4, <2>6 DEF Owed
  <2> QED
    BY <2>1, <2>7 DEF HonestInv
<1> QED
  BY <1>9, <1>10, <1>11, <1>12, <1>13 DEF CoreInv

LEMMA StartOverActions ==
    ASSUME TypeOK, CoreInv, LoadInv, BusInv',
           \/ HearSubscribed /\ status' # "asking"
           \/ HearResync
           \/ SinceTimesOut
    PROVE  CoreInv' /\ HonestInv'
PROOF
<1>1. LinkInv /\ InOrder(outbox)
  BY DEF CoreInv, StreamInv
<1>2. CASE HearSubscribed /\ status' # "asking"
  <2>1. StartOver /\ Reads("subscribed") /\ status = "subscribing"
    BY <1>2 DEF HearSubscribed
  <2>2. /\ InFlight' \subseteq InFlight /\ \E l \in InFlight : l.kind = "subscribed"
        /\ EventsOn(outbox') = EventsOn(outbox) /\ InOrder(outbox')
        /\ UNCHANGED <<bus_vars, subscribed, dead, reply>>
    BY <1>1, <2>1, ReadsTakes
  <2>3. ~dead => subscribed
    BY <1>1, <2>2 DEF LinkInv
  <2> QED
    BY <2>1, <2>2, <2>3, StartOverStep
<1>3. CASE HearResync
  <2>1. StartOver /\ Reads("resync") /\ status = "asking"
    BY <1>3 DEF HearResync
  <2>2. /\ InFlight' \subseteq InFlight
        /\ EventsOn(outbox') = EventsOn(outbox) /\ InOrder(outbox')
        /\ UNCHANGED <<bus_vars, subscribed, dead, reply>>
    BY <1>1, <2>1, ReadsTakes
  <2>3. ~dead => subscribed
    BY <1>1, <2>1 DEF LinkInv
  <2> QED
    BY <2>1, <2>2, <2>3, StartOverStep
<1>4. CASE SinceTimesOut
  <2>1. /\ StartOver /\ status = "asking"
        /\ UNCHANGED <<bus_vars, greeted, subscribed, dead, outbox, reply>>
    BY <1>4 DEF SinceTimesOut
  <2>2. /\ InFlight' \subseteq InFlight
        /\ EventsOn(outbox') = EventsOn(outbox) /\ InOrder(outbox')
    BY <1>1, <2>1 DEF InFlight
  <2>3. ~dead => subscribed
    BY <1>1, <2>1 DEF LinkInv
  <2> QED
    BY <2>1, <2>2, <2>3, StartOverStep
<1> QED
  BY <1>2, <1>3, <1>4

-----------------------------------------------------------------------------
(* A live event is read: held while catching up, applied once live.        *)
LEMMA EventStep ==
    ASSUME TypeOK, CoreInv, BusInv', HearEvent
    PROVE  CoreInv' /\ Missing' \subseteq Missing /\ (last_seq' = NoSeq <=> last_seq = NoSeq)
PROOF
<1> USE DEF bus_vars
<1> DEFINE x == Head(outbox)
           e == x.event
<1>1. Reads("event") /\ UNCHANGED <<calls, status, welcome, load, retry, failures>>
  BY DEF HearEvent
<1>2. InOrder(outbox) /\ NumberInv /\ StreamInv /\ LinkInv /\ ReplayInv
  BY DEF CoreInv, StreamInv
<1>3. /\ InFlight' \subseteq InFlight /\ InOrder(outbox')
      /\ e \in Events /\ EventsOn(outbox) = EventsOn(outbox') \union {e}
      /\ \A f \in EventsOn(outbox') : e.seq < f.seq
      /\ UNCHANGED <<bus_vars, greeted, subscribed, dead, reply>>
  BY <1>1, <1>2, ReadsTakes
<1>4. /\ \/ /\ status \in {"subscribing", "asking"}
            /\ queued' = Append(queued, e)
            /\ UNCHANGED <<last_seq, counted_by, view, lost>>
         \/ /\ status = "live"
            /\ Move(Apply(Here, <<e>>))
            /\ UNCHANGED queued
  BY DEF HearEvent
<1> HIDE DEF x, e
<1>5. e \in Stream /\ e.boot = welcome.boot /\ Counted(e.boot, e.seq)
      /\ e.seq \in Int /\ e.boot \in Int
  BY <1>2, <1>3, EventFields DEF Stream, NumberInv
<1>6. /\ last_seq \in Int /\ counted_by \in Int /\ welcome.boot \in Int
      /\ \A f \in Stream : f.seq \in Int /\ f.boot \in Int
      /\ \A f \in facts : f.seq \in Int /\ f.boot \in Int /\ f.lasting
  BY Numbers
<1>7. Streaming' = Streaming /\ Streaming
  BY <1>1, <1>2, <1>4 DEF Streaming
<1>8. CASE /\ status \in {"subscribing", "asking"} /\ queued' = Append(queued, e)
           /\ UNCHANGED <<last_seq, counted_by, view, lost>>
  <2>1. queued \in Seq(Events) /\ ItemsOf(queued') = ItemsOf(queued) \union {e}
    BY <1>3, <1>8, AppendItems DEF TypeOK
  <2>2. Stream' = Stream /\ Seen' = Seen
    BY <1>3, <1>8, <2>1 DEF Stream, Seen
  <2>3. NumberInv'
    BY <1>1, <1>2, <1>3, <1>8, <2>2 DEF NumberInv, Counted
  <2>4. StreamInv'
    <3>1. e \in EventsOn(outbox)
      BY <1>3
    <3>2. Ascending(queued')
      BY <1>2, <1>3, <1>8, <2>1, <3>1, AscendingAppend DEF StreamInv
    <3> QED
      BY <1>2, <1>3, <2>1, <3>2 DEF StreamInv
  <2>5. LinkInv'
    BY <1>1, <1>2, <1>3, <1>7, <1>8 DEF LinkInv
  <2>6. \A f : Reachable(f)' <=> Reachable(f)
    BY <1>3, <2>2 DEF Reachable
  <2>7. ReplayInv'
    <3>1. \A s : Covers(s)' <=> Covers(s)
      BY <1>1, <1>3, <1>8, <2>2, <2>6 DEF Covers
    <3> QED
      BY <1>1, <1>2, <1>3, <3>1 DEF ReplayInv, Counted
  <2>8. Missing' \subseteq Missing
    <3>1. SUFFICES ASSUME NEW f \in Missing' PROVE f \in Missing
      OBVIOUS
    <3>2. f \in facts /\ Passed(f) /\ f \notin Seen /\ ~Coming(f)'
      BY <1>1, <1>3, <1>8, <2>2 DEF Missing, Expected, Passed
    <3>3. ~Coming(f)
      <4>1. SUFFICES ASSUME Coming(f) PROVE FALSE
        OBVIOUS
      <4>2. f = e /\ f.seq > last_seq
        BY <1>3, <1>8, <3>2, <4>1 DEF Coming
      <4>3. counted_by <= f.boot
        BY <1>2, <1>5, <4>2 DEF NumberInv
      <4> QED
        BY <1>5, <1>6, <3>2, <4>2, <4>3 DEF Passed
    <3> QED
      BY <3>2, <3>3 DEF Missing, Expected
  <2> QED
    BY <1>8, <2>3, <2>4, <2>5, <2>7, <2>8 DEF CoreInv
<1>9. CASE status = "live" /\ Move(Apply(Here, <<e>>)) /\ UNCHANGED queued
  <2> DEFINE at == Apply(Here, <<e>>)
  <2>1. Here \in Positions /\ <<e>> \in Seq(Events) /\ Here.seq = last_seq
        /\ Here.boot = counted_by /\ Here.view = view
    BY <1>3, TypedPlaces, ApplyStaysAPlace, NothingHeld DEF Here
  <2>2. ItemsOf(<<e>>) = {e} /\ Ascending(<<e>>)
    BY DEF ItemsOf, Ascending
  <2>3. /\ at \in Positions /\ last_seq <= at.seq /\ e.seq <= at.seq
        /\ \/ at.seq = last_seq /\ at.boot = counted_by
           \/ at.seq = e.seq /\ at.boot = e.boot
        /\ view \subseteq at.view
        /\ e.seq > last_seq /\ e.lasting => e \in at.view
    BY <2>1, <2>2, ApplyIs
  <2> HIDE DEF at
  <2>4. /\ last_seq' = at.seq /\ counted_by' = at.boot /\ view' = at.view
        /\ lost' = lost \ at.view
    BY <1>9 DEF Move, at
  <2>5. counted_by = welcome.boot /\ queued = <<>> /\ last_seq # NoSeq
    BY <1>2, <1>9 DEF LinkInv
  <2>6. /\ counted_by' = welcome.boot /\ Counted(counted_by', last_seq')
        /\ last_seq' \in Int /\ last_seq' # NoSeq
    <3>1. counted_by' = welcome.boot /\ Counted(counted_by', last_seq')
      BY <1>2, <1>5, <2>3, <2>4, <2>5 DEF NumberInv
    <3>2. last_seq' \in Int /\ last_seq' # NoSeq
      <4>1. last_seq \in Nat
        BY <2>5, StreamAssumption DEF TypeOK
      <4> QED
        BY <2>3, <2>4, <4>1 DEF Positions, NoSeq
    <3> QED
      BY <3>1, <3>2
  <2>7. Stream' \subseteq Stream /\ Seen \subseteq Seen'
    BY <1>3, <1>9, <2>3, <2>4 DEF Stream, Seen
  <2>8. NumberInv'
    <3>1. counted_by' <= welcome.boot
      BY <1>6, <2>6
    <3>2. \A f \in Stream' : f.boot = welcome.boot /\ Counted(f.boot, f.seq)
      BY <1>2, <2>7 DEF NumberInv
    <3>3. \A l \in InFlight' : l.kind = "welcome" =>
            Counted(l.welcome.boot, l.welcome.seq) /\ (~dead => l.welcome.boot = boot)
      BY <1>2, <1>3 DEF NumberInv
    <3>4. status' = "live" /\ welcome' = welcome /\ boot' = boot /\ seq' = seq /\ dead' = dead
      BY <1>1, <1>3, <1>9
    <3>5. Counted(welcome.boot, welcome.seq)
      BY <1>2 DEF NumberInv
    <3> QED
      BY <2>6, <3>1, <3>2, <3>3, <3>4, <3>5 DEF NumberInv, Counted
  <2>9. StreamInv'
    BY <1>2, <1>3, <1>9 DEF StreamInv
  <2>10. LinkInv'
    BY <1>1, <1>2, <1>3, <1>7, <1>9, <2>6 DEF LinkInv
  <2>11. ReplayInv'
    BY <1>1, <1>9 DEF ReplayInv
  <2>12. \A f : Reachable(f)' => Reachable(f)
    BY <1>3, <2>7 DEF Reachable
  <2>13. Missing' \subseteq Missing
    <3>1. SUFFICES ASSUME NEW f \in Missing' PROVE f \in Missing
      OBVIOUS
    <3>2. f \in facts /\ Expected(f)' /\ f \notin Seen' /\ ~Coming(f)'
      BY <1>3, <3>1 DEF Missing
    <3>3. ~Coming(f)
      <4>1. SUFFICES ASSUME Coming(f) PROVE FALSE
        OBVIOUS
      <4>2. f \in EventsOn(outbox) /\ f.seq > last_seq
        BY <4>1 DEF Coming
      <4>3. CASE f = e
        <5>1. e.lasting /\ e.seq > last_seq
          BY <1>6, <3>2, <4>2, <4>3
        <5>2. e \in view'
          BY <2>3, <2>4, <5>1
        <5> QED
          BY <3>2, <4>3, <5>2 DEF Seen
      <4>4. CASE f # e
        <5>1. f \in EventsOn(outbox') /\ e.seq < f.seq
          BY <1>3, <4>2, <4>4
        <5>2. f.seq > last_seq'
          BY <1>5, <1>6, <2>3, <2>4, <3>2, <4>2, <5>1
        <5> QED
          BY <3>2, <5>1, <5>2 DEF Coming
      <4> QED
        BY <4>3, <4>4
    <3>4. Expected(f)
      <4>1. CASE status' = "live" /\ f.boot = welcome.boot' /\ Reachable(f)'
        BY <1>1, <2>12, <4>1 DEF Expected
      <4>2. CASE Passed(f)'
        <5>1. f.boot < counted_by \/ (f.boot = counted_by /\ f.seq <= last_seq')
          BY <2>5, <2>6, <4>2 DEF Passed
        <5>2. CASE f.boot = counted_by /\ f.seq <= last_seq' /\ f.seq > last_seq
          <6>1. last_seq' = e.seq
            BY <1>5, <1>6, <2>3, <2>4, <3>2, <5>2
          <6>2. Reachable(f)
            BY <1>5, <1>6, <3>2, <5>2, <6>1 DEF Reachable
          <6> QED
            BY <1>9, <2>5, <5>2, <6>2 DEF Expected
        <5> QED
          <6>1. f.seq > last_seq \/ f.seq <= last_seq
            BY <1>6, <3>2
          <6>2. CASE f.boot < counted_by \/ (f.boot = counted_by /\ f.seq <= last_seq)
            BY <6>2 DEF Expected, Passed
          <6> QED
            BY <5>1, <5>2, <6>1, <6>2
      <4> QED
        BY <3>2, <4>1, <4>2 DEF Expected
    <3> QED
      BY <2>7, <3>2, <3>3, <3>4 DEF Missing
  <2> QED
    BY <2>5, <2>6, <2>8, <2>9, <2>10, <2>11, <2>13 DEF CoreInv
<1> QED
  BY <1>4, <1>8, <1>9

-----------------------------------------------------------------------------
(* The replay is read: with the events held since, it brings the screen up *)
(* to the new position.                                                    *)
LEMMA ReplayStep ==
    ASSUME TypeOK, CoreInv, BusInv', HearReplay
    PROVE  CoreInv' /\ Missing' \subseteq Missing /\ last_seq # NoSeq
PROOF
<1> USE DEF bus_vars
<1> DEFINE x == Head(outbox)
           mid == Apply(Here, x.events)
           at == Apply(mid, queued)
           passed == {f \in facts : f.boot < x.boot \/ f.seq <= at.seq}
<1>1. /\ Reads("replay") /\ status = "asking"
      /\ last_seq' = at.seq /\ counted_by' = x.boot /\ view' = at.view
      /\ lost' = (IF counted_by = x.boot THEN lost ELSE lost \union passed) \ at.view
      /\ queued' = <<>> /\ status' = "live"
      /\ UNCHANGED <<calls, welcome, load, retry, failures>>
  BY DEF HearReplay
<1>2. NumberInv /\ StreamInv /\ LinkInv /\ ReplayInv /\ InOrder(outbox)
  BY DEF CoreInv, StreamInv
<1>3. /\ InFlight' \subseteq InFlight /\ InOrder(outbox') /\ x \in InFlight /\ x.kind = "replay"
      /\ EventsOn(outbox') = EventsOn(outbox)
      /\ UNCHANGED <<bus_vars, greeted, subscribed, dead, reply>>
  BY <1>1, <1>2, ReadsTakes
<1>4. /\ x.events \in Seq(Events) /\ x.boot = welcome.boot /\ Ascending(x.events)
      /\ \A e \in ItemsOf(x.events) : e.boot = welcome.boot /\ Counted(e.boot, e.seq)
              /\ e.seq \in Int
      /\ Covers(x.events)
  BY <1>1, <1>2, <1>3, Numbers DEF ReplayInv
<1>5. /\ Here \in Places /\ Here.seq = last_seq /\ Here.view = view
      /\ queued \in Seq(Events)
  BY TypedPlaces DEF Here, TypeOK
<1>6. mid \in Places /\ Here \in Positions /\ mid \in Positions /\ at \in Positions
  BY <1>4, <1>5, ApplyStaysAPlace
<1>7. /\ last_seq <= mid.seq
      /\ \A e \in ItemsOf(x.events) : e.seq <= mid.seq
      /\ mid.seq = last_seq \/ \E e \in ItemsOf(x.events) : mid.seq = e.seq
      /\ view \subseteq mid.view
      /\ \A e \in ItemsOf(x.events) : e.seq > last_seq /\ e.lasting => e \in mid.view
  BY <1>4, <1>5, <1>6, ApplyIs
<1>8. /\ mid.seq <= at.seq
      /\ \A e \in ItemsOf(queued) : e.seq <= at.seq
      /\ at.seq = mid.seq \/ \E e \in ItemsOf(queued) : at.seq = e.seq
      /\ mid.view \subseteq at.view
      /\ \A e \in ItemsOf(queued) : e.seq > mid.seq /\ e.lasting => e \in at.view
  BY <1>2, <1>5, <1>6, ApplyIs DEF StreamInv
<1>9. /\ mid.seq \in Int /\ at.seq \in Int /\ last_seq \in Int /\ last_seq # NoSeq
      /\ last_seq \in Nat
      /\ welcome.boot \in Int /\ welcome.seq \in Int /\ boot \in Int /\ seq \in Int
      /\ \A f \in Stream : f.seq \in Int /\ f.boot \in Int
      /\ \A f \in facts : f.seq \in Int /\ f.boot \in Int /\ f.lasting
  <2>1. last_seq # NoSeq
    BY <1>1, <1>2 DEF LinkInv
  <2>2. last_seq \in Nat
    BY <2>1, StreamAssumption DEF TypeOK
  <2> QED
    BY <1>6, <2>1, <2>2, Numbers DEF Positions
<1> HIDE DEF at, mid
<1>10. Counted(welcome.boot, at.seq)
  <2>1. Counted(welcome.boot, last_seq)
    BY <1>1, <1>2, <1>9 DEF LinkInv, NumberInv, Counted
  <2>2. \A e \in ItemsOf(x.events) : Counted(welcome.boot, e.seq)
    BY <1>4
  <2>3. \A e \in ItemsOf(queued) : Counted(welcome.boot, e.seq)
    BY <1>2 DEF NumberInv, Stream
  <2> QED
    BY <1>7, <1>8, <2>1, <2>2, <2>3
<1>11. at.seq # NoSeq /\ last_seq <= at.seq
  BY <1>7, <1>8, <1>9 DEF NoSeq
<1>12. /\ Stream' \subseteq Stream /\ EventsOn(outbox) = Stream' /\ Streaming /\ Streaming'
       /\ ItemsOf(queued') = {}
  BY <1>1, <1>3, NoLines DEF Stream, Streaming
<1>13. /\ counted_by' = welcome.boot /\ welcome' = welcome /\ status' = "live"
       /\ last_seq' = at.seq /\ queued' = <<>> /\ calls' = calls
       /\ boot' = boot /\ seq' = seq /\ dead' = dead /\ facts' = facts /\ subscribed' = subscribed
       /\ reply' = reply
  BY <1>1, <1>3, <1>4
<1>14. NumberInv'
  <2>1. /\ Counted(welcome.boot, welcome.seq) /\ welcome.boot <= welcome.boot
        /\ \A e \in Stream' : e.boot = welcome.boot /\ Counted(e.boot, e.seq)
        /\ \A l \in InFlight' : l.kind = "welcome" =>
              Counted(l.welcome.boot, l.welcome.seq) /\ (~dead => l.welcome.boot = boot)
    BY <1>2, <1>3, <1>9, <1>12 DEF NumberInv
  <2> QED
    BY <1>10, <1>13, <2>1 DEF NumberInv, Counted
<1>15. StreamInv'
  BY <1>3, <1>12, <1>13, NoLines DEF StreamInv
<1>16. LinkInv'
  BY <1>1, <1>2, <1>11, <1>12, <1>13 DEF LinkInv
<1>17. ReplayInv'
  BY <1>13 DEF ReplayInv
<1>18. \A f : Reachable(f)' => Reachable(f)
  BY <1>12, <1>13 DEF Reachable
<1>19. ASSUME NEW f \in Missing' PROVE f \in Missing
  <2>1. f \in facts /\ Expected(f)' /\ f \notin view' /\ f \notin lost' /\ ~Coming(f)'
    BY <1>13, <1>19 DEF Missing, Seen
  <2>2. f \notin view /\ f \notin lost /\ f \notin at.view
    BY <1>1, <1>7, <1>8, <2>1
  <2>3. ~Coming(f)' /\ (f \in Stream' /\ f.seq > at.seq => Coming(f)')
    BY <1>3, <1>12, <1>13, <2>1 DEF Coming
  (* What is beyond the old position, of this run, and not shown is out of *)
  (* reach: neither replayed, nor held, nor on its way.                    *)
  <2>4. ASSUME f.boot = welcome.boot, f.seq > last_seq
        PROVE  ~Reachable(f) /\ f.seq > at.seq
    <3>1. f \notin ItemsOf(x.events)
      BY <1>7, <1>8, <1>9, <2>1, <2>2, <2>4
    <3>2. /\ \A e \in ItemsOf(x.events) : e.seq < f.seq
          /\ Reachable(f) => f \in Stream
      BY <1>4, <2>1, <2>4, <3>1 DEF Covers
    <3>3. mid.seq < f.seq
      BY <1>7, <2>4, <3>2
    <3>4. f \notin ItemsOf(queued)
      BY <1>8, <1>9, <2>1, <2>2, <3>3
    <3>5. f \notin EventsOn(outbox)
      <4>1. SUFFICES ASSUME f \in EventsOn(outbox) PROVE FALSE
        OBVIOUS
      <4>2. \A e \in ItemsOf(queued) : e.seq < f.seq
        BY <1>2, <4>1 DEF StreamInv
      <4>3. at.seq < f.seq
        BY <1>8, <3>3, <4>2
      <4> QED
        BY <1>9, <1>12, <2>1, <2>3, <4>1, <4>3
    <3>6. ~Reachable(f)
      BY <3>2, <3>4, <3>5 DEF Stream
    <3>7. \A e \in ItemsOf(queued) : e.seq < f.seq
      <4>1. SUFFICES ASSUME NEW e \in ItemsOf(queued), ~(e.seq < f.seq) PROVE FALSE
        OBVIOUS
      <4>2. e \in Stream /\ e.seq \in Int /\ f.seq \in Int
        BY <1>9, <2>1, <4>1 DEF Stream
      <4>3. e.seq >= f.seq
        BY <4>1, <4>2
      <4> QED
        BY <3>6, <4>2, <4>3 DEF Reachable
    <3>8. at.seq < f.seq
      BY <1>8, <3>3, <3>7
    <3> QED
      BY <1>9, <2>1, <3>6, <3>8
  <2>5. CASE Passed(f)'
    <3>1. f.boot < welcome.boot \/ (f.boot = welcome.boot /\ f.seq <= at.seq)
      BY <1>13, <2>5 DEF Passed
    <3>2. counted_by = x.boot
      <4>1. SUFFICES ASSUME counted_by # x.boot PROVE FALSE
        OBVIOUS
      <4>2. f \in passed
        BY <1>4, <2>1, <3>1
      <4> QED
        BY <1>1, <2>1, <2>2, <4>1, <4>2
    <3>3. Passed(f)
      <4>1. CASE f.boot < welcome.boot
        BY <1>4, <3>2, <4>1 DEF Passed
      <4>2. CASE f.boot = welcome.boot /\ f.seq <= at.seq
        <5>1. ~(f.seq > last_seq)
          BY <1>9, <2>1, <2>4, <4>2
        <5>2. f.seq <= last_seq
          BY <1>9, <2>1, <5>1
        <5> QED
          BY <1>4, <3>2, <4>2, <5>2 DEF Passed
      <4> QED
        BY <3>1, <4>1, <4>2
    <3>4. ~Coming(f)
      <4>1. SUFFICES ASSUME Coming(f) PROVE FALSE
        OBVIOUS
      <4>2. f \in Stream /\ f.seq > last_seq
        BY <4>1 DEF Coming, Stream
      <4>3. f.boot = welcome.boot
        BY <1>2, <4>2 DEF NumberInv
      <4>4. ~Reachable(f)
        BY <2>4, <4>2, <4>3
      <4> QED
        BY <1>9, <4>2, <4>4 DEF Reachable
    <3> QED
      BY <2>1, <2>2, <3>3, <3>4 DEF Missing, Expected, Seen
  <2>6. CASE ~Passed(f)'
    <3>1. f.boot = welcome.boot /\ Reachable(f)
      BY <1>13, <1>18, <2>1, <2>6 DEF Expected
    <3>2. f.seq > last_seq
      <4>1. ~(f.seq <= at.seq)
        BY <1>13, <2>6, <3>1 DEF Passed
      <4> QED
        BY <1>9, <1>11, <2>1, <4>1
    <3> QED
      BY <2>4, <3>1, <3>2
  <2> QED
    BY <2>5, <2>6
<1> QED
  BY <1>9, <1>14, <1>15, <1>16, <1>17, <1>19 DEF CoreInv

-----------------------------------------------------------------------------
(* The connection is gone: what was under way is owed again.               *)
LEMMA HangupStep ==
    ASSUME TypeOK, CoreInv, HonestInv, BusInv', Hangup
    PROVE  CoreInv' /\ HonestInv'
PROOF
<1> USE DEF bus_vars
<1>1. /\ status' = "offline" /\ queued' = <<>> /\ dead' = TRUE /\ outbox' = <<>>
      /\ calls' = <<>> /\ reply' = NoLine
      /\ UNCHANGED <<bus_vars, greeted, subscribed, welcome>>
      /\ retry' = (retry \/ status = "asking" \/ \E l \in Loads : load[l] # Idle)
      /\ IF status = "asking"
         THEN last_seq' = welcome.seq /\ counted_by' = welcome.boot
         ELSE last_seq' = last_seq /\ counted_by' = counted_by
      /\ view' = Reloaded(Reloaded(view, "resync"), "again")
      /\ lost' = (lost \union view) \ view'
  BY DEF Hangup
<1>2. NumberInv
  BY DEF CoreInv
<1>3. InFlight' = {NoLine} /\ Stream' = {} /\ EventsOn(outbox') = {} /\ ItemsOf(calls') = {}
      /\ ~Streaming'
  BY <1>1, NoLines DEF InFlight, Stream, Streaming
<1>4. NumberInv'
  <2>1. welcome.boot <= welcome.boot
    BY Numbers
  <2> QED
    BY <1>1, <1>2, <1>3, <2>1 DEF NumberInv, Counted, NoLine
<1>5. StreamInv'
  BY <1>1, <1>3, NoLines DEF StreamInv
<1>6. LinkInv'
  BY <1>1, <1>3 DEF LinkInv, NoLine
<1>7. ReplayInv'
  BY <1>1 DEF ReplayInv
<1>8. HonestInv'
  <2>1. SUFFICES ASSUME last_seq' # NoSeq, ~retry' PROVE Missing' = {}
    BY DEF HonestInv
  <2>2. ~retry /\ status # "asking" /\ \A l \in Loads : load[l] = Idle
    BY <1>1, <2>1
  <2>3. last_seq' = last_seq /\ counted_by' = counted_by
    BY <1>1, <2>2
  <2>4. Missing = {}
    BY <2>1, <2>2, <2>3 DEF HonestInv, Owed
  <2>5. view' = view
    BY <1>1, <2>2 DEF Reloaded, Loads, Idle
  <2>6. ASSUME NEW f \in Missing' PROVE f \in Missing
    <3>1. f \in facts /\ Passed(f) /\ f \notin Seen
      BY <1>1, <2>3, <2>5, <2>6 DEF Missing, Expected, Passed, Seen
    <3>2. ~Coming(f)
      <4>1. SUFFICES ASSUME Coming(f) PROVE FALSE
        OBVIOUS
      <4>2. f.boot = welcome.boot /\ f.seq > last_seq
        BY <1>2, <4>1 DEF Coming, NumberInv, Stream
      <4> QED
        BY <1>2, <3>1, <4>2, Numbers DEF Passed, NumberInv
    <3> QED
      BY <3>1, <3>2 DEF Missing, Expected
  <2> QED
    BY <2>4, <2>6
<1> QED
  BY <1>4, <1>5, <1>6, <1>7, <1>8 DEF CoreInv

-----------------------------------------------------------------------------
(* The reloads' queries and answers.                                       *)
LEMMA FewerTokens ==
    ASSUME NEW l, OneToken(l),
           load'[l].stage # "asked" => load[l].stage # "asked",
           None(calls, l) => None(calls', l), AtMostOne(calls, l) => AtMostOne(calls', l),
           None(outbox, l) => None(outbox', l), AtMostOne(outbox, l) => AtMostOne(outbox', l),
           For(reply', l) => For(reply, l)
    PROVE  OneToken(l)'
BY DEF OneToken

LEMMA NoTokens ==
    \A l : None(<<>>, l) /\ AtMostOne(<<>>, l) /\ ~For(NoLine, l)
BY DEF None, AtMostOne, For, NoLine

(* Calls and lines that are no part of a reload.                           *)
LEMMA OtherCall ==
    ASSUME TypeOK, NEW c \in Calls, c.kind # "query", NEW l
    PROVE  /\ None(calls, l) => None(Append(calls, c), l)
           /\ AtMostOne(calls, l) => AtMostOne(Append(calls, c), l)
PROOF
<1>1. ~For(c, l)
  BY DEF Calls, For
<1> QED
  BY <1>1, TokenAppend DEF TypeOK

LEMMA OneCallLess ==
    ASSUME TypeOK, calls # <<>>, NEW l
    PROVE  /\ None(calls, l) => None(Tail(calls), l)
           /\ AtMostOne(calls, l) => AtMostOne(Tail(calls), l)
           /\ AtMostOne(calls, l) /\ For(Head(calls), l) => None(Tail(calls), l)
           /\ For(Head(calls), l) => ~None(calls, l)
BY TokenTail DEF TypeOK

LEMMA OneLineLess ==
    ASSUME TypeOK, outbox # <<>>, NEW l
    PROVE  /\ None(outbox, l) => None(Tail(outbox), l)
           /\ AtMostOne(outbox, l) => AtMostOne(Tail(outbox), l)
           /\ AtMostOne(outbox, l) /\ For(Head(outbox), l) => None(Tail(outbox), l)
           /\ For(Head(outbox), l) => ~None(outbox, l)
BY TokenTail DEF TypeOK

LEMMA OneLineMore ==
    ASSUME TypeOK, NEW x \in Lines, Sent(x), NEW l
    PROVE  /\ None(outbox, l) /\ ~For(x, l) => None(outbox', l)
           /\ AtMostOne(outbox, l) /\ (For(x, l) => None(outbox, l)) => AtMostOne(outbox', l)
PROOF
<1>1. outbox' = Append(outbox, x) \/ outbox' = outbox
  BY DEF Sent
<1>2. /\ None(Append(outbox, x), l) <=> None(outbox, l) /\ ~For(x, l)
      /\ AtMostOne(outbox, l) /\ (For(x, l) => None(outbox, l)) => AtMostOne(Append(outbox, x), l)
  BY TokenAppend DEF TypeOK
<1> QED
  BY <1>1, <1>2

LEMMA HandleToken ==
    ASSUME TypeOK, Handle, NEW l, OneToken(l)
    PROVE  OneToken(l)'
PROOF
<1>1. /\ calls # <<>> /\ reply = NoLine /\ calls' = Tail(calls)
      /\ Head(calls) \in Calls /\ outbox' = outbox /\ load' = load
  BY HandleIs DEF view_vars
<1>2. For(reply', l) => For(Head(calls), l)
  <2> DEFINE c == Head(calls)
  <2>1. \/ reply' = [kind |-> "welcome", welcome |-> [boot |-> boot, seq |-> seq]]
        \/ reply' = NoLine
        \/ reply' = [kind |-> "subscribed"]
        \/ reply' = EventsSince(c.seq)
        \/ c.kind = "query" /\ reply' = [kind |-> "answer", load |-> c.load, snapshot |-> facts]
        \/ c.kind = "query" /\ reply' = [kind |-> "failed", load |-> c.load]
    BY HandleIs
  <2>2. EventsSince(c.seq).kind \notin {"query", "answer", "failed"}
    BY DEF EventsSince
  <2> HIDE DEF c
  <2>3. CASE reply' = EventsSince(c.seq)
    BY <2>2, <2>3 DEF For
  <2>4. CASE \/ reply' = [kind |-> "welcome", welcome |-> [boot |-> boot, seq |-> seq]]
             \/ reply' = NoLine
             \/ reply' = [kind |-> "subscribed"]
    BY <2>4 DEF For, NoLine
  <2>5. CASE c.kind = "query" /\ reply'.load = c.load
    BY <2>5 DEF For, c
  <2> QED
    BY <2>1, <2>3, <2>4, <2>5 DEF c
<1>3. CASE ~For(Head(calls), l)
  BY <1>1, <1>2, <1>3, OneCallLess, FewerTokens
<1>4. CASE For(Head(calls), l)
  <2>1. ~None(calls, l) /\ None(calls', l) /\ None(outbox, l) /\ AtMostOne(outbox, l)
        /\ load[l].stage = "asked"
    BY <1>1, <1>4, OneCallLess DEF OneToken
  <2>2. AtMostOne(calls', l)
    BY <2>1 DEF None, AtMostOne
  <2> QED
    BY <1>1, <2>1, <2>2 DEF OneToken
<1> QED
  BY <1>3, <1>4

LEMMA AnswerToken ==
    ASSUME TypeOK, Answer, NEW l, OneToken(l)
    PROVE  OneToken(l)'
PROOF
<1>1. /\ reply \in Lines /\ Sent(reply) /\ reply' = NoLine /\ calls' = calls /\ load' = load
  BY SendIs DEF Answer, TypeOK, view_vars
<1>2. ~For(reply', l)
  BY <1>1, NoTokens
<1>3. CASE ~For(reply, l)
  BY <1>1, <1>2, <1>3, OneLineMore, FewerTokens
<1>4. CASE For(reply, l)
  <2>1. None(outbox, l) /\ AtMostOne(outbox, l) /\ None(calls, l) /\ AtMostOne(calls, l)
        /\ load[l].stage = "asked"
    BY <1>4 DEF OneToken
  <2>2. AtMostOne(outbox', l)
    BY <1>1, <2>1, OneLineMore
  <2> QED
    BY <1>1, <1>2, <2>1, <2>2 DEF OneToken
<1> QED
  BY <1>3, <1>4

(* A reload is started only when nothing of an earlier one is on its way.  *)
LEMMA AskToken ==
    ASSUME TypeOK, NEW l \in Loads, OneToken(l), load[l] = Idle,
           calls' = Ask(l, calls), reply' = reply,
           None(outbox, l) => None(outbox', l), AtMostOne(outbox, l) => AtMostOne(outbox', l),
           load'[l] = [stage |-> "asked"]
    PROVE  OneToken(l)'
PROOF
<1> DEFINE c == [kind |-> "query", load |-> l]
<1>1. c \in Calls /\ For(c, l) /\ calls \in Seq(Calls) /\ calls' = Append(calls, c)
  BY DEF Calls, For, TypeOK, Ask
<1>2. None(calls, l) /\ ~For(reply, l) /\ None(outbox, l)
      /\ AtMostOne(calls, l) /\ AtMostOne(outbox, l)
  BY DEF OneToken, Idle
<1>3. AtMostOne(Append(calls, c), l)
  BY <1>1, <1>2, TokenAppend
<1> QED
  BY <1>1, <1>2, <1>3 DEF OneToken

LEMMA LoadStep ==
    ASSUME TypeOK, CoreInv, LoadInv, [Next]_vars
    PROVE  LoadInv'
PROOF
<1> USE DEF bus_vars, link_vars, client_vars, view_vars
<1>1. /\ status # "live" => load["resync"] = Idle
      /\ \A l \in Loads : OneToken(l)
      /\ load \in [Loads -> LoadStates] /\ outbox \in Seq(Lines) /\ calls \in Seq(Calls)
      /\ reply \in Lines \union {NoLine}
      /\ Loads = {"resync", "again"}
  BY DEF LoadInv, TypeOK, Loads
(* The steps that start no reload and end none.                            *)
<1>2. ASSUME load' = load, status' # "live" => status # "live",
             \A l \in Loads : OneToken(l)'
      PROVE  LoadInv'
  BY <1>1, <1>2 DEF LoadInv
<1>3. ASSUME load' = load, status' # "live" => status # "live", reply' = reply,
             \A l \in Loads : None(calls, l) => None(calls', l),
             \A l \in Loads : AtMostOne(calls, l) => AtMostOne(calls', l),
             \A l \in Loads : None(outbox, l) => None(outbox', l),
             \A l \in Loads : AtMostOne(outbox, l) => AtMostOne(outbox', l)
      PROVE  LoadInv'
  <2>1. \A l \in Loads : OneToken(l)'
    BY <1>1, <1>3, FewerTokens
  <2> QED
    BY <1>2, <1>3, <2>1
<1>4. ASSUME NEW k, Reads(k)
      PROVE  /\ reply' = reply
             /\ \A l : None(outbox, l) => None(outbox', l)
             /\ \A l : AtMostOne(outbox, l) => AtMostOne(outbox', l)
  BY <1>4, ReadsTakes, OneLineLess
<1>5. CASE Publish \/ PublishEphemeral
  <2>1. PICK e \in Events : FanOut(e)
    BY <1>5, NumberedNext DEF Publish, PublishEphemeral
  <2> DEFINE x == [kind |-> "event", event |-> e]
  <2>2. x \in Lines /\ \A l : ~For(x, l)
    BY DEF Lines, For
  <2>3. Sent(x) \/ outbox' = outbox
    BY <2>1, FanOutIs
  <2>4. \A l : /\ None(outbox, l) => None(outbox', l)
               /\ AtMostOne(outbox, l) => AtMostOne(outbox', l)
    BY <2>2, <2>3, OneLineMore
  <2> QED
    BY <1>3, <1>5, <2>4 DEF Publish, PublishEphemeral
<1>6. CASE Handle
  BY <1>1, <1>2, <1>6, HandleToken, HandleIs
<1>7. CASE Answer
  BY <1>1, <1>2, <1>7, AnswerToken DEF Answer
<1>8. CASE Restart
  <2>1. ASSUME NEW l \in Loads PROVE OneToken(l)'
    BY <1>1, <1>8, NoTokens, FewerTokens DEF Restart
  <2> QED
    BY <1>2, <1>8, <2>1 DEF Restart
<1>9. CASE Connect
  <2>1. ASSUME NEW l \in Loads PROVE OneToken(l)'
    BY <1>1, <1>9, NoTokens, FewerTokens DEF Connect
  <2> QED
    BY <1>2, <1>9, <2>1 DEF Connect
<1>10. CASE SayHello
  <2>1. [kind |-> "hello"] \in Calls
    BY DEF Calls
  <2> QED
    BY <1>3, <1>10, <2>1, OtherCall DEF SayHello
<1>11. CASE HearWelcome
  <2>1. [kind |-> "subscribe"] \in Calls
    BY DEF Calls
  <2> QED
    BY <1>3, <1>4, <1>11, <2>1, OtherCall DEF HearWelcome
<1>12. CASE HearSubscribed /\ ~StartOver
  <2>1. [kind |-> "since", seq |-> last_seq] \in Calls
    BY <1>12 DEF HearSubscribed, Calls, TypeOK
  <2> QED
    BY <1>3, <1>4, <1>12, <2>1, OtherCall DEF HearSubscribed
<1>13. CASE StartOver /\ (HearSubscribed \/ HearResync \/ SinceTimesOut)
  <2>1. /\ reply' = reply
        /\ \A l : None(outbox, l) => None(outbox', l)
        /\ \A l : AtMostOne(outbox, l) => AtMostOne(outbox', l)
    BY <1>4, <1>13 DEF HearSubscribed, HearResync, SinceTimesOut
  <2>2. load["resync"] = Idle
    BY <1>1, <1>13 DEF HearSubscribed, HearResync, SinceTimesOut
  <2>3. /\ status' = "live" /\ calls' = Ask("resync", calls)
        /\ load'["resync"] = [stage |-> "asked"] /\ load'["again"] = load["again"]
    BY <1>1, <1>13 DEF StartOver
  <2>4. OneToken("resync")'
    BY <1>1, <2>1, <2>2, <2>3, AskToken
  <2>5. OneToken("again")'
    <3> DEFINE c == [kind |-> "query", load |-> "resync"]
    <3>1. c \in Calls /\ ~For(c, "again")
      BY DEF Calls, Loads, For
    <3>2. /\ None(calls, "again") => None(calls', "again")
          /\ AtMostOne(calls, "again") => AtMostOne(calls', "again")
      BY <1>1, <2>3, <3>1, TokenAppend DEF Ask
    <3> QED
      BY <1>1, <2>1, <2>3, <3>2, FewerTokens
  <2> QED
    BY <1>1, <2>3, <2>4, <2>5 DEF LoadInv
<1>14. CASE HearReplay
  BY <1>3, <1>4, <1>14 DEF HearReplay
<1>15. CASE HearLateReply
  BY <1>3, <1>4, <1>15 DEF HearLateReply
<1>16. CASE HearEvent
  BY <1>3, <1>4, <1>16 DEF HearEvent
<1>17. CASE \E l \in Loads : HearAnswer(l)
  <2>1. PICK l \in Loads : HearAnswer(l)
    BY <1>17
  <2>2. /\ For(Head(outbox), l) /\ outbox # <<>> /\ outbox' = Tail(outbox) /\ reply' = reply
        /\ calls' = calls /\ status' = status
    BY <2>1 DEF HearAnswer, Reads, For
  <2>3. ~None(outbox, l) /\ AtMostOne(outbox, l)
    BY <1>1, <2>2, OneLineLess DEF OneToken
  <2>4. None(outbox', l) /\ None(calls, l) /\ ~For(reply, l) /\ load[l].stage = "asked"
    BY <1>1, <2>2, <2>3, OneLineLess DEF OneToken
  <2>5. OneToken(l)'
    <3>1. AtMostOne(outbox', l) /\ AtMostOne(calls, l)
      BY <1>1, <2>4 DEF OneToken, None, AtMostOne
    <3> QED
      BY <2>2, <2>4, <3>1 DEF OneToken
  <2>6. ASSUME NEW m \in Loads, m # l PROVE OneToken(m)' /\ load'[m] = load[m]
    <3>1. load'[m] = load[m]
      BY <1>1, <2>1, <2>6 DEF HearAnswer
    <3> QED
      BY <1>1, <2>2, <3>1, OneLineLess, FewerTokens
  <2>7. load["resync"] = Idle => l # "resync"
    BY <2>4 DEF Idle
  <2> QED
    BY <1>1, <2>2, <2>5, <2>6, <2>7 DEF LoadInv
<1>18. CASE NoticeClose \/ GiveUp
  <2>1. /\ outbox' = <<>> /\ calls' = <<>> /\ reply' = NoLine
        /\ load' = [l \in Loads |-> Idle]
    BY <1>18 DEF NoticeClose, GiveUp, Hangup
  <2>2. \A l \in Loads : OneToken(l)'
    BY <2>1, NoTokens DEF OneToken
  <2> QED
    BY <1>1, <2>1, <2>2 DEF LoadInv
<1>19. CASE RetryReload
  <2>1. /\ load["again"] = Idle /\ calls' = Ask("again", calls)
        /\ load'["again"] = [stage |-> "asked"] /\ load'["resync"] = load["resync"]
        /\ outbox' = outbox /\ reply' = reply /\ status' = status
    BY <1>1, <1>19 DEF RetryReload
  <2>2. OneToken("again")'
    BY <1>1, <2>1, AskToken
  <2>3. OneToken("resync")'
    <3> DEFINE c == [kind |-> "query", load |-> "again"]
    <3>1. c \in Calls /\ ~For(c, "resync")
      BY DEF Calls, Loads, For
    <3>2. /\ None(calls, "resync") => None(calls', "resync")
          /\ AtMostOne(calls, "resync") => AtMostOne(calls', "resync")
      BY <1>1, <2>1, <3>1, TokenAppend DEF Ask
    <3> QED
      BY <1>1, <2>1, <3>2, FewerTokens
  <2> QED
    BY <1>1, <2>1, <2>2, <2>3 DEF LoadInv
<1>20. CASE \E l \in Loads : FinishReload(l)
  <2>1. PICK l \in Loads : FinishReload(l)
    BY <1>20
  <2>2. /\ load[l].stage = "held" /\ UNCHANGED <<link_vars, client_vars>>
        /\ load' = [load EXCEPT ![l] = Idle]
    BY <2>1 DEF FinishReload
  <2>3. load'[l] = Idle /\ \A m \in Loads : m # l => load'[m] = load[m]
    BY <1>1, <2>2
  <2>4. ASSUME NEW m \in Loads PROVE OneToken(m)'
    <3>1. load'[m].stage # "asked" => load[m].stage # "asked"
      BY <2>2, <2>3
    <3> QED
      BY <1>1, <2>2, <3>1, FewerTokens
  <2>5. status' # "live" => load'["resync"] = Idle
    BY <1>1, <2>2, <2>3
  <2> QED
    BY <2>4, <2>5 DEF LoadInv
<1>21. CASE UNCHANGED vars
  BY <1>3, <1>21 DEF vars
<1> QED
  BY <1>5, <1>6, <1>7, <1>8, <1>9, <1>10, <1>11, <1>12, <1>13, <1>14, <1>15,
     <1>16, <1>17, <1>18, <1>19, <1>20, <1>21
     DEF Next, Daemon, Client, Renderer, Hear, HearResync, SinceTimesOut

-----------------------------------------------------------------------------
(* The screen.                                                             *)
(* What is missing does not grow, and no reload is under way that was not,  *)
(* or given an older answer.                                               *)
LEMMA StillOwed ==
    ASSUME TypeOK, HonestInv,
           last_seq' # NoSeq => last_seq # NoSeq, last_seq # NoSeq => Missing' \subseteq Missing,
           retry => retry', load' = load,
           \A x \in InFlight' : x.kind = "answer" => x \in InFlight \/ x.snapshot = facts
    PROVE  HonestInv'
PROOF
<1>1. SUFFICES ASSUME last_seq' # NoSeq, ~retry' PROVE Missing' = {} \/ \E l \in Loads : Owed(l)'
  BY DEF HonestInv
<1>2. Missing' \subseteq Missing /\ (Missing = {} \/ \E l \in Loads : Owed(l))
  BY <1>1 DEF HonestInv
<1>3. Missing \subseteq facts
  BY DEF Missing
<1>4. ASSUME NEW l \in Loads, Owed(l) PROVE Owed(l)'
  BY <1>2, <1>3, <1>4 DEF Owed
<1> QED
  BY <1>2, <1>4

LEMMA RetryStep ==
    ASSUME TypeOK, LoadInv, HonestInv, RetryReload
    PROVE  HonestInv'
PROOF
<1>1. load["again"] = Idle /\ "again" \in Loads /\ load \in [Loads -> LoadStates]
  BY DEF RetryReload, TypeOK, Loads
<1>2. ~For(reply, "again") /\ None(outbox, "again")
  BY <1>1 DEF LoadInv, OneToken, Idle
<1>3. \A x \in InFlight' : ~(x.kind = "answer" /\ x.load = "again")
  <2>1. \A x \in ItemsOf(outbox) : ~For(x, "again")
    BY <1>2, NoneMeans
  <2> QED
    BY <1>2, <2>1 DEF InFlight, For, RetryReload
<1>4. load'["again"] # Idle /\ load'["again"].stage # "held"
  BY <1>1 DEF RetryReload, Idle
<1>5. Owed("again")'
  BY <1>3, <1>4 DEF Owed
<1> QED
  BY <1>1, <1>5 DEF HonestInv

LEMMA FinishStep ==
    ASSUME TypeOK, CoreInv, HonestInv, Missing' \subseteq Missing, NEW l \in Loads, FinishReload(l)
    PROVE  HonestInv'
PROOF
<1>1. /\ load[l].stage = "held" /\ view' = load[l].snapshot
      /\ lost' = (lost \union view) \ view'
      /\ load' = [load EXCEPT ![l] = Idle]
      /\ UNCHANGED <<bus_vars, link_vars, client_vars, retry, failures>>
  BY DEF FinishReload, Reloaded
<1>2. \A m \in Loads : m # l => load'[m] = load[m]
  BY <1>1 DEF TypeOK
<1>3. SUFFICES ASSUME last_seq' # NoSeq, ~retry' PROVE Missing' = {} \/ \E m \in Loads : Owed(m)'
  BY DEF HonestInv
<1>4. Missing = {} \/ \E m \in Loads : Owed(m)
  BY <1>1, <1>3 DEF HonestInv, client_vars
<1>5. CASE Missing = {}
  BY <1>5
<1>6. CASE Owed(l)
  <2>1. Missing \subseteq view'
    BY <1>1, <1>6 DEF Owed
  <2>2. ASSUME NEW f \in Missing' PROVE FALSE
    <3>1. f \in Missing /\ f \notin view'
      BY <2>2 DEF Missing, Seen
    <3> QED
      BY <2>1, <3>1
  <2> QED
    BY <2>2
<1>7. ASSUME NEW m \in Loads, m # l, Owed(m) PROVE Owed(m)'
  <2>1. load'[m] = load[m] /\ InFlight' = InFlight
    BY <1>1, <1>2, <1>7 DEF InFlight, link_vars
  <2> QED
    BY <1>7, <2>1 DEF Owed
<1> QED
  BY <1>4, <1>5, <1>6, <1>7

LEMMA AnswerHeardStep ==
    ASSUME TypeOK, CoreInv, HonestInv, Missing' \subseteq Missing, NEW l \in Loads, HearAnswer(l)
    PROVE  HonestInv'
PROOF
<1> DEFINE x == Head(outbox)
<1>1. UNCHANGED <<calls, client_vars, view, lost, failures>> /\ last_seq' = last_seq
  BY DEF HearAnswer, client_vars
<1>2. CASE Reads("failed") /\ retry' = TRUE
  BY <1>2 DEF HonestInv
<1>3. CASE /\ Reads("answer") /\ x.load = l /\ retry' = retry
           /\ load' = [load EXCEPT ![l] = [stage |-> "held", snapshot |-> x.snapshot]]
  <2>1. InFlight' \subseteq InFlight /\ x \in InFlight /\ x.kind = "answer"
    BY <1>3, ReadsTakes
  <2> HIDE DEF x
  <2>2. /\ load'[l] = [stage |-> "held", snapshot |-> x.snapshot]
        /\ \A m \in Loads : m # l => load'[m] = load[m]
    BY <1>3 DEF TypeOK
  <2>3. SUFFICES ASSUME last_seq' # NoSeq, ~retry' PROVE Missing' = {} \/ \E m \in Loads : Owed(m)'
    BY DEF HonestInv
  <2>4. Missing = {} \/ \E m \in Loads : Owed(m)
    BY <1>1, <1>3, <2>3 DEF HonestInv
  <2>5. ASSUME Owed(l) PROVE Owed(l)'
    <3>1. Missing \subseteq x.snapshot
      BY <1>3, <2>1, <2>5 DEF Owed
    <3>2. \A y \in InFlight' : y.kind = "answer" /\ y.load = l => Missing \subseteq y.snapshot
      BY <2>1, <2>5 DEF Owed
    <3>3. load'[l] # Idle /\ load'[l].snapshot = x.snapshot
      BY <2>2 DEF Idle
    <3> QED
      BY <3>1, <3>2, <3>3 DEF Owed
  <2>6. ASSUME NEW m \in Loads, m # l, Owed(m) PROVE Owed(m)'
    <3>1. load'[m] = load[m]
      BY <2>2, <2>6
    <3> QED
      BY <2>1, <2>6, <3>1 DEF Owed
  <2> QED
    BY <2>4, <2>5, <2>6
<1> QED
  BY <1>2, <1>3 DEF HearAnswer

-----------------------------------------------------------------------------
(* The invariant holds.                                                    *)
LEMMA InitInvariant ==
    ASSUME Init
    PROVE  IInv
PROOF
<1>1. /\ boot = 1 /\ seq = 0 /\ ring = <<>> /\ facts = {} /\ dead = TRUE /\ subscribed = FALSE
      /\ greeted = FALSE /\ outbox = <<>> /\ calls = <<>> /\ reply = NoLine
      /\ status = "offline" /\ last_seq = NoSeq /\ welcome = [boot |-> 1, seq |-> 0]
      /\ queued = <<>> /\ view = {} /\ load = [l \in Loads |-> Idle] /\ retry = FALSE
      /\ failures = 0 /\ counted_by = 1 /\ lost = {}
  BY DEF Init
<1>2. 1 \in Boots
  BY StreamAssumption DEF Boots
<1>3. TypeOK
  <2>1. load \in [Loads -> LoadStates]
    BY <1>1 DEF LoadStates
  <2>2. <<>> \in Seq(Facts) /\ welcome \in Welcomes
    BY <1>1, <1>2, StreamAssumption DEF Welcomes
  <2> QED
    <3>1. /\ 0 \in 0..MaxSeq /\ 0 \in 0..MaxFailures /\ Len(outbox) <= OutboxCap
          /\ outbox \in Seq(Lines) /\ calls \in Seq(Calls) /\ queued \in Seq(Events)
          /\ ring \in Seq(Facts)
      BY <1>1, <2>2, NothingHeld, StreamAssumption
    <3> QED
      BY <1>1, <1>2, <2>1, <2>2, <3>1 DEF TypeOK
<1>4. InFlight = {NoLine} /\ Stream = {} /\ EventsOn(outbox) = {} /\ ~Streaming
      /\ ItemsOf(ring) = {} /\ ItemsOf(calls) = {} /\ ItemsOf(queued) = {}
  BY <1>1, NoLines DEF InFlight, Stream, Streaming
<1>5. BusInv
  BY <1>1, <1>4, NoLines DEF BusInv
<1>6. NumberInv
  BY <1>1, <1>4 DEF NumberInv, Counted, NoLine, NoSeq
<1>7. StreamInv /\ ReplayInv
  BY <1>1, <1>4, NoLines DEF StreamInv, ReplayInv
<1>8. LinkInv
  BY <1>1, <1>4 DEF LinkInv, NoLine
<1>9. LoadInv
  <2>1. \A l \in Loads : OneToken(l)
    BY <1>1, NoTokens DEF OneToken
  <2> QED
    BY <1>1, <2>1 DEF LoadInv, Loads
<1>10. HonestInv
  BY <1>1 DEF HonestInv
<1> QED
  BY <1>3, <1>5, <1>6, <1>7, <1>8, <1>9, <1>10 DEF IInv, CoreInv

LEMMA StepKeepsInvariant ==
    ASSUME IInv, [Next]_vars
    PROVE  IInv'
PROOF
<1> USE DEF bus_vars, link_vars, client_vars, view_vars
<1>1. TypeOK /\ CoreInv /\ LoadInv /\ HonestInv
  BY DEF IInv
<1>2. TypeOK' /\ LoadInv' /\ BusInv' /\ Later /\ boot' \in Int /\ seq' \in Int
  BY <1>1, StepKeepsTypes, LoadStep, BusStep DEF CoreInv
<1>3. SUFFICES CoreInv' /\ HonestInv'
  BY <1>2 DEF IInv
<1>4. CASE Publish \/ PublishEphemeral
  <2>1. CoreInv' /\ (last_seq # NoSeq => Missing' \subseteq Missing)
    BY <1>1, <1>2, <1>4, PublishStep
  <2>2. PICK e \in Events :
          /\ FanOut(e)
          /\ UNCHANGED <<greeted, subscribed, calls, reply, client_vars, view_vars, failures>>
          /\ e.boot = boot /\ e.seq = seq + 1
    BY <1>1, <1>4, NumberedNext DEF Publish, PublishEphemeral
  <2>3. \A x \in InFlight' : x.kind = "answer" => x \in InFlight
    <3>1. ItemsOf(outbox') \subseteq ItemsOf(outbox) \union {[kind |-> "event", event |-> e]}
      BY <1>1, <2>2, PublishReaches
    <3> QED
      BY <2>2, <3>1 DEF InFlight
  <2> QED
    BY <1>1, <2>1, <2>2, <2>3, StillOwed
<1>5. CASE Handle
  <2>1. CoreInv' /\ Missing' \subseteq Missing
    BY <1>1, <1>2, <1>5, HandleStep
  <2>2. UNCHANGED <<outbox, client_vars, view_vars>>
    BY <1>1, <1>5, HandleIs
  <2>3. reply'.kind = "answer" => reply'.snapshot = facts
    <3>1. EventsSince(Head(calls).seq).kind # "answer"
      BY DEF EventsSince
    <3> QED
      <4> DEFINE c == Head(calls)
      <4>1. \/ reply' = [kind |-> "welcome", welcome |-> [boot |-> boot, seq |-> seq]]
            \/ reply' = NoLine
            \/ reply' = [kind |-> "subscribed"]
            \/ reply' = EventsSince(c.seq)
            \/ reply' = [kind |-> "answer", load |-> c.load, snapshot |-> facts]
            \/ reply' = [kind |-> "failed", load |-> c.load]
        BY <1>1, <1>5, HandleIs
      <4> HIDE DEF c
      <4>2. CASE reply' = EventsSince(c.seq)
        BY <3>1, <4>2 DEF c
      <4>3. CASE reply' = [kind |-> "answer", load |-> c.load, snapshot |-> facts]
        BY <4>3
      <4>4. CASE \/ reply' = [kind |-> "welcome", welcome |-> [boot |-> boot, seq |-> seq]]
                 \/ reply' = NoLine
                 \/ reply' = [kind |-> "subscribed"]
                 \/ reply' = [kind |-> "failed", load |-> c.load]
        BY <4>4 DEF NoLine
      <4> QED
        BY <4>1, <4>2, <4>3, <4>4
  <2>4. \A x \in InFlight' : x.kind = "answer" => x \in InFlight \/ x.snapshot = facts
    BY <2>2, <2>3 DEF InFlight
  <2> QED
    BY <1>1, <2>1, <2>2, <2>4, StillOwed
(* The steps that only take away from what is on its way.                  *)
<1>6. ASSUME Quietly PROVE /\ CoreInv' /\ Missing' \subseteq Missing
                           /\ load' = load /\ retry' = retry => HonestInv'
  <2>1. CoreInv' /\ Missing' \subseteq Missing
    BY <1>1, <1>2, <1>6, QuietStep
  <2>2. \A x \in InFlight' : x.kind = "answer" => x \in InFlight
    BY <1>6 DEF Quietly, NoLine
  <2>3. last_seq' = last_seq
    BY <1>6 DEF Quietly
  <2> QED
    BY <1>1, <2>1, <2>2, <2>3, StillOwed
<1>7. CASE Answer \/ Restart \/ HearLateReply \/ UNCHANGED vars
  <2>1. Quietly
    BY <1>1, <1>7, QuietActions
  <2>2. load' = load /\ retry' = retry
    BY <1>7 DEF Answer, Restart, HearLateReply, vars
  <2> QED
    BY <1>6, <2>1, <2>2
<1>8. CASE RetryReload
  <2>1. Quietly
    BY <1>1, <1>8, QuietActions
  <2> QED
    BY <1>1, <1>6, <1>8, <2>1, RetryStep
<1>9. CASE \E l \in Loads : HearAnswer(l)
  <2>1. Quietly
    BY <1>1, <1>9, QuietActions
  <2> QED
    BY <1>1, <1>6, <1>9, <2>1, AnswerHeardStep
<1>10. CASE \E l \in Loads : FinishReload(l)
  <2>1. Quietly
    BY <1>1, <1>10, QuietActions
  <2> QED
    BY <1>1, <1>6, <1>10, <2>1, FinishStep
(* Connecting: no reload is touched.                                       *)
<1>11. ASSUME CoreInv', Missing' \subseteq Missing, last_seq' # NoSeq => last_seq # NoSeq,
              load' = load, retry' = retry, InFlight' \subseteq InFlight \union {NoLine}
       PROVE  CoreInv' /\ HonestInv'
  <2>1. \A x \in InFlight' : x.kind = "answer" => x \in InFlight
    BY <1>11 DEF NoLine
  <2> QED
    BY <1>1, <1>11, <2>1, StillOwed
<1>12. CASE Connect
  <2>1. InFlight' \subseteq {NoLine} /\ load' = load /\ retry' = retry /\ last_seq' = last_seq
    BY <1>12, NoLines DEF Connect, InFlight
  <2> QED
    BY <1>1, <1>2, <1>11, <1>12, <2>1, ConnectStep
<1>13. CASE SayHello
  <2>1. InFlight' = InFlight /\ load' = load /\ retry' = retry /\ last_seq' = last_seq
    BY <1>13 DEF SayHello, InFlight
  <2> QED
    BY <1>1, <1>2, <1>11, <1>13, <2>1, HelloStep
<1>14. CASE HearWelcome
  <2>1. InFlight' \subseteq InFlight
    BY <1>1, <1>14, ReadsTakes DEF HearWelcome
  <2>2. load' = load /\ retry' = retry /\ last_seq' = last_seq
    BY <1>14 DEF HearWelcome
  <2> QED
    BY <1>1, <1>2, <1>11, <1>14, <2>1, <2>2, WelcomeStep
<1>15. CASE HearSubscribed /\ status' = "asking"
  <2>1. InFlight' \subseteq InFlight
    BY <1>1, <1>15, ReadsTakes DEF HearSubscribed
  <2>2. load' = load /\ retry' = retry /\ last_seq' = last_seq
    BY <1>15 DEF HearSubscribed, StartOver
  <2> QED
    BY <1>1, <1>2, <1>11, <1>15, <2>1, <2>2, AskStep
<1>16. CASE (HearSubscribed /\ status' # "asking") \/ HearResync \/ SinceTimesOut
  BY <1>1, <1>2, <1>16, StartOverActions
<1>17. CASE HearReplay
  <2>1. InFlight' \subseteq InFlight
    BY <1>1, <1>17, ReadsTakes DEF HearReplay
  <2>2. load' = load /\ retry' = retry
    BY <1>17 DEF HearReplay
  <2> QED
    BY <1>1, <1>2, <1>11, <1>17, <2>1, <2>2, ReplayStep
<1>18. CASE HearEvent
  <2>1. InFlight' \subseteq InFlight
    BY <1>1, <1>18, ReadsTakes DEF HearEvent
  <2>2. load' = load /\ retry' = retry
    BY <1>18 DEF HearEvent
  <2> QED
    BY <1>1, <1>2, <1>11, <1>18, <2>1, <2>2, EventStep
<1>19. CASE NoticeClose \/ GiveUp
  <2>1. Hangup
    BY <1>19 DEF NoticeClose, GiveUp
  <2> QED
    BY <1>1, <1>2, <2>1, HangupStep
<1> QED
  BY <1>4, <1>5, <1>7, <1>8, <1>9, <1>10, <1>12, <1>13, <1>14, <1>15, <1>16,
     <1>17, <1>18, <1>19
     DEF Next, Daemon, Client, Renderer, Hear

LEMMA InvariantAnswers ==
    ASSUME IInv
    PROVE  PositionIsHonest /\ NothingIsSkipped
PROOF
<1>1. TypeOK /\ NumberInv /\ StreamInv /\ LinkInv /\ HonestInv
  BY DEF IInv, CoreInv
<1>2. ASSUME last_seq # NoSeq, NEW f \in Missing PROVE Reloading
  BY <1>1, <1>2 DEF HonestInv, Owed, Reloading
<1>3. ASSUME last_seq # NoSeq, NEW f \in facts, Passed(f) PROVE f \in view \union lost \/ Reloading
  <2>1. ~Coming(f)
    <3>1. SUFFICES ASSUME Coming(f) PROVE FALSE
      OBVIOUS
    <3>2. f.boot = welcome.boot /\ f.seq > last_seq /\ counted_by <= welcome.boot
      BY <1>1, <3>1 DEF Coming, NumberInv, Stream
    <3> QED
      BY <1>1, <1>3, <3>2, Numbers DEF Passed
  <2>2. f \in Seen \/ f \in Missing
    BY <1>3, <2>1 DEF Missing, Expected
  <2> QED
    BY <1>2, <1>3, <2>2 DEF Seen
<1>4. PositionIsHonest
  BY <1>3 DEF PositionIsHonest
<1>5. ASSUME status = "live", ~dead, NEW f \in facts, f.boot = boot, f.seq > last_seq
      PROVE  \/ f \in EventsOn(outbox)
             \/ f \in view \union lost \/ Reloading
  <2>1. welcome.boot = boot /\ last_seq # NoSeq
    BY <1>1, <1>5 DEF LinkInv, Streaming
  <2>2. Expected(f)
    BY <1>5, <2>1 DEF Expected, Reachable
  <2>3. f \in Seen \/ f \in Missing \/ Coming(f)
    BY <1>5, <2>2 DEF Missing
  <2> QED
    BY <1>2, <2>1, <2>3 DEF Seen, Coming
<1>6. InOrder(outbox)
  BY <1>1 DEF StreamInv
<1>7. NothingIsSkipped
  <2> DEFINE coming == {i \in DOMAIN outbox : outbox[i].kind = "event"}
  <2>1. EventsOn(outbox) = {outbox[i].event : i \in coming}
    BY DEF EventsOn
  <2>2. \A i, j \in coming : i < j => outbox[i].event.seq < outbox[j].event.seq
    BY <1>6 DEF InOrder
  <2>3. \A f \in EventsOn(outbox) : \E i \in coming : outbox[i].event = f
    BY <2>1
  <2> HIDE DEF coming
  <2>4. ASSUME status = "live", ~dead, NEW f \in facts, f.boot = boot, f.seq > last_seq
        PROVE  \/ \E i \in coming : outbox[i].event = f
               \/ f \in view \union lost \/ Reloading
    BY <1>5, <2>3, <2>4
  <2> QED
    BY <2>2, <2>4 DEF NothingIsSkipped, coming
<1> QED
  BY <1>4, <1>7

(* Whatever is published, however the connection breaks and the daemon     *)
(* restarts, the bus, what is on its way, the client's position and its    *)
(* reloads stay consistent.                                                *)
THEOREM StreamInvariant == Spec => []IInv
PROOF
<1>1. Init => IInv
  BY InitInvariant
<1>2. IInv /\ [Next]_vars => IInv'
  BY StepKeepsInvariant
<1> QED
  BY <1>1, <1>2, PTL DEF Spec

THEOREM StreamIsTyped == Spec => []TypeOK
PROOF
<1>1. IInv => TypeOK
  BY DEF IInv
<1> QED
  BY <1>1, StreamInvariant, PTL

(* client.js: a fact at or below the client's position is on screen, or a  *)
(* reload that brings it is owed, whether the client is connected or not.  *)
THEOREM PositionStaysHonest == Spec => []PositionIsHonest
PROOF
<1>1. IInv => PositionIsHonest
  BY InvariantAnswers
<1> QED
  BY <1>1, StreamInvariant, PTL

(* bus.rs, client.js: a client that has caught up is never skipped over:   *)
(* a fact it has not been told of is on its way to it, in order.           *)
THEOREM NothingIsEverSkipped == Spec => []NothingIsSkipped
PROOF
<1>1. IInv => NothingIsSkipped
  BY InvariantAnswers
<1> QED
  BY <1>1, StreamInvariant, PTL

=============================================================================
