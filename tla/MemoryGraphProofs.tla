------------------------- MODULE MemoryGraphProofs -------------------------
(***************************************************************************)
(* What MemoryGraph guarantees for every number of turns, voices, sessions *)
(* and windows, every answer of the model and every order of the worker's  *)
(* steps and a person's.                                                   *)
(***************************************************************************)
EXTENDS MemoryGraph, FiniteSetTheorems, WellFoundedInduction, SequenceTheorems, TLAPS

(* A set of naturals has a least member: what stands for induction below.  *)
LEMMA LeastExists ==
    ASSUME NEW S, S \subseteq Nat, S # {}
    PROVE  \E m \in S : \A n \in S : m <= n
PROOF
<1> DEFINE Upto == {0 .. n : n \in S}
           R == StrictSubsetOrdering(Nat)
<1>1. Upto \subseteq FiniteSubsetsOf(Nat) /\ Upto # {}
  <2>1. \A n \in S : 0 .. n \subseteq Nat /\ IsFiniteSet(0 .. n)
    BY FS_Interval
  <2> QED
    BY <2>1 DEF FiniteSubsetsOf
<1>2. PICK T \in Upto : \A U \in Upto : ~(<<U, T>> \in R)
  <2>1. IsWellFoundedOn(R, FiniteSubsetsOf(Nat))
    BY FS_StrictSubsetOrderingWellFounded
  <2> HIDE DEF R, Upto
  <2> QED
    BY <1>1, <2>1, WFMin
<1>3. PICK m \in S : T = 0 .. m
  OBVIOUS
<1>4. ASSUME NEW n \in S, n < m
      PROVE  FALSE
  <2>1. 0 .. n \subseteq 0 .. m /\ m \in 0 .. m /\ m \notin 0 .. n
    BY <1>4
  <2>2. <<0 .. n, 0 .. m>> \in R
    BY <2>1 DEF StrictSubsetOrdering
  <2> QED
    BY <1>2, <1>3, <2>2
<1> QED
  BY <1>4

(* What holds of nothing and of one more step holds of every step.         *)
LEMMA StepByStep ==
    ASSUME NEW n \in Nat, NEW S, 0 \in S, \A i \in 1..n : i - 1 \in S => i \in S
    PROVE  \A i \in 0..n : i \in S
PROOF
<1> DEFINE Bad == (0..n) \ S
<1> SUFFICES ASSUME Bad # {} PROVE FALSE
  OBVIOUS
<1>1. PICK m \in Bad : \A k \in Bad : m <= k
  <2>1. Bad \subseteq Nat
    OBVIOUS
  <2> HIDE DEF Bad
  <2> QED
    BY <2>1, LeastExists
<1>2. m \in 0..n /\ m \notin S /\ m # 0
  BY <1>1
<1>3. m \in 1..n /\ m - 1 \in 0..n /\ ~(m <= m - 1)
  BY <1>2
<1>4. m - 1 \in S
  BY <1>1, <1>3
<1> QED
  BY <1>2, <1>3, <1>4

(* A loop over positions has a history.                                    *)
Runs(f, X, a, step, k) ==
    /\ f \in [0..k -> X] /\ f[0] = a
    /\ \A i \in 1..k : f[i] = step[<<i, f[i - 1]>>]

LEMMA LoopExists ==
    ASSUME NEW X, NEW a \in X, NEW n \in Nat,
           NEW step \in [(1..n) \X X -> X]
    PROVE  \E f : Runs(f, X, a, step, n)
PROOF
<1> DEFINE Ok == {k \in 0..n : \E f : Runs(f, X, a, step, k)}
<1>1. 0 \in Ok
  <2>1. Runs([i \in 0..0 |-> a], X, a, step, 0)
    BY DEF Runs
  <2> QED
    BY <2>1
<1>2. ASSUME NEW k \in 1..n, k - 1 \in Ok
      PROVE  k \in Ok
  <2>1. PICK f : Runs(f, X, a, step, k - 1)
    BY <1>2
  <2>2. f[k - 1] \in X /\ <<k, f[k - 1]>> \in (1..n) \X X
    BY <2>1 DEF Runs
  <2> DEFINE g == [i \in 0..k |-> IF i = k THEN step[<<k, f[k - 1]>>] ELSE f[i]]
  <2>3. g \in [0..k -> X] /\ g[0] = a
    BY <2>1, <2>2 DEF Runs
  <2>4. ASSUME NEW i \in 1..k
        PROVE  g[i] = step[<<i, g[i - 1]>>]
    <3>1. CASE i = k
      <4>1. g[k] = step[<<k, f[k - 1]>>] /\ k - 1 \in 0..k /\ k - 1 # k
        OBVIOUS
      <4>2. g[k - 1] = f[k - 1]
        BY <4>1
      <4> QED
        BY <3>1, <4>1, <4>2
    <3>2. CASE i # k
      <4>1. i \in 1..(k - 1) /\ i - 1 \in 0..k /\ i - 1 # k /\ i \in 0..k
        BY <3>2
      <4>2. g[i] = f[i] /\ g[i - 1] = f[i - 1]
        BY <3>2, <4>1
      <4> QED
        BY <2>1, <4>1, <4>2 DEF Runs
    <3> QED
      BY <3>1, <3>2
  <2>5. Runs(g, X, a, step, k)
    BY <2>3, <2>4 DEF Runs
  <2> QED
    BY <2>5
<1>3. n \in Ok
  <2> HIDE DEF Ok
  <2>1. \A i \in 0..n : i \in Ok
    BY <1>1, <1>2, StepByStep
  <2> QED
    BY <2>1
<1> QED
  BY <1>3

-----------------------------------------------------------------------------
(* Orders: the least, the greatest, the last, and a list in order.         *)

LEMMA MaxOf ==
    ASSUME NEW S, S \subseteq Int, S # {}, NEW b \in Int, \A x \in S : x <= b
    PROVE  Max(S) \in S /\ \A x \in S : x <= Max(S)
PROOF
<1> DEFINE Below == {b - x : x \in S}
<1>1. Below \subseteq Nat /\ Below # {}
  <2>1. \A x \in S : b - x \in Nat
    OBVIOUS
  <2> QED
    BY <2>1
<1>2. PICK n \in Below : \A k \in Below : n <= k
  <2> HIDE DEF Below
  <2> QED
    BY <1>1, LeastExists
<1>3. PICK m \in S : n = b - m
  BY <1>2
<1>4. \A x \in S : m >= x
  BY <1>2, <1>3
<1>5. Max(S) \in S /\ \A x \in S : Max(S) >= x
  BY <1>3, <1>4 DEF Max
<1> QED
  BY <1>5

LEMMA MinOf ==
    ASSUME NEW S, S \subseteq Nat, S # {}
    PROVE  Min(S) \in S /\ \A x \in S : Min(S) <= x
PROOF
<1>1. PICK m \in S : \A x \in S : m <= x
  BY LeastExists
<1> QED
  BY <1>1 DEF Min

(* R puts any two of S in order.                                           *)
Orders(R, S) ==
    /\ \A x, y \in S : x # y => <<x, y>> \in R \/ <<y, x>> \in R
    /\ \A x, y, z \in S : <<x, y>> \in R /\ <<y, z>> \in R => <<x, z>> \in R

IsLast(m, S, R) == m \in S /\ \A x \in S \ {m} : <<x, m>> \in R

LEMMA LastExists ==
    ASSUME NEW S, IsFiniteSet(S), S # {}, NEW R, Orders(R, S)
    PROVE  \E m \in S : IsLast(m, S, R)
PROOF
<1> DEFINE Bad == {T \in SUBSET S : T # {} /\ ~\E m \in T : IsLast(m, T, R)}
           Sizes == {Cardinality(T) : T \in Bad}
<1> SUFFICES ASSUME Bad # {} PROVE FALSE
  OBVIOUS
<1>1. \A T \in SUBSET S : IsFiniteSet(T) /\ Cardinality(T) \in Nat
  BY FS_Subset, FS_CardinalityType
<1>2. Sizes \subseteq Nat /\ Sizes # {}
  BY <1>1
<1>3. PICK n \in Sizes : \A k \in Sizes : n <= k
  <2> HIDE DEF Sizes
  <2> QED
    BY <1>2, LeastExists
<1>4. PICK T \in Bad : n = Cardinality(T)
  BY <1>3
<1>5. PICK x \in T : TRUE
  BY <1>4
<1>6. IsFiniteSet(T \ {x}) /\ Cardinality(T \ {x}) = n - 1 /\ n \in Nat
  BY <1>1, <1>4, <1>5, FS_RemoveElement
<1>7. T \ {x} \notin Bad
  BY <1>3, <1>6
<1>8. CASE T \ {x} = {}
  BY <1>4, <1>8 DEF IsLast
<1>9. CASE T \ {x} # {}
  <2>1. PICK m \in T \ {x} : \A y \in (T \ {x}) \ {m} : <<y, m>> \in R
    BY <1>4, <1>7, <1>9 DEF IsLast
  <2>2. m \in S /\ x \in S /\ m # x
    BY <1>4, <2>1
  <2>3. CASE <<x, m>> \in R
    <3>1. IsLast(m, T, R)
      BY <2>1, <2>3 DEF IsLast
    <3> QED
      BY <1>4, <2>1, <3>1
  <2>4. CASE <<m, x>> \in R
    <3>1. \A y \in T \ {x} : <<y, x>> \in R
      BY <1>4, <2>1, <2>2, <2>4 DEF Orders
    <3>2. IsLast(x, T, R)
      BY <3>1 DEF IsLast
    <3> QED
      BY <1>4, <3>2
  <2> QED
    BY <2>2, <2>3, <2>4 DEF Orders
<1> QED
  BY <1>8, <1>9

Sorts(q, S, R) ==
    /\ q \in [1..Cardinality(S) -> S]
    /\ \A i, j \in DOMAIN q : i < j => <<q[i], q[j]>> \in R

LEMMA SortedExists ==
    ASSUME NEW S, IsFiniteSet(S), NEW R, Orders(R, S)
    PROVE  \E q : Sorts(q, S, R)
PROOF
<1> DEFINE Bad == {T \in SUBSET S : ~\E q : Sorts(q, T, R)}
           Sizes == {Cardinality(T) : T \in Bad}
<1> SUFFICES ASSUME Bad # {} PROVE FALSE
  OBVIOUS
<1>1. \A T \in SUBSET S : IsFiniteSet(T) /\ Cardinality(T) \in Nat /\ Orders(R, T)
  BY FS_Subset, FS_CardinalityType DEF Orders
<1>2. Sizes \subseteq Nat /\ Sizes # {}
  BY <1>1
<1>3. PICK n \in Sizes : \A k \in Sizes : n <= k
  <2> HIDE DEF Sizes
  <2> QED
    BY <1>2, LeastExists
<1>4. PICK T \in Bad : n = Cardinality(T)
  BY <1>3
<1>5. T # {}
  <2>1. Sorts([i \in 1..Cardinality({}) |-> 0], {}, R)
    BY FS_EmptySet DEF Sorts
  <2> QED
    BY <1>4, <2>1
<1>6. PICK m \in T : IsLast(m, T, R)
  BY <1>1, <1>4, <1>5, LastExists
<1>7. IsFiniteSet(T \ {m}) /\ Cardinality(T \ {m}) = n - 1 /\ n \in Nat
  BY <1>1, <1>4, FS_RemoveElement
<1>8. T \ {m} \notin Bad
  BY <1>3, <1>7
<1>9. PICK p : Sorts(p, T \ {m}, R)
  BY <1>4, <1>8
<1> DEFINE q == [i \in 1..n |-> IF i = n THEN m ELSE p[i]]
<1>10. p \in [1..(n - 1) -> T \ {m}]
  BY <1>7, <1>9 DEF Sorts
<1>11. \A i \in 1..n : i # n => i \in 1..(n - 1)
  BY <1>7
<1>12. q \in [1..Cardinality(T) -> T]
  BY <1>4, <1>10, <1>11
<1>13. ASSUME NEW i \in 1..n, NEW j \in 1..n, i < j
       PROVE  <<q[i], q[j]>> \in R
  <2>1. i \in 1..(n - 1) /\ q[i] = p[i] /\ p[i] \in T \ {m}
    BY <1>7, <1>10, <1>13
  <2>2. CASE j = n
    BY <1>6, <2>1, <2>2 DEF IsLast
  <2>3. CASE j # n
    <3>1. j \in 1..(n - 1) /\ q[j] = p[j]
      BY <1>11, <2>3
    <3> QED
      BY <1>9, <1>10, <1>13, <2>1, <3>1 DEF Sorts
  <2> QED
    BY <2>2, <2>3
<1>14. Sorts(q, T, R)
  BY <1>12, <1>13 DEF Sorts
<1> QED
  BY <1>4, <1>14

(* A sorted list of S has every member of S, if R puts none before itself. *)
LEMMA SortsEach ==
    ASSUME NEW S, IsFiniteSet(S), NEW R, \A x \in S : <<x, x>> \notin R,
           NEW q, Sorts(q, S, R)
    PROVE  \A x \in S : \E i \in DOMAIN q : q[i] = x
PROOF
<1> DEFINE n == Cardinality(S)
<1>1. n \in Nat /\ IsFiniteSet(1..n) /\ Cardinality(1..n) = n
  BY FS_CardinalityType, FS_Interval
<1>2. q \in [1..n -> S] /\ \A i, j \in 1..n : i < j => <<q[i], q[j]>> \in R
  BY DEF Sorts
<1> HIDE DEF n
<1>3. q \in Injection(1..n, S)
  <2>1. ASSUME NEW i \in 1..n, NEW j \in 1..n, q[i] = q[j] PROVE i = j
    <3>1. i < j \/ j < i \/ i = j
      BY <1>1
    <3>2. q[i] \in S /\ <<q[i], q[i]>> \notin R
      BY <1>2
    <3> QED
      BY <1>2, <2>1, <3>1, <3>2
  <2> QED
    BY <1>2, <2>1 DEF Injection, IsInjective
<1>4. q \in Surjection(1..n, S)
  BY <1>1, <1>3, FS_Injection DEF n
<1> QED
  BY <1>2, <1>4 DEF Surjection

-----------------------------------------------------------------------------
(* The conversations: a new number, a turn's place, the next to be read.   *)

Numbered == DOMAIN rows \subseteq 1..stored /\ DOMAIN threads \subseteq 1..stored

LEMMA NextIdIs ==
    ASSUME NEW table, NEW n \in Nat, DOMAIN table \subseteq 1..n
    PROVE  NextId(table) \in 1..(n + 1) /\ NextId(table) \notin DOMAIN table
PROOF
<1> DEFINE S == {0} \union DOMAIN table
<1>1. S \subseteq Int /\ S # {} /\ n \in Int
      /\ (\A x \in S : x <= n) /\ (\A x \in S : 0 <= x)
  OBVIOUS
<1>2. Max(S) \in S /\ \A x \in S : x <= Max(S)
  <2> HIDE DEF S
  <2> QED
    BY <1>1, MaxOf
<1>3. NextId(table) = 1 + Max(S)
  BY DEF NextId
<1> HIDE DEF S
<1>4. Max(S) \in Int /\ 0 <= Max(S) /\ Max(S) <= n
  BY <1>1, <1>2
<1>5. NextId(table) \in 1..(n + 1) /\ ~(NextId(table) <= Max(S))
  BY <1>3, <1>4
<1>6. NextId(table) \notin S
  BY <1>2, <1>5
<1> QED
  BY <1>5, <1>6 DEF S

LEMMA TypedTables ==
    ASSUME TypeOK
    PROVE  /\ IsFiniteSet(DOMAIN rows) /\ DOMAIN rows \subseteq Int
           /\ IsFiniteSet(DOMAIN threads) /\ DOMAIN threads \subseteq Int
           /\ \A t \in DOMAIN threads : threads[t] \in Threads /\ threads[t].ended \in Int
           /\ \A r \in DOMAIN rows : rows[r] \in Rows /\ rows[r].start \in Int
PROOF
<1>1. IsFiniteSet(Ids) /\ Ids \subseteq Int
  BY GraphAssumption, FS_Interval DEF Ids
<1>2. DOMAIN rows \subseteq Ids /\ DOMAIN threads \subseteq Ids
  BY DEF TypeOK
<1>3. \A t \in DOMAIN threads : threads[t] \in Threads
  BY DEF TypeOK
<1>4. \A r \in DOMAIN rows : rows[r] \in Rows
  BY DEF TypeOK
<1>5. \A t \in DOMAIN threads : threads[t].ended \in Int
  BY <1>3 DEF Threads
<1>6. \A r \in DOMAIN rows : rows[r].start \in Int
  BY <1>4 DEF Rows
<1> QED
  BY <1>1, <1>2, <1>3, <1>4, <1>5, <1>6, FS_Subset

LEMMA NearestIs ==
    ASSUME TypeOK, NEW open, open \subseteq DOMAIN threads, open # {}
    PROVE  Nearest(threads, open) \in open
PROOF
<1> DEFINE Before(t, u) == \/ threads[t].ended < threads[u].ended
                           \/ threads[t].ended = threads[u].ended /\ t < u
           R == {p \in open \X open : Before(p[1], p[2])}
<1>1. \A t, u \in open : <<t, u>> \in R <=> Before(t, u)
  OBVIOUS
<1>2. \A t \in open : t \in Int /\ threads[t].ended \in Int
  BY TypedTables
<1>3. Orders(R, open)
  <2> HIDE DEF R
  <2> QED
    BY <1>1, <1>2 DEF Orders
<1>4. IsFiniteSet(open)
  BY TypedTables, FS_Subset
<1> HIDE DEF R
<1>5. PICK m \in open : \A u \in open \ {m} : <<u, m>> \in R
  BY <1>3, <1>4, LastExists DEF IsLast
<1>6. \A u \in open : \/ threads[m].ended > threads[u].ended
                      \/ threads[m].ended = threads[u].ended /\ m >= u
  <2> SUFFICES ASSUME NEW u \in open
               PROVE  \/ threads[m].ended > threads[u].ended
                      \/ threads[m].ended = threads[u].ended /\ m >= u
    OBVIOUS
  <2>1. CASE u = m
    BY <1>2, <2>1
  <2>2. CASE u # m
    <3>1. <<u, m>> \in R
      BY <1>5, <2>2
    <3>2. Before(u, m)
      BY <1>1, <3>1
    <3> QED
      BY <1>2, <3>2
  <2> QED
    BY <2>1, <2>2
<1> QED
  BY <1>6 DEF Nearest

LEMMA PlaceIs ==
    ASSUME TypeOK, NEW turn
    PROVE  Place(rows, threads, turn) \in OpenThreads(threads, turn) \union {NewThread}
PROOF
<1> DEFINE open == OpenThreads(threads, turn)
           own == {t \in open : turn.voice \in Recent(rows, t)}
           candidates ==
             IF turn.voice = Nobody THEN open
             ELSE IF own # {} THEN own
             ELSE {t \in {u \in open : u = Nearest(threads, open)} :
                      ~Established(rows, t)}
<1>1. open \subseteq DOMAIN threads
  BY DEF OpenThreads
<1>2. candidates \subseteq open
  <2> HIDE DEF open
  <2> QED
    OBVIOUS
<1>3. Place(rows, threads, turn) =
        IF candidates = {} THEN NewThread ELSE Nearest(threads, candidates)
  BY DEF Place
<1> HIDE DEF candidates, open
<1>4. candidates # {} => Nearest(threads, candidates) \in candidates
  BY <1>1, <1>2, NearestIs
<1> QED
  BY <1>2, <1>3, <1>4 DEF open

LEMMA NewestFirstIs ==
    ASSUME TypeOK, NEW ids, ids \subseteq DOMAIN threads
    PROVE  NewestFirst(ids) \in Seq(ids)
PROOF
<1> DEFINE R == {p \in ids \X ids : Newer(p[1], p[2])}
<1>1. \A t, u \in ids : <<t, u>> \in R <=> Newer(t, u)
  OBVIOUS
<1>2. \A t \in ids : t \in Int /\ threads[t].ended \in Int
  BY TypedTables
<1>3. Orders(R, ids)
  <2> HIDE DEF R
  <2> QED
    BY <1>1, <1>2 DEF Orders, Newer
<1>4. IsFiniteSet(ids) /\ Cardinality(ids) \in Nat
  BY TypedTables, FS_Subset, FS_CardinalityType
<1> HIDE DEF R
<1>5. PICK q : Sorts(q, ids, R)
  BY <1>3, <1>4, SortedExists
<1>6. /\ q \in [1..Cardinality(ids) -> ids]
      /\ \A i, j \in DOMAIN q : i < j => Newer(q[i], q[j])
  BY <1>1, <1>5 DEF Sorts
<1>7. NewestFirst(ids) \in [1..Cardinality(ids) -> ids]
  BY <1>6 DEF NewestFirst
<1> QED
  BY <1>4, <1>7

LEMMA LinesOfAre ==
    ASSUME TypeOK, NEW t
    PROVE  /\ LinesOf(t) \in Seq(Lines)
           /\ \A l \in Range(LinesOf(t)) : l.row \in LiveRows(t)
           /\ \A r \in LiveRows(t) :
                [row |-> r, voice |-> rows[r].voice] \in Range(LinesOf(t))
           /\ \A i, j \in DOMAIN LinesOf(t) :
                i < j => Later(rows, LinesOf(t)[j].row, LinesOf(t)[i].row)
PROOF
<1> DEFINE S == LiveRows(t)
           R == {p \in S \X S : Later(rows, p[2], p[1])}
           said == CHOOSE q \in [1..Cardinality(S) -> S] :
                      \A i, j \in DOMAIN q : i < j => Later(rows, q[j], q[i])
<1>1. S \subseteq DOMAIN rows
  BY DEF LiveRows, Live
<1>2. \A r, q \in S : <<r, q>> \in R <=> Later(rows, q, r)
  OBVIOUS
<1>3. \A r \in S : r \in Int /\ rows[r].start \in Int /\ r \in Ids /\ rows[r].voice \in Parties
  <2>1. \A r \in S : rows[r] \in Rows /\ r \in Ids
    BY <1>1, TypedTables DEF TypeOK
  <2>2. \A r \in S : rows[r].voice \in Parties
    BY <2>1 DEF Rows
  <2> QED
    BY <1>1, <2>1, <2>2, TypedTables
<1>4. Orders(R, S)
  <2> HIDE DEF R, S
  <2> QED
    BY <1>2, <1>3 DEF Orders, Later
<1>5. IsFiniteSet(S) /\ Cardinality(S) \in Nat
  BY <1>1, TypedTables, FS_Subset, FS_CardinalityType
<1>6. LinesOf(t) = [i \in DOMAIN said |-> [row |-> said[i], voice |-> rows[said[i]].voice]]
  BY DEF LinesOf
<1>7. /\ said \in [1..Cardinality(S) -> S]
      /\ \A i, j \in DOMAIN said : i < j => Later(rows, said[j], said[i])
      /\ \A r \in S : \E i \in DOMAIN said : said[i] = r
  <2> HIDE DEF R, S
  <2>1. PICK q : Sorts(q, S, R)
    BY <1>4, <1>5, SortedExists
  <2>2. /\ q \in [1..Cardinality(S) -> S]
        /\ \A i, j \in DOMAIN q : i < j => Later(rows, q[j], q[i])
    BY <1>2, <2>1 DEF Sorts
  <2>3. /\ said \in [1..Cardinality(S) -> S]
        /\ \A i, j \in DOMAIN said : i < j => Later(rows, said[j], said[i])
    BY <2>2
  <2> HIDE DEF said
  <2>4. Sorts(said, S, R)
    BY <1>2, <2>3 DEF Sorts
  <2>5. \A r \in S : <<r, r>> \notin R
    BY <1>2, <1>3 DEF Later
  <2> QED
    BY <1>5, <2>3, <2>4, <2>5, SortsEach
<1> HIDE DEF said, R, S
<1>8. LinesOf(t) \in [1..Cardinality(S) -> Lines]
  <2>1. \A i \in 1..Cardinality(S) :
          [row |-> said[i], voice |-> rows[said[i]].voice] \in Lines
    BY <1>3, <1>7 DEF Lines
  <2> QED
    BY <1>6, <1>7, <2>1
<1>9. \A i \in DOMAIN LinesOf(t) : LinesOf(t)[i].row \in S
  BY <1>6, <1>7
<1>10. \A l \in Range(LinesOf(t)) : l.row \in S
  BY <1>9 DEF Range
<1>11. \A r \in S : [row |-> r, voice |-> rows[r].voice] \in Range(LinesOf(t))
  <2>1. ASSUME NEW r \in S
        PROVE  \E i \in DOMAIN LinesOf(t) :
                  LinesOf(t)[i] = [row |-> r, voice |-> rows[r].voice]
    <3>1. PICK i \in DOMAIN said : said[i] = r
      BY <1>7
    <3> QED
      BY <1>6, <3>1
  <2> QED
    BY <2>1 DEF Range
<1>12. \A i, j \in DOMAIN LinesOf(t) :
         i < j => Later(rows, LinesOf(t)[j].row, LinesOf(t)[i].row)
  BY <1>6, <1>7
<1> QED
  BY <1>5, <1>8, <1>10, <1>11, <1>12 DEF S

(* The model is given a conversation as it is: every line that is shown,   *)
(* with its voice, once, and each after the ones before it, lines of one   *)
(* moment included (Store::thread_lines, ORDER BY start, id).              *)
THEOREM EveryShownLineIsTaken ==
    ASSUME TypeOK, NEW t
    PROVE  /\ \A r \in LiveRows(t) : \E i \in DOMAIN LinesOf(t) :
                LinesOf(t)[i] = [row |-> r, voice |-> rows[r].voice]
           /\ \A i, j \in DOMAIN LinesOf(t) :
                i < j => Later(rows, LinesOf(t)[j].row, LinesOf(t)[i].row)
PROOF
BY LinesOfAre DEF Range

-----------------------------------------------------------------------------
(* What the model reads, and what is filed of its answers.                 *)

RowsIn(window) == {l.row : l \in Range(window)}

LEMMA StrideIs == Stride \in Nat \ {0}
PROOF
<1> DEFINE S == {1, Width - Overlap}
<1>1. Width \in Nat \ {0} /\ Overlap \in Nat
  BY GraphAssumption
<1>2. S \subseteq Int /\ S # {} /\ 1 \in S /\ Width + 1 \in Int
      /\ (\A x \in S : x <= Width + 1)
  BY <1>1
<1>3. Stride = Max(S)
  BY DEF Stride
<1> HIDE DEF S
<1>4. Max(S) \in S /\ 1 <= Max(S)
  BY <1>2, MaxOf
<1>5. Max(S) \in Int
  BY <1>2, <1>4
<1> QED
  BY <1>3, <1>4, <1>5

LEMMA WindowsAre ==
    ASSUME NEW lines \in Seq(Lines)
    PROVE  LET windows == Windows(lines) IN
           /\ windows \in Seq(Seq(Lines))
           /\ DOMAIN windows = 1..Len(windows) /\ Len(windows) \in Nat
           /\ \A i \in DOMAIN windows :
                /\ windows[i] \in Seq(Lines)
                /\ Range(windows[i]) \subseteq Range(lines)
PROOF
<1> DEFINE k == (Len(lines) + Stride - 1) \div Stride
           last == Min({MaxWindows, k})
           to(i) == Min({Len(lines), (i - 1) * Stride + Width})
           window(i) == SubSeq(lines, 1 + (i - 1) * Stride, to(i))
<1>1. Len(lines) \in Nat /\ DOMAIN lines = 1..Len(lines)
  OBVIOUS
<1>2. Stride \in Nat \ {0} /\ Width \in Nat /\ MaxWindows \in Nat
  BY StrideIs, GraphAssumption
<1>3. last \in Nat
  <2>1. Len(lines) + Stride - 1 \in Nat
    BY <1>1, <1>2
  <2>2. k \in Nat
    BY <1>2, <2>1
  <2> HIDE DEF k
  <2> QED
    BY <1>2, <2>2, MinOf
<1>4. Windows(lines) = [i \in 1..last |-> window(i)]
  BY DEF Windows
<1>5. ASSUME NEW i \in 1..last
      PROVE  /\ window(i) \in Seq(Lines)
             /\ Range(window(i)) \subseteq Range(lines)
  <2> DEFINE a == (i - 1) * Stride
  <2>1. a \in Nat
    <3>1. i - 1 \in Nat
      BY <1>3, <1>5
    <3> QED
      BY <1>2, <3>1
  <2>2. to(i) \in Int /\ to(i) <= Len(lines)
    <3>1. {Len(lines), a + Width} \subseteq Nat
      BY <1>1, <1>2, <2>1
    <3> HIDE DEF a
    <3>2. Min({Len(lines), a + Width}) \in {Len(lines), a + Width}
          /\ Min({Len(lines), a + Width}) <= Len(lines)
      BY <3>1, MinOf
    <3> QED
      BY <3>1, <3>2 DEF a
  <2> HIDE DEF a
  <2>3. \A j \in (1 + a)..to(i) : j \in DOMAIN lines
    BY <1>1, <2>1, <2>2
  <2>4. \A j \in (1 + a)..to(i) : lines[j] \in Range(lines)
    BY <2>3 DEF Range
  <2>5. SubSeq(lines, 1 + a, to(i)) \in Seq(Range(lines))
    <3>1. 1 + a \in Int
      BY <2>1
    <3> QED
      BY <2>2, <2>4, <3>1, SubSeqProperties
  <2>6. window(i) \in Seq(Range(lines))
    BY <2>5 DEF a
  <2>7. Range(lines) \subseteq Lines
    BY DEF Range
  <2> HIDE DEF window
  <2>8. DOMAIN window(i) = 1..Len(window(i))
        /\ \A j \in 1..Len(window(i)) : window(i)[j] \in Range(lines)
    BY <2>6
  <2>9. window(i) \in Seq(Lines)
    BY <2>6, <2>7
  <2> QED
    BY <2>8, <2>9 DEF Range
<1> HIDE DEF last, window
<1>6. [i \in 1..last |-> window(i)] \in Seq(Seq(Lines))
      /\ Len([i \in 1..last |-> window(i)]) = last
  BY <1>3, <1>5
<1> QED
  BY <1>3, <1>4, <1>5, <1>6

LEMMA RosterIs ==
    ASSUME NEW w \in Seq(Lines)
    PROVE  /\ Roster(w) \subseteq Voices
           /\ Cardinality(Roster(w)) \in Nat
PROOF
<1>1. \A i \in DOMAIN w : w[i].voice \in Parties
  <2>1. \A i \in DOMAIN w : w[i] \in Lines
    OBVIOUS
  <2> QED
    BY <2>1 DEF Lines
<1>2. Roster(w) = {w[i].voice : i \in DOMAIN w} \ {Nobody}
  BY DEF Roster, Range
<1>3. Roster(w) \subseteq Voices
  BY <1>1, <1>2 DEF Parties
<1> DEFINE S == {w[i].voice : i \in DOMAIN w}
           f == [i \in DOMAIN w |-> w[i].voice]
<1>4. IsFiniteSet(DOMAIN w)
  <2>1. DOMAIN w = 1..Len(w) /\ Len(w) \in Int
    OBVIOUS
  <2> QED
    BY <2>1, FS_Interval
<1>5. f \in Surjection(DOMAIN w, S)
  BY DEF Surjection
<1>6. IsFiniteSet(S)
  <2> HIDE DEF S, f
  <2> QED
    BY <1>4, <1>5, FS_Surjection
<1>7. IsFiniteSet(Roster(w))
  BY <1>2, <1>6, FS_Subset
<1> QED
  BY <1>3, <1>7, FS_CardinalityType

LEMMA FoundIs ==
    ASSUME NEW w \in Seq(Lines), NEW who \in Roster(w)
    PROVE  /\ Found(w, who).row \in RowsIn(w) /\ Found(w, who).row \in Ids
           /\ Found(w, who).who = who /\ who \in Voices
           /\ Found(w, who).to \in Parties
PROOF
<1> DEFINE S == {i \in DOMAIN w : w[i].voice = who}
           others == Roster(w) \ {who}
<1>1. Len(w) \in Int /\ DOMAIN w = 1..Len(w)
  OBVIOUS
<1>2. S \subseteq Int /\ S \subseteq DOMAIN w /\ \A i \in S : i <= Len(w)
  BY <1>1
<1>3. S # {}
  BY DEF Roster, Range
<1>4. Max(S) \in DOMAIN w
  <2> HIDE DEF S
  <2> QED
    BY <1>1, <1>2, <1>3, MaxOf
<1>5. Found(w, who).row = w[Max(S)].row /\ Found(w, who).who = who
  BY DEF Found
<1> HIDE DEF S
<1>6. Found(w, who).row \in RowsIn(w)
  BY <1>4, <1>5 DEF RowsIn, Range
<1>7. Found(w, who).row \in Ids
  <2>1. w[Max(S)] \in Lines
    BY <1>4
  <2> QED
    BY <1>5, <2>1 DEF Lines
<1>8. Found(w, who).to = IF Cardinality(others) = 1 THEN CHOOSE v \in others : TRUE
                         ELSE Nobody
  BY DEF Found
<1>9. Roster(w) \subseteq Voices
  BY RosterIs
<1>10. Cardinality(others) = 1 => others # {}
  <2> HIDE DEF others
  <2> QED
    BY FS_EmptySet
<1>11. Found(w, who).to \in Parties
  BY <1>8, <1>9, <1>10 DEF Parties
<1> QED
  BY <1>5, <1>6, <1>7, <1>9, <1>11

LEMMA Division ==
    ASSUME NEW a \in Nat, NEW b \in Nat \ {0}
    PROVE  a \div b \in Nat /\ b * (a \div b) <= a /\ a < b * (a \div b) + b
PROOF
OBVIOUS

LEMMA ProductGrows ==
    ASSUME NEW a \in Nat, NEW b \in Nat, NEW c \in Nat, a <= b
    PROVE  c * a <= c * b /\ c * a \in Nat /\ c * b \in Nat
PROOF
OBVIOUS

LEMMA ProductTells ==
    ASSUME NEW a \in Nat, NEW b \in Nat, NEW c \in Nat \ {0}, c * a < c * b + c
    PROVE  a <= b
PROOF
<1> SUFFICES ASSUME b + 1 <= a PROVE FALSE
  OBVIOUS
<1>1. c * (b + 1) <= c * a
  BY ProductGrows
<1>2. c * (b + 1) = c * b + c
  OBVIOUS
<1>3. c * a \in Int /\ c * b \in Int
  OBVIOUS
<1> QED
  BY <1>1, <1>2, <1>3

(* Window i, as long as it begins within the conversation.                 *)
LEMMA WindowSpans ==
    ASSUME NEW lines \in Seq(Lines), NEW i \in 1..MaxWindows,
           Stride * (i - 1) < Len(lines)
    PROVE  /\ i \in DOMAIN Windows(lines)
           /\ \A n \in 1..Len(lines) :
                Stride * (i - 1) < n /\ n <= Stride * (i - 1) + Width
                   => lines[n] \in Range(Windows(lines)[i])
PROOF
<1> DEFINE a == (i - 1) * Stride
           k == (Len(lines) + Stride - 1) \div Stride
           last == Min({MaxWindows, k})
           to == Min({Len(lines), a + Width})
<1>1. /\ Stride \in Nat \ {0} /\ MaxWindows \in Nat \ {0} /\ Width \in Nat
      /\ Len(lines) \in Nat
  BY StrideIs, GraphAssumption
<1>2. i \in Nat /\ i - 1 \in Nat /\ a \in Nat /\ a = Stride * (i - 1)
  BY <1>1
<1>3. Windows(lines)[i] = SubSeq(lines, 1 + a, to) \/ i \notin DOMAIN Windows(lines)
  BY DEF Windows
<1>4. DOMAIN Windows(lines) = 1..last
  BY DEF Windows
<1>5. k \in Nat /\ Len(lines) + Stride - 1 < Stride * k + Stride
  <2>1. Len(lines) + Stride - 1 \in Nat
    BY <1>1
  <2> QED
    BY <1>1, <2>1, Division
<1> HIDE DEF k
<1>6. i <= k
  <2>1. Stride * i = Stride * (i - 1) + Stride
    BY <1>1, <1>2
  <2>2. Stride * i \in Int /\ Stride * k \in Int /\ Stride * (i - 1) \in Int
    BY <1>1, <1>2, <1>5
  <2>3. Stride * i < Stride * k + Stride
    BY <1>1, <1>5, <2>1, <2>2
  <2> QED
    BY <1>1, <1>2, <1>5, <2>3, ProductTells
<1>7. i \in 1..last
  <2>1. {MaxWindows, k} \subseteq Nat
    BY <1>1, <1>5
  <2>2. last \in {MaxWindows, k}
    BY <2>1, MinOf
  <2> HIDE DEF last
  <2> QED
    BY <1>1, <1>2, <1>5, <1>6, <2>2
<1> HIDE DEF a
<1>8. to \in Nat /\ to <= Len(lines) /\ (to = Len(lines) \/ to = a + Width)
  <2> DEFINE bounds == {Len(lines), a + Width}
  <2>1. bounds \subseteq Nat /\ bounds # {} /\ Len(lines) \in bounds
    BY <1>1, <1>2
  <2>2. to = Min(bounds)
    OBVIOUS
  <2>3. \A b \in bounds : b = Len(lines) \/ b = a + Width
    OBVIOUS
  <2> HIDE DEF bounds, to
  <2>4. Min(bounds) \in bounds /\ Min(bounds) <= Len(lines)
    BY <2>1, MinOf
  <2> QED
    BY <2>1, <2>2, <2>3, <2>4
<1>9. i \in DOMAIN Windows(lines) /\ Windows(lines)[i] = SubSeq(lines, 1 + a, to)
  BY <1>3, <1>4, <1>7
<1> HIDE DEF to, last
<1>10. /\ SubSeq(lines, 1 + a, to) \in Seq(Lines)
       /\ Len(SubSeq(lines, 1 + a, to)) = IF 1 + a <= to THEN to - (1 + a) + 1 ELSE 0
       /\ \A m \in 1..(to - (1 + a) + 1) : SubSeq(lines, 1 + a, to)[m] = lines[1 + a + m - 1]
  <2>1. 1 + a \in Int /\ to \in Int /\ \A m \in (1 + a)..to : lines[m] \in Lines
    BY <1>1, <1>2, <1>8
  <2> QED
    BY <2>1, SubSeqProperties
<1> DEFINE w == SubSeq(lines, 1 + a, to)
<1>11. ASSUME NEW n \in 1..Len(lines), a < n, n <= a + Width
       PROVE  lines[n] \in Range(w)
  <2>1. n - a \in 1..(to - (1 + a) + 1) /\ n <= to
    BY <1>1, <1>2, <1>8, <1>11
  <2>2. 1 + a + (n - a) - 1 = n /\ 1 + a <= to
    BY <1>1, <1>2, <1>8, <1>11, <2>1
  <2>3. w[n - a] = lines[n] /\ n - a \in DOMAIN w
    <3>1. w \in Seq(Lines) /\ Len(w) = to - (1 + a) + 1
      BY <1>10, <2>2
    <3>2. DOMAIN w = 1..Len(w)
      BY <3>1
    <3> QED
      BY <1>10, <2>1, <2>2, <3>1, <3>2
  <2> QED
    BY <2>3 DEF Range
<1> QED
  BY <1>2, <1>9, <1>11

(* How many turns of a conversation its windows can take in.               *)
Reach == Stride * (MaxWindows - 1) + Width

(* No promise is split from the request before it (WINDOW_OVERLAP,         *)
(* enrich.rs): any turns that follow each other, one more than two windows *)
(* share, are together in a window, if windows are wider than what they    *)
(* share and the conversation's windows reach them.                        *)
THEOREM NothingIsSplit ==
    ASSUME NEW lines \in Seq(Lines), Overlap < Width,
           NEW j \in 1..Len(lines), NEW k \in j..Len(lines),
           k - j <= Overlap, k <= Reach
    PROVE  \E w \in Range(Windows(lines)) : \A n \in j..k : lines[n] \in Range(w)
PROOF
<1>1. /\ Stride \in Nat \ {0} /\ MaxWindows \in Nat \ {0} /\ Width \in Nat
      /\ Overlap \in Nat /\ Len(lines) \in Nat /\ j \in Nat \ {0} /\ k \in Nat
  BY StrideIs, GraphAssumption
<1>2. Stride = Width - Overlap
  <2> DEFINE S == {1, Width - Overlap}
  <2>1. S \subseteq Int /\ S # {} /\ \A x \in S : x <= Width - Overlap
    BY <1>1
  <2>2. Width - Overlap \in Int /\ Width - Overlap \in S
    BY <1>1
  <2> HIDE DEF S
  <2>3. Max(S) \in S /\ Width - Overlap <= Max(S)
    BY <2>1, <2>2, MaxOf
  <2>4. Max(S) \in Int /\ Max(S) <= Width - Overlap
    BY <2>1, <2>3
  <2>5. Max(S) = Width - Overlap
    BY <2>2, <2>3, <2>4
  <2> QED
    BY <2>5 DEF Stride, S
<1> DEFINE Fits(i) == /\ i \in 1..MaxWindows
                      /\ Stride * (i - 1) < j /\ k <= Stride * (i - 1) + Width
<1>3. \E i \in Nat : Fits(i)
  <2>1. CASE j <= Stride * MaxWindows
    <3> DEFINE d == (j - 1) \div Stride
    <3>1. d \in Nat /\ Stride * d <= j - 1 /\ j - 1 < Stride * d + Stride
      <4>1. j - 1 \in Nat
        BY <1>1
      <4> QED
        BY <1>1, <4>1, Division
    <3> HIDE DEF d
    <3>2. Stride * (d + 1) = Stride * d + Stride /\ Stride * d \in Nat
          /\ Stride * MaxWindows \in Nat
      BY <1>1, <3>1
    <3>3. d + 1 <= MaxWindows
      <4>1. Stride * (d + 1) < Stride * MaxWindows + Stride
        BY <1>1, <2>1, <3>1, <3>2
      <4>2. d + 1 \in Nat /\ MaxWindows \in Nat
        BY <1>1, <3>1
      <4> QED
        BY <1>1, <4>1, <4>2, ProductTells
    <3>4. k <= Stride * d + Width /\ Stride * d < j
      BY <1>1, <1>2, <3>1, <3>2
    <3>5. d + 1 \in 1..MaxWindows /\ (d + 1) - 1 = d
      BY <1>1, <3>1, <3>3
    <3> QED
      BY <3>4, <3>5
  <2>2. CASE ~(j <= Stride * MaxWindows)
    <3>1. Stride * (MaxWindows - 1) + Stride = Stride * MaxWindows
          /\ Stride * (MaxWindows - 1) \in Nat /\ Stride * MaxWindows \in Nat
      BY <1>1
    <3>2. Stride * (MaxWindows - 1) < j
      BY <1>1, <2>2, <3>1
    <3> QED
      BY <1>1, <3>2 DEF Reach
  <2> QED
    BY <2>1, <2>2
<1>4. PICK i \in Nat : Fits(i)
  BY <1>3
<1>5. Stride * (i - 1) \in Nat
  <2>1. i - 1 \in Nat
    BY <1>1, <1>4
  <2> QED
    BY <1>1, <2>1
<1>6. Stride * (i - 1) < Len(lines)
  BY <1>1, <1>4, <1>5
<1>7. \A n \in j..k : /\ n \in 1..Len(lines) /\ Stride * (i - 1) < n
                      /\ n <= Stride * (i - 1) + Width
  BY <1>1, <1>4, <1>5
<1>8. i \in DOMAIN Windows(lines)
      /\ \A n \in j..k : lines[n] \in Range(Windows(lines)[i])
  BY <1>4, <1>6, <1>7, WindowSpans
<1> QED
  BY <1>8 DEF Range

Tables == UNION {[d -> Promises] : d \in SUBSET Ids}

Follows(table, read) ==
    /\ DOMAIN promises \subseteq DOMAIN table
    /\ DOMAIN table \subseteq DOMAIN promises \union read
    /\ \A r \in DOMAIN promises :
          promises[r].state # "candidate" => table[r] = promises[r]
    /\ \A r \in DOMAIN table :
          {table[r].who, table[r].to} \subseteq bank \union {Nobody}

(* What filing may come to: the promises there were, those of lines that   *)
(* were read, what a person decided as it was, and nobody removed.         *)
Outcomes(read) == {d \in [ok : BOOLEAN, table : Tables] : Follows(d.table, read)}

LEMMA TablesAre ==
    ASSUME NEW table
    PROVE  table \in Tables <=>
              table \in [DOMAIN table -> Promises] /\ DOMAIN table \subseteq Ids
PROOF
BY DEF Tables

LEMMA FileOneIs ==
    ASSUME NEW read, NEW d \in Outcomes(read), NEW found,
           found.row \in read, found.row \in Ids, found.who \in Voices, found.to \in Parties
    PROVE  FileOne(d, found) \in Outcomes(read)
PROOF
<1> DEFINE r == found.row
           stays == r \in DOMAIN d.table /\ ~Outranks("llm", d.table[r])
<1>1. d.table \in Tables /\ d \in [ok : BOOLEAN, table : Tables] /\ Follows(d.table, read)
  BY DEF Outcomes
<1>2. d.table \in [DOMAIN d.table -> Promises] /\ DOMAIN d.table \subseteq Ids
  BY <1>1, TablesAre
<1>3. CASE ~d.ok \/ stays
  BY <1>3 DEF FileOne
<1>4. CASE d.ok /\ ~stays /\ ~Referable(found)
  <2>1. FileOne(d, found) = [ok |-> FALSE, table |-> d.table]
    BY <1>4 DEF FileOne
  <2> QED
    BY <1>1, <2>1 DEF Outcomes
<1>5. CASE d.ok /\ ~stays /\ Referable(found)
  <2> DEFINE new == [who |-> found.who, to |-> found.to, source |-> "llm",
                     state |-> IF r \in DOMAIN d.table THEN d.table[r].state
                               ELSE "candidate"]
             T == [q \in DOMAIN d.table \union {r} |->
                     IF q # r THEN d.table[q] ELSE new]
  <2>1. FileOne(d, found) = [ok |-> TRUE, table |-> T]
    <3>1. FileOne(d, found) =
            [ok |-> TRUE, table |-> Filed(d.table, r, found.who, found.to, "llm")]
      BY <1>5 DEF FileOne
    <3>2. Filed(d.table, r, found.who, found.to, "llm") = T
      BY <1>5 DEF Filed
    <3> QED
      BY <3>1, <3>2
  <2>2. new \in Promises
    <3>1. \A q \in DOMAIN d.table : d.table[q].state \in States
      BY <1>2 DEF Promises
    <3> QED
      BY <3>1 DEF Promises, States
  <2>3. DOMAIN T = DOMAIN d.table \union {r} /\ T[r] = new
        /\ \A q \in DOMAIN d.table : q # r => T[q] = d.table[q]
    OBVIOUS
  <2>4. T \in Tables
    <3>1. T \in [DOMAIN d.table \union {r} -> Promises]
      BY <1>2, <2>2
    <3> QED
      BY <1>2, <3>1 DEF Tables
  <2>5. {new.who, new.to} \subseteq bank \union {Nobody}
    BY <1>5 DEF Referable
  <2> HIDE DEF T, new
  <2>6. Follows(T, read)
    <3>1. DOMAIN promises \subseteq DOMAIN T
          /\ DOMAIN T \subseteq DOMAIN promises \union read
      BY <1>1, <2>3 DEF Follows
    <3>2. ASSUME NEW q \in DOMAIN promises, promises[q].state # "candidate"
          PROVE  T[q] = promises[q]
      <4>1. q \in DOMAIN d.table /\ d.table[q] = promises[q]
        BY <1>1, <3>2 DEF Follows
      <4>2. q # r
        BY <1>5, <3>2, <4>1 DEF Outranks
      <4> QED
        BY <2>3, <4>1, <4>2
    <3>3. ASSUME NEW q \in DOMAIN T
          PROVE  {T[q].who, T[q].to} \subseteq bank \union {Nobody}
      <4>1. CASE q = r
        BY <2>3, <2>5, <4>1
      <4>2. CASE q # r
        <5>1. q \in DOMAIN d.table /\ T[q] = d.table[q]
          BY <2>3, <4>2
        <5> QED
          BY <1>1, <5>1 DEF Follows
      <4> QED
        BY <4>1, <4>2
    <3> QED
      BY <3>1, <3>2, <3>3 DEF Follows
  <2> QED
    BY <2>1, <2>4, <2>6 DEF Outcomes
<1> QED
  BY <1>3, <1>4, <1>5

LEMMA FileFoundIs ==
    ASSUME TypeOK, RemovedVoicesAreGone, NEW windows \in Seq(Seq(Lines)),
           NEW verdicts, NEW read,
           \A i \in 1..Len(windows) :
              /\ RowsIn(windows[i]) \subseteq read
              /\ verdicts[i] \in Voices => verdicts[i] \in Roster(windows[i])
    PROVE  FileFound(windows, verdicts) \in Outcomes(read)
PROOF
<1> DEFINE X == Outcomes(read)
           n == Len(windows)
           first == [ok |-> TRUE, table |-> promises]
           more(i, d) == IF verdicts[i] \in Voices
                         THEN FileOne(d, Found(windows[i], verdicts[i])) ELSE d
           Recursion(f) == f = [i \in 0..n |->
                IF i = 0 THEN first
                ELSE IF verdicts[i] \in Voices
                     THEN FileOne(f[i - 1], Found(windows[i], verdicts[i]))
                ELSE f[i - 1]]
           done == CHOOSE f : Recursion(f)
<1>1. n \in Nat /\ \A i \in 1..n : windows[i] \in Seq(Lines)
  OBVIOUS
<1>2. FileFound(windows, verdicts) = done[n]
  BY DEF FileFound
<1>3. first \in X
  <2>1. promises \in Tables
    BY TablesAre DEF TypeOK
  <2>2. Follows(promises, read)
    BY DEF Follows, RemovedVoicesAreGone
  <2> QED
    BY <2>1, <2>2 DEF Outcomes
<1>4. \A i \in 1..n, d \in X : more(i, d) \in X
  <2> SUFFICES ASSUME NEW i \in 1..n, NEW d \in X, verdicts[i] \in Voices
               PROVE  FileOne(d, Found(windows[i], verdicts[i])) \in X
    OBVIOUS
  <2>1. windows[i] \in Seq(Lines) /\ verdicts[i] \in Roster(windows[i])
    BY <1>1
  <2>2. /\ Found(windows[i], verdicts[i]).row \in RowsIn(windows[i])
        /\ Found(windows[i], verdicts[i]).row \in Ids
        /\ Found(windows[i], verdicts[i]).who \in Voices
        /\ Found(windows[i], verdicts[i]).to \in Parties
    BY <2>1, FoundIs
  <2>3. RowsIn(windows[i]) \subseteq read
    OBVIOUS
  <2> QED
    BY <2>2, <2>3, FileOneIs
<1>5. PICK f : /\ f \in [0..n -> X] /\ f[0] = first
               /\ \A i \in 1..n : f[i] = more(i, f[i - 1])
  <2> DEFINE step == [x \in (1..n) \X X |-> more(x[1], x[2])]
  <2> HIDE DEF X, more, first
  <2>1. step \in [(1..n) \X X -> X]
    BY <1>4
  <2>2. \A i \in 1..n, d \in X : step[<<i, d>>] = more(i, d)
    OBVIOUS
  <2> HIDE DEF step, n
  <2>3. PICK f : Runs(f, X, first, step, n)
    BY <1>1, <1>3, <2>1, LoopExists
  <2>4. \A i \in 1..n : i - 1 \in 0..n
    BY <1>1
  <2>5. \A i \in 1..n : f[i] = more(i, f[i - 1])
    BY <2>2, <2>3, <2>4 DEF Runs
  <2> QED
    BY <2>3, <2>5 DEF Runs
<1> HIDE DEF X, first
<1>6. Recursion(f)
  <2>1. \A i \in 0..n :
           f[i] = IF i = 0 THEN first
                  ELSE IF verdicts[i] \in Voices
                       THEN FileOne(f[i - 1], Found(windows[i], verdicts[i]))
                  ELSE f[i - 1]
    <3>1. \A i \in 0..n : i = 0 \/ i \in 1..n
      BY <1>1
    <3> QED
      BY <1>5, <3>1
  <2>2. DOMAIN f = 0..n /\ f = [i \in DOMAIN f |-> f[i]]
    BY <1>5
  <2> HIDE DEF n
  <2> QED
    BY <2>1, <2>2
<1>7. Recursion(done)
  BY <1>6
<1> HIDE DEF done
<1>8. done[0] = first /\ \A i \in 1..n : done[i] = more(i, done[i - 1])
  <2>1. \A i \in 0..n :
           done[i] = IF i = 0 THEN first
                     ELSE IF verdicts[i] \in Voices
                          THEN FileOne(done[i - 1], Found(windows[i], verdicts[i]))
                     ELSE done[i - 1]
    BY <1>7
  <2>2. 0 \in 0..n /\ \A i \in 1..n : i \in 0..n /\ i # 0
    BY <1>1
  <2> QED
    BY <2>1, <2>2
<1> DEFINE Good == {i \in 0..n : done[i] \in X}
<1> HIDE DEF more, Recursion, n
<1>9. 0 \in Good
  BY <1>1, <1>3, <1>8
<1>10. \A i \in 1..n : i - 1 \in Good => i \in Good
  BY <1>1, <1>4, <1>8
<1>11. n \in Good
  <2> HIDE DEF Good
  <2>1. \A i \in 0..n : i \in Good
    BY <1>1, <1>9, <1>10, StepByStep
  <2> QED
    BY <1>1, <2>1
<1> QED
  BY <1>2, <1>11 DEF X

-----------------------------------------------------------------------------
(* The invariant.                                                          *)

LabelsAreKnown == \A r \in DOMAIN rows : rows[r].voice \in bank \union {Nobody}

(* Its session is the row's, unless that bridges, and it lasts as long.    *)
Covers(thread, row) ==
    /\ row.session \in Bridging \/ row.session = thread.session
    /\ row.end <= thread.ended

(* A line that is shown is in a conversation that exists and covers it,    *)
(* whatever was pruned and numbered anew (prune_empty_threads,             *)
(* purge_segments, delete_speaker, create_thread, set_segment_thread).     *)
ShownLinesHaveConversations ==
    \A r \in Live : /\ rows[r].thread \in DOMAIN threads
                    /\ Covers(threads[rows[r].thread], rows[r])

(* A promise is one that somebody said: its line is in the store, hidden   *)
(* at most, whatever was purged while the model was judging.               *)
PromisesHaveTheirLines == DOMAIN promises \subseteq DOMAIN rows

JudgedLinesAreThere == Judged \subseteq DOMAIN rows

IInv ==
    /\ TypeOK /\ Numbered /\ LabelsAreKnown
    /\ RemovedVoicesAreGone
    /\ ShownLinesHaveConversations
    /\ PromisesHaveTheirLines
    /\ JudgedLinesAreThere

LEMMA InitInvariant == Init => IInv
PROOF
<1> SUFFICES ASSUME Init PROVE IInv
  OBVIOUS
<1>1. /\ rows = <<>> /\ threads = <<>> /\ promises = <<>> /\ bank = Voices
      /\ paused = FALSE /\ worker = Idle /\ heard = [s \in Sessions |-> 0]
      /\ stored = 0 /\ upsets = 0
  BY DEF Init
<1>2. /\ DOMAIN rows = {} /\ DOMAIN threads = {} /\ DOMAIN promises = {}
      /\ rows \in [{} -> Rows] /\ threads \in [{} -> Threads]
      /\ promises \in [{} -> Promises]
  BY <1>1
<1>3. Judged = {}
  BY <1>1 DEF Judged, Idle
<1>4. TypeOK
  <2>1. heard \in [Sessions -> 0..MaxTime] /\ stored \in 0..MaxTurns
        /\ upsets \in 0..MaxUpsets
    BY <1>1, GraphAssumption
  <2>2. worker \in Workers
    BY <1>1 DEF Workers
  <2> QED
    BY <1>1, <1>2, <2>1, <2>2 DEF TypeOK
<1> QED
  BY <1>2, <1>3, <1>4 DEF IInv, Numbered, LabelsAreKnown, RemovedVoicesAreGone,
     ShownLinesHaveConversations, PromisesHaveTheirLines, JudgedLinesAreThere, Live

LEMMA WorkerIs ==
    ASSUME worker \in Workers
    PROVE  /\ worker.at \in {"idle", "batch", "judging"}
           /\ worker.at = "batch" =>
                 worker \in [at : {"batch"}, queue : Seq(Ids)]
           /\ worker.at = "judging" =>
                 worker \in [at : {"judging"}, queue : Seq(Ids), thread : Ids,
                             lines : Seq(Lines)]
PROOF
BY DEF Workers, Idle

(* A step that touches neither the library nor the clock.                  *)
LEMMA LibraryKept ==
    ASSUME IInv, UNCHANGED <<library, heard, stored>>, worker' \in Workers,
           paused' \in BOOLEAN, upsets' \in 0..MaxUpsets, Judged' \subseteq DOMAIN rows
    PROVE  IInv'
PROOF
<1>1. /\ rows' = rows /\ threads' = threads /\ promises' = promises /\ bank' = bank
      /\ heard' = heard /\ stored' = stored
  BY DEF library
<1>2. TypeOK'
  BY <1>1 DEF IInv, TypeOK
<1>3. Numbered' /\ LabelsAreKnown' /\ RemovedVoicesAreGone'
  BY <1>1 DEF IInv, Numbered, LabelsAreKnown, RemovedVoicesAreGone
<1>4. ShownLinesHaveConversations' /\ PromisesHaveTheirLines' /\ JudgedLinesAreThere'
  BY <1>1 DEF IInv, ShownLinesHaveConversations, PromisesHaveTheirLines,
     JudgedLinesAreThere, Live
<1> QED
  BY <1>2, <1>3, <1>4 DEF IInv

LEMMA TakeBatchStep ==
    ASSUME IInv, TakeBatch
    PROVE  IInv'
PROOF
<1> DEFINE ids == NewestFirst(Waiting)
           n == Min({Batch, Len(ids)})
<1>1. ids \in Seq(DOMAIN threads) /\ DOMAIN threads \subseteq Ids
  <2>1. TypeOK /\ Waiting \subseteq DOMAIN threads
    BY DEF IInv, Waiting
  <2>2. ids \in Seq(Waiting)
    BY <2>1, NewestFirstIs
  <2> HIDE DEF ids
  <2> QED
    BY <2>1, <2>2 DEF TypeOK
<1>2. /\ worker' = [at |-> "batch", queue |-> SubSeq(ids, 1, n)]
      /\ UNCHANGED <<library, heard, stored>> /\ paused' = paused /\ upsets' = upsets
  BY DEF TakeBatch
<1> HIDE DEF ids
<1>3. n \in Int /\ n <= Len(ids)
  <2>1. {Batch, Len(ids)} \subseteq Nat
    BY <1>1, GraphAssumption
  <2> QED
    BY <2>1, MinOf
<1> HIDE DEF n
<1>4. SubSeq(ids, 1, n) \in Seq(Ids)
  <2>1. \A i \in 1..n : ids[i] \in Ids
    BY <1>1, <1>3
  <2> QED
    BY <1>3, <2>1, SubSeqProperties
<1>5. worker' \in Workers
  BY <1>2, <1>4 DEF Workers
<1>6. Judged' = {}
  BY <1>2 DEF Judged
<1> QED
  BY <1>2, <1>5, <1>6, LibraryKept DEF IInv, TypeOK

LEMMA StandDownStep ==
    ASSUME IInv, StandDown \/ EndBatch
    PROVE  IInv'
PROOF
<1>1. /\ worker' = Idle /\ UNCHANGED <<library, heard, stored>> /\ paused' = paused
      /\ \/ upsets' = upsets
         \/ upsets < MaxUpsets /\ upsets' = upsets + 1
  <2>1. CASE StandDown
    BY <2>1 DEF StandDown
  <2>2. CASE EndBatch
    BY <2>2 DEF EndBatch
  <2> QED
    BY <2>1, <2>2
<1>2. worker' \in Workers /\ Judged' = {}
  BY <1>1 DEF Workers, Judged, Idle
<1>3. upsets' \in 0..MaxUpsets /\ paused' \in BOOLEAN
  <2>1. upsets \in 0..MaxUpsets /\ paused \in BOOLEAN
    BY DEF IInv, TypeOK
  <2> QED
    BY <1>1, <2>1, GraphAssumption
<1> QED
  BY <1>1, <1>2, <1>3, LibraryKept

LEMMA JudgeFailsStep ==
    ASSUME IInv, JudgeFails
    PROVE  IInv'
PROOF
<1>1. /\ worker.at = "judging" /\ worker' = [at |-> "batch", queue |-> worker.queue]
      /\ UNCHANGED <<library, heard, stored>> /\ paused' = paused
      /\ upsets < MaxUpsets /\ upsets' = upsets + 1
  BY DEF JudgeFails, NextConversation
<1>2. worker \in Workers /\ upsets \in 0..MaxUpsets /\ paused \in BOOLEAN
  BY DEF IInv, TypeOK
<1>3. worker.queue \in Seq(Ids)
  BY <1>1, <1>2, WorkerIs
<1>4. worker' \in Workers /\ Judged' = {}
  BY <1>1, <1>3 DEF Workers, Judged
<1>5. upsets' \in 0..MaxUpsets
  BY <1>1, <1>2, GraphAssumption
<1> QED
  BY <1>1, <1>2, <1>4, <1>5, LibraryKept

LEMMA PauseStep ==
    ASSUME IInv, Pause
    PROVE  IInv'
PROOF
<1>1. /\ UNCHANGED <<library, heard, stored>> /\ worker' = worker /\ upsets' = upsets
      /\ paused' = ~paused
  BY DEF Pause
<1>2. Judged' \subseteq DOMAIN rows
  BY <1>1 DEF IInv, JudgedLinesAreThere, Judged
<1>3. worker' \in Workers /\ paused' \in BOOLEAN /\ upsets' \in 0..MaxUpsets
  BY <1>1 DEF IInv, TypeOK
<1> QED
  BY <1>1, <1>2, <1>3, LibraryKept

-----------------------------------------------------------------------------
(* What a person and the sweep do.                                         *)

LEMMA WithoutIs ==
    ASSUME NEW table, NEW ids, NEW S, table \in [DOMAIN table -> S]
    PROVE  /\ DOMAIN Without(table, ids) = DOMAIN table \ ids
           /\ Without(table, ids) \in [DOMAIN Without(table, ids) -> S]
           /\ \A x \in DOMAIN Without(table, ids) : Without(table, ids)[x] = table[x]
PROOF
BY DEF Without

LEMMA DecideStep ==
    ASSUME IInv, NEW r, NEW state \in States, Decide(r, state)
    PROVE  IInv'
PROOF
<1>1. /\ r \in DOMAIN promises
      /\ promises' = [promises EXCEPT ![r].state = state]
      /\ rows' = rows /\ threads' = threads /\ bank' = bank /\ paused' = paused
      /\ worker' = worker /\ heard' = heard /\ stored' = stored /\ upsets' = upsets
  BY DEF Decide
<1>2. promises \in [DOMAIN promises -> Promises]
  BY DEF IInv, TypeOK
<1>3. /\ DOMAIN promises' = DOMAIN promises
      /\ promises' \in [DOMAIN promises -> Promises]
      /\ \A q \in DOMAIN promises :
            promises'[q].who = promises[q].who /\ promises'[q].to = promises[q].to
  <2> DEFINE new == [promises[r] EXCEPT !.state = state]
  <2>1. new \in Promises /\ new.who = promises[r].who /\ new.to = promises[r].to
    BY <1>1, <1>2 DEF Promises
  <2>2. promises' = [promises EXCEPT ![r] = new]
    BY <1>1
  <2> HIDE DEF new
  <2> QED
    BY <1>1, <1>2, <2>1, <2>2
<1>4. TypeOK'
  BY <1>1, <1>3 DEF IInv, TypeOK
<1>5. RemovedVoicesAreGone'
  BY <1>1, <1>3 DEF IInv, RemovedVoicesAreGone
<1>6. Judged' = Judged
  BY <1>1 DEF Judged
<1>7. Numbered' /\ LabelsAreKnown' /\ ShownLinesHaveConversations'
      /\ PromisesHaveTheirLines' /\ JudgedLinesAreThere'
  BY <1>1, <1>3, <1>6 DEF IInv, Numbered, LabelsAreKnown, ShownLinesHaveConversations,
     PromisesHaveTheirLines, JudgedLinesAreThere, Live
<1> QED
  BY <1>4, <1>5, <1>7 DEF IInv

LEMMA DeleteLinesStep ==
    ASSUME IInv, NEW batch, DeleteLines(batch)
    PROVE  IInv'
PROOF
<1>1. /\ rows' = [r \in DOMAIN rows |->
                   IF r \in batch THEN [rows[r] EXCEPT !.live = FALSE] ELSE rows[r]]
      /\ threads' = threads /\ promises' = promises /\ bank' = bank /\ paused' = paused
      /\ worker' = worker /\ heard' = heard /\ stored' = stored /\ upsets' = upsets
  BY DEF DeleteLines
<1>2. rows \in [DOMAIN rows -> Rows]
  BY DEF IInv, TypeOK
<1>3. /\ DOMAIN rows' = DOMAIN rows
      /\ \A r \in DOMAIN rows :
           /\ rows'[r] \in Rows
           /\ rows'[r].voice = rows[r].voice /\ rows'[r].thread = rows[r].thread
           /\ rows'[r].session = rows[r].session /\ rows'[r].end = rows[r].end
           /\ rows'[r].live => rows[r].live
  <2>1. \A r \in DOMAIN rows :
           LET hidden == [rows[r] EXCEPT !.live = FALSE] IN
           /\ hidden \in Rows /\ hidden.voice = rows[r].voice
           /\ hidden.thread = rows[r].thread /\ hidden.session = rows[r].session
           /\ hidden.end = rows[r].end /\ ~hidden.live
    BY <1>2 DEF Rows
  <2> QED
    BY <1>1, <1>2, <2>1
<1>4. rows' \in [DOMAIN rows' -> Rows]
  BY <1>1, <1>3
<1>5. TypeOK'
  BY <1>1, <1>3, <1>4 DEF IInv, TypeOK
<1>6. ShownLinesHaveConversations'
  BY <1>1, <1>3 DEF IInv, ShownLinesHaveConversations, Live, Covers
<1>7. Judged' = Judged
  BY <1>1 DEF Judged
<1>8. Numbered' /\ LabelsAreKnown' /\ RemovedVoicesAreGone'
      /\ PromisesHaveTheirLines' /\ JudgedLinesAreThere'
  BY <1>1, <1>3, <1>7 DEF IInv, Numbered, LabelsAreKnown, RemovedVoicesAreGone,
     PromisesHaveTheirLines, JudgedLinesAreThere
<1> QED
  BY <1>5, <1>6, <1>8 DEF IInv

(* A conversation with a line that is shown is not pruned.                 *)
LEMMA PrunedIs ==
    ASSUME NEW transcript, threads \in [DOMAIN threads -> Threads]
    PROVE  LET left == Pruned(threads, transcript) IN
           /\ left \in [DOMAIN left -> Threads] /\ DOMAIN left \subseteq DOMAIN threads
           /\ \A t \in DOMAIN left : left[t] = threads[t]
           /\ \A r \in DOMAIN transcript :
                transcript[r].live /\ transcript[r].thread \in DOMAIN threads
                  => transcript[r].thread \in DOMAIN left
PROOF
<1> DEFINE empty == {t \in DOMAIN threads : ~\E r \in DOMAIN transcript :
                         transcript[r].thread = t /\ transcript[r].live}
<1>1. Pruned(threads, transcript) = Without(threads, empty)
  BY DEF Pruned
<1>2. \A r \in DOMAIN transcript : transcript[r].live => transcript[r].thread \notin empty
  OBVIOUS
<1> HIDE DEF empty
<1> DEFINE left == Without(threads, empty)
<1>3. /\ DOMAIN left = DOMAIN threads \ empty
      /\ left \in [DOMAIN left -> Threads]
      /\ \A t \in DOMAIN left : left[t] = threads[t]
  BY WithoutIs
<1> HIDE DEF left
<1> QED
  BY <1>1, <1>2, <1>3 DEF left

LEMMA PruneStep ==
    ASSUME IInv, Prune
    PROVE  IInv'
PROOF
<1>1. /\ threads' = Pruned(threads, rows)
      /\ rows' = rows /\ promises' = promises /\ bank' = bank /\ paused' = paused
      /\ worker' = worker /\ heard' = heard /\ stored' = stored /\ upsets' = upsets
  BY DEF Prune
<1>2. /\ threads' \in [DOMAIN threads' -> Threads]
      /\ DOMAIN threads' \subseteq DOMAIN threads
      /\ \A t \in DOMAIN threads' : threads'[t] = threads[t]
      /\ \A r \in DOMAIN rows : rows[r].live /\ rows[r].thread \in DOMAIN threads
            => rows[r].thread \in DOMAIN threads'
  BY <1>1, PrunedIs DEF IInv, TypeOK
<1>3. TypeOK'
  BY <1>1, <1>2 DEF IInv, TypeOK
<1>4. ShownLinesHaveConversations'
  BY <1>1, <1>2 DEF IInv, ShownLinesHaveConversations, Live
<1>5. Judged' = Judged
  BY <1>1 DEF Judged
<1>6. Numbered' /\ LabelsAreKnown' /\ RemovedVoicesAreGone'
      /\ PromisesHaveTheirLines' /\ JudgedLinesAreThere'
  BY <1>1, <1>2, <1>5 DEF IInv, Numbered, LabelsAreKnown, RemovedVoicesAreGone,
     PromisesHaveTheirLines, JudgedLinesAreThere
<1> QED
  BY <1>3, <1>4, <1>6 DEF IInv

LEMMA DeleteVoiceStep ==
    ASSUME IInv, NEW v \in Voices, NEW keep \in BOOLEAN, DeleteVoice(v, keep)
    PROVE  IInv'
PROOF
<1> DEFINE said == {r \in DOMAIN rows : rows[r].voice = v}
           owed == {r \in DOMAIN promises : v \in {promises[r].who, promises[r].to}}
           hidden == [r \in DOMAIN rows |->
                        IF r \notin said THEN rows[r]
                        ELSE [rows[r] EXCEPT
                                !.live = FALSE,
                                !.voice = IF keep THEN v ELSE Nobody]]
<1>1. /\ v \in bank /\ rows' = hidden
      /\ promises' = Without(promises, said \union owed)
      /\ bank' = IF keep THEN bank ELSE bank \ {v}
      /\ threads' = Pruned(threads, hidden)
      /\ paused' = paused /\ worker' = worker /\ heard' = heard /\ stored' = stored
      /\ upsets' = upsets
  BY DEF DeleteVoice
<1>2. /\ rows \in [DOMAIN rows -> Rows] /\ DOMAIN rows \subseteq Ids
      /\ threads \in [DOMAIN threads -> Threads] /\ DOMAIN threads \subseteq Ids
      /\ promises \in [DOMAIN promises -> Promises] /\ DOMAIN promises \subseteq Ids
      /\ bank \subseteq Voices
  BY DEF IInv, TypeOK
<1>3. /\ DOMAIN hidden = DOMAIN rows
      /\ \A r \in DOMAIN rows : hidden[r] \in Rows /\ hidden[r].thread = rows[r].thread
      /\ \A r \in DOMAIN rows \ said : hidden[r] = rows[r]
      /\ \A r \in said : ~hidden[r].live /\ hidden[r].voice = IF keep THEN v ELSE Nobody
  <2>1. \A r \in DOMAIN rows :
           LET cut == [rows[r] EXCEPT !.live = FALSE,
                                      !.voice = IF keep THEN v ELSE Nobody]
           IN  /\ cut \in Rows /\ cut.thread = rows[r].thread /\ ~cut.live
               /\ cut.voice = IF keep THEN v ELSE Nobody
    BY <1>2 DEF Rows, Parties
  <2> QED
    BY <1>2, <2>1
<1>4. hidden \in [DOMAIN hidden -> Rows]
  BY <1>3
<1> HIDE DEF hidden
<1>5. /\ threads' \in [DOMAIN threads' -> Threads]
      /\ DOMAIN threads' \subseteq DOMAIN threads
      /\ \A t \in DOMAIN threads' : threads'[t] = threads[t]
      /\ \A r \in DOMAIN hidden : hidden[r].live /\ hidden[r].thread \in DOMAIN threads
            => hidden[r].thread \in DOMAIN threads'
  BY <1>1, <1>2, PrunedIs
<1>6. /\ DOMAIN promises' = DOMAIN promises \ (said \union owed)
      /\ promises' \in [DOMAIN promises' -> Promises]
      /\ \A r \in DOMAIN promises' : promises'[r] = promises[r]
  <2> HIDE DEF said, owed
  <2>1. promises \in [DOMAIN promises -> Promises]
    BY <1>2
  <2> DEFINE kept == Without(promises, said \union owed)
  <2>2. /\ DOMAIN kept = DOMAIN promises \ (said \union owed)
        /\ kept \in [DOMAIN kept -> Promises]
        /\ \A r \in DOMAIN kept : kept[r] = promises[r]
    BY <2>1, WithoutIs
  <2>3. promises' = kept
    BY <1>1
  <2> HIDE DEF kept
  <2> QED
    BY <2>2, <2>3
<1>7. TypeOK'
  <2>1. bank' \subseteq Voices
    BY <1>1, <1>2
  <2>2. rows' \in [DOMAIN rows' -> Rows] /\ DOMAIN rows' \subseteq Ids
    BY <1>1, <1>2, <1>3, <1>4
  <2>3. DOMAIN threads' \subseteq Ids /\ DOMAIN promises' \subseteq Ids
    BY <1>2, <1>5, <1>6
  <2> QED
    BY <1>1, <1>5, <1>6, <2>1, <2>2, <2>3 DEF IInv, TypeOK
<1>8. LabelsAreKnown'
  <2> SUFFICES ASSUME NEW r \in DOMAIN rows
               PROVE  hidden[r].voice \in bank' \union {Nobody}
    BY <1>1, <1>3 DEF LabelsAreKnown
  <2>1. CASE r \in said
    BY <1>1, <1>3, <2>1
  <2>2. CASE r \notin said
    <3>1. hidden[r].voice = rows[r].voice /\ rows[r].voice # v
      BY <1>3, <2>2
    <3>2. rows[r].voice \in bank \union {Nobody}
      BY DEF IInv, LabelsAreKnown
    <3> QED
      BY <1>1, <3>1, <3>2
  <2> QED
    BY <2>1, <2>2
<1>9. RemovedVoicesAreGone'
  <2> SUFFICES ASSUME NEW r \in DOMAIN promises'
               PROVE  {promises'[r].who, promises'[r].to} \subseteq bank' \union {Nobody}
    BY DEF RemovedVoicesAreGone
  <2>1. r \in DOMAIN promises /\ r \notin owed /\ promises'[r] = promises[r]
    BY <1>6
  <2>2. {promises[r].who, promises[r].to} \subseteq bank \union {Nobody}
    BY <2>1 DEF IInv, RemovedVoicesAreGone
  <2>3. v \notin {promises[r].who, promises[r].to}
    BY <2>1
  <2> QED
    BY <1>1, <2>1, <2>2, <2>3
<1>10. ShownLinesHaveConversations'
  <2> SUFFICES ASSUME NEW r \in DOMAIN hidden, hidden[r].live
               PROVE  /\ hidden[r].thread \in DOMAIN threads'
                      /\ Covers(threads'[hidden[r].thread], hidden[r])
    BY <1>1 DEF ShownLinesHaveConversations, Live
  <2>1. r \in DOMAIN rows /\ rows[r].live /\ hidden[r] = rows[r]
    BY <1>3
  <2>2. rows[r].thread \in DOMAIN threads /\ Covers(threads[rows[r].thread], rows[r])
    BY <2>1 DEF IInv, ShownLinesHaveConversations, Live
  <2>3. rows[r].thread \in DOMAIN threads'
    BY <1>5, <2>1, <2>2
  <2> QED
    BY <1>5, <2>1, <2>2, <2>3
<1>11. Judged' = Judged
  BY <1>1 DEF Judged
<1>12. Numbered' /\ PromisesHaveTheirLines' /\ JudgedLinesAreThere'
  BY <1>1, <1>3, <1>5, <1>6, <1>11 DEF IInv, Numbered, PromisesHaveTheirLines,
     JudgedLinesAreThere
<1> QED
  BY <1>7, <1>8, <1>9, <1>10, <1>12 DEF IInv

LEMMA PurgeStep ==
    ASSUME IInv, NEW batch, batch \subseteq DOMAIN rows \ (Live \union Judged), Purge(batch)
    PROVE  IInv'
PROOF
<1> DEFINE left == Without(rows, batch)
           gone == {t \in DOMAIN threads : ~\E r \in DOMAIN left : left[r].thread = t}
<1>1. /\ rows' = left /\ promises' = Without(promises, batch)
      /\ threads' = Without(threads, gone)
      /\ bank' = bank /\ paused' = paused /\ worker' = worker /\ heard' = heard
      /\ stored' = stored /\ upsets' = upsets
  BY DEF Purge
<1>2. /\ rows \in [DOMAIN rows -> Rows] /\ threads \in [DOMAIN threads -> Threads]
      /\ promises \in [DOMAIN promises -> Promises]
  BY DEF IInv, TypeOK
<1>3. /\ DOMAIN left = DOMAIN rows \ batch /\ left \in [DOMAIN left -> Rows]
      /\ \A r \in DOMAIN left : left[r] = rows[r]
  BY <1>2, WithoutIs
<1>4. /\ DOMAIN promises' = DOMAIN promises \ batch
      /\ promises' \in [DOMAIN promises' -> Promises]
      /\ \A r \in DOMAIN promises' : promises'[r] = promises[r]
  <2>1. promises \in [DOMAIN promises -> Promises]
    BY <1>2
  <2> DEFINE kept == Without(promises, batch)
  <2>2. /\ DOMAIN kept = DOMAIN promises \ batch
        /\ kept \in [DOMAIN kept -> Promises]
        /\ \A r \in DOMAIN kept : kept[r] = promises[r]
    BY <2>1, WithoutIs
  <2>3. promises' = kept
    BY <1>1
  <2> HIDE DEF kept
  <2> QED
    BY <2>2, <2>3
<1> HIDE DEF left
<1>5. DOMAIN threads' = DOMAIN threads \ gone
      /\ threads' \in [DOMAIN threads' -> Threads]
      /\ \A t \in DOMAIN threads' : threads'[t] = threads[t]
  <2> HIDE DEF gone
  <2>1. threads \in [DOMAIN threads -> Threads]
    BY <1>2
  <2> DEFINE kept == Without(threads, gone)
  <2>2. /\ DOMAIN kept = DOMAIN threads \ gone
        /\ kept \in [DOMAIN kept -> Threads]
        /\ \A t \in DOMAIN kept : kept[t] = threads[t]
    BY <2>1, WithoutIs
  <2>3. threads' = kept
    BY <1>1
  <2> HIDE DEF kept
  <2> QED
    BY <2>2, <2>3
<1>6. TypeOK'
  BY <1>1, <1>3, <1>4, <1>5 DEF IInv, TypeOK
<1>7. LabelsAreKnown' /\ RemovedVoicesAreGone'
  BY <1>1, <1>3, <1>4 DEF IInv, LabelsAreKnown, RemovedVoicesAreGone
<1>8. ShownLinesHaveConversations'
  <2> SUFFICES ASSUME NEW r \in DOMAIN left, left[r].live
               PROVE  /\ left[r].thread \in DOMAIN threads'
                      /\ Covers(threads'[left[r].thread], left[r])
    BY <1>1 DEF ShownLinesHaveConversations, Live
  <2>1. left[r].thread \in DOMAIN threads /\ Covers(threads[left[r].thread], left[r])
    BY <1>3 DEF IInv, ShownLinesHaveConversations, Live
  <2>2. left[r].thread \in DOMAIN threads'
    BY <1>5, <2>1
  <2> QED
    BY <1>5, <2>1, <2>2
<1>9. Judged' = Judged
  BY <1>1 DEF Judged
<1>10. Numbered' /\ PromisesHaveTheirLines' /\ JudgedLinesAreThere'
  BY <1>1, <1>3, <1>4, <1>5, <1>9 DEF IInv, Numbered, PromisesHaveTheirLines,
     JudgedLinesAreThere
<1> QED
  BY <1>6, <1>7, <1>8, <1>10 DEF IInv

-----------------------------------------------------------------------------
(* What the recorder and the worker add.                                   *)

LEMMA MaxOfTwo ==
    ASSUME NEW n \in Nat, NEW a \in 0..n, NEW b \in 0..n
    PROVE  /\ Max({a, b}) \in 0..n
           /\ a <= Max({a, b}) /\ b <= Max({a, b})
PROOF
<1>1. {a, b} \subseteq Int /\ {a, b} # {} /\ \A x \in {a, b} : x <= n
  OBVIOUS
<1>2. n \in Int
  OBVIOUS
<1>3. Max({a, b}) \in {a, b} /\ \A x \in {a, b} : x <= Max({a, b})
  BY <1>1, <1>2, MaxOf
<1> QED
  BY <1>3

LEMMA StoreTurnStep ==
    ASSUME IInv, stored < MaxTurns,
           NEW session \in Sessions, NEW voice \in bank \union {Nobody},
           NEW start \in 0..MaxTime, NEW end \in 0..MaxTime, NEW guess \in BOOLEAN,
           StoreTurn([session |-> session, voice |-> voice,
                      start |-> start, end |-> end], guess)
    PROVE  IInv'
PROOF
<1> DEFINE turn == [session |-> session, voice |-> voice, start |-> start, end |-> end]
           place == Place(rows, threads, turn)
           t == IF place = NewThread THEN NextId(threads) ELSE place
           r == NextId(rows)
           opened == [session |-> turn.session, started |-> turn.start,
                      ended |-> turn.end, walked |-> FALSE]
           thread == IF place = NewThread THEN opened
                     ELSE [threads[t] EXCEPT !.ended = Max({@, turn.end})]
           row == [session |-> turn.session, voice |-> turn.voice, start |-> turn.start,
                   end |-> turn.end, thread |-> t, live |-> TRUE]
           others == {rows[q].voice : q \in LiveRows(t)} \ {Nobody, turn.voice}
           to == IF Cardinality(others) = 1 THEN CHOOSE v \in others : TRUE ELSE Nobody
<1>1. /\ stored' = stored + 1 /\ heard' = [heard EXCEPT ![session] = end]
      /\ rows' = [q \in DOMAIN rows \union {r} |-> IF q # r THEN rows[q] ELSE row]
      /\ threads' = [u \in DOMAIN threads \union {t} |-> IF u # t THEN threads[u] ELSE thread]
      /\ \/ promises' = promises
         \/ /\ turn.voice # Nobody /\ others # {}
            /\ promises' = Filed(promises, r, turn.voice, to, "rules")
      /\ bank' = bank /\ paused' = paused /\ worker' = worker /\ upsets' = upsets
  <2>1. /\ stored' = stored + 1 /\ heard' = [heard EXCEPT ![turn.session] = turn.end]
        /\ rows' = [q \in DOMAIN rows \union {r} |-> IF q # r THEN rows[q] ELSE row]
        /\ bank' = bank /\ paused' = paused /\ worker' = worker /\ upsets' = upsets
    BY DEF StoreTurn
  <2>2. threads' = [u \in DOMAIN threads \union {t} |-> IF u # t THEN threads[u] ELSE thread]
    BY DEF StoreTurn
  <2>3. \/ promises' = promises
        \/ /\ turn.voice # Nobody /\ others # {}
           /\ promises' = Filed(promises, r, turn.voice, to, "rules")
    BY DEF StoreTurn
  <2> QED
    BY <2>1, <2>2, <2>3
<1>2. turn.session = session /\ turn.voice = voice /\ turn.start = start /\ turn.end = end
  OBVIOUS
<1>3. TypeOK /\ stored \in 0..MaxTurns /\ MaxTurns \in Nat /\ MaxTime \in Nat
  BY GraphAssumption DEF IInv, TypeOK
<1>4. /\ rows \in [DOMAIN rows -> Rows] /\ DOMAIN rows \subseteq 1..stored
      /\ threads \in [DOMAIN threads -> Threads] /\ DOMAIN threads \subseteq 1..stored
      /\ promises \in [DOMAIN promises -> Promises] /\ DOMAIN promises \subseteq DOMAIN rows
      /\ bank \subseteq Voices
  BY DEF IInv, TypeOK, Numbered, PromisesHaveTheirLines
<1>5. place \in DOMAIN threads \union {NewThread}
      /\ (place # NewThread => session \in Bridging \/ threads[place].session = session)
  <2> HIDE DEF turn
  <2>1. place \in OpenThreads(threads, turn) \union {NewThread}
    BY <1>3, PlaceIs
  <2> HIDE DEF place
  <2> QED
    BY <1>2, <2>1 DEF OpenThreads
<1>6. stored \in Nat /\ stored' \in 0..MaxTurns
      /\ \A i \in 1..(stored + 1) : i \in 1..stored' /\ i \in Ids
  BY <1>1, <1>3 DEF Ids
<1>7. r \in 1..(stored + 1) /\ r \notin DOMAIN rows
  BY <1>4, <1>6, NextIdIs
<1>8. /\ t \in 1..(stored + 1)
      /\ place # NewThread => t \in DOMAIN threads /\ t = place
      /\ place = NewThread => t \notin DOMAIN threads
  <2>1. NextId(threads) \in 1..(stored + 1) /\ NextId(threads) \notin DOMAIN threads
    BY <1>4, <1>6, NextIdIs
  <2> HIDE DEF place
  <2>2. \A i \in 1..stored : i \in 1..(stored + 1)
    BY <1>6
  <2> QED
    BY <1>4, <1>5, <2>1, <2>2
<1> HIDE DEF turn, place, r, t
<1>9. row \in Rows
  BY <1>2, <1>4, <1>6, <1>8 DEF Rows, Parties
<1>10. /\ thread \in Threads
       /\ session \in Bridging \/ session = thread.session
       /\ end <= thread.ended
       /\ t \in DOMAIN threads =>
             thread.session = threads[t].session /\ threads[t].ended <= thread.ended
  <2>1. CASE place = NewThread
    BY <1>2, <1>8, <2>1 DEF Threads
  <2>2. CASE place # NewThread
    <3>1. threads[t] \in Threads /\ threads[t].ended \in 0..MaxTime
      BY <1>4, <1>8, <2>2 DEF Threads
    <3> DEFINE m == Max({threads[t].ended, turn.end})
    <3>2. m \in 0..MaxTime /\ threads[t].ended <= m /\ end <= m
      BY <1>2, <1>3, <3>1, MaxOfTwo
    <3>3. thread = [threads[t] EXCEPT !.ended = m]
      BY <2>2
    <3> HIDE DEF m, thread
    <3>4. thread \in Threads /\ thread.session = threads[t].session /\ thread.ended = m
      BY <3>1, <3>2, <3>3 DEF Threads
    <3> QED
      BY <1>5, <1>8, <2>2, <3>2, <3>4
  <2> QED
    BY <2>1, <2>2
<1>11. /\ DOMAIN rows' = DOMAIN rows \union {r} /\ rows'[r] = row
       /\ \A q \in DOMAIN rows : rows'[q] = rows[q]
       /\ rows' \in [DOMAIN rows' -> Rows]
  <2> HIDE DEF row
  <2> QED
    BY <1>1, <1>4, <1>7, <1>9
<1>12. /\ DOMAIN threads' = DOMAIN threads \union {t} /\ threads'[t] = thread
       /\ \A u \in DOMAIN threads : u # t => threads'[u] = threads[u]
       /\ threads' \in [DOMAIN threads' -> Threads]
  <2> HIDE DEF thread
  <2> QED
    BY <1>1, <1>4, <1>10
<1>13. row.voice = voice /\ row.thread = t /\ row.live
       /\ row.session = session /\ row.end = end
  BY <1>2
<1> HIDE DEF row, thread
<1>14. others \subseteq bank
  <2>1. LiveRows(t) \subseteq DOMAIN rows
    BY DEF LiveRows, Live
  <2> QED
    BY <2>1 DEF IInv, LabelsAreKnown
<1>15. to \in bank \union {Nobody}
  <2> HIDE DEF others
  <2>1. Cardinality(others) = 1 => others # {}
    BY FS_EmptySet
  <2> QED
    BY <1>14, <2>1
<1> HIDE DEF others, to
<1>16. /\ DOMAIN promises' \subseteq DOMAIN promises \union {r}
       /\ promises' \in [DOMAIN promises' -> Promises]
       /\ \A q \in DOMAIN promises' :
            {promises'[q].who, promises'[q].to} \subseteq bank \union {Nobody}
  <2>1. \A q \in DOMAIN promises :
           {promises[q].who, promises[q].to} \subseteq bank \union {Nobody}
    BY DEF IInv, RemovedVoicesAreGone
  <2>2. CASE promises' = promises
    BY <1>4, <2>1, <2>2
  <2>3. CASE turn.voice # Nobody /\ promises' = Filed(promises, r, turn.voice, to, "rules")
    <3> DEFINE new == [who |-> voice, to |-> to, source |-> "rules", state |-> "candidate"]
    <3>1. r \notin DOMAIN promises
      BY <1>4, <1>7
    <3>2. promises' = [q \in DOMAIN promises \union {r} |->
                         IF q # r THEN promises[q] ELSE new]
      BY <1>2, <2>3, <3>1 DEF Filed
    <3>3. new \in Promises /\ {new.who, new.to} \subseteq bank \union {Nobody}
      BY <1>2, <1>4, <1>15, <2>3 DEF Promises, Parties, States
    <3> HIDE DEF new
    <3>4. /\ DOMAIN promises' = DOMAIN promises \union {r} /\ promises'[r] = new
          /\ \A q \in DOMAIN promises : promises'[q] = promises[q]
          /\ promises' \in [DOMAIN promises' -> Promises]
      BY <1>4, <3>1, <3>2, <3>3
    <3> QED
      BY <2>1, <3>3, <3>4
  <2> QED
    BY <1>1, <2>2, <2>3
<1>17. TypeOK'
  <2>1. DOMAIN rows' \subseteq Ids /\ DOMAIN threads' \subseteq Ids
        /\ DOMAIN promises' \subseteq Ids
    <3>1. DOMAIN rows \subseteq Ids /\ DOMAIN threads \subseteq Ids
          /\ DOMAIN promises \subseteq Ids
      BY <1>3 DEF TypeOK
    <3> QED
      BY <1>6, <1>7, <1>8, <1>11, <1>12, <1>16, <3>1
  <2>2. heard' \in [Sessions -> 0..MaxTime]
    BY <1>1, <1>3 DEF TypeOK
  <2> QED
    BY <1>1, <1>3, <1>6, <1>11, <1>12, <1>16, <2>1, <2>2 DEF TypeOK
<1>18. Numbered'
  <2>1. \A i \in 1..stored : i \in 1..stored'
    BY <1>6
  <2> QED
    BY <1>4, <1>6, <1>7, <1>8, <1>11, <1>12, <2>1 DEF Numbered
<1>19. LabelsAreKnown'
  BY <1>1, <1>11, <1>13 DEF IInv, LabelsAreKnown
<1>20. ShownLinesHaveConversations'
  <2> SUFFICES ASSUME NEW q \in DOMAIN rows', rows'[q].live
               PROVE  /\ rows'[q].thread \in DOMAIN threads'
                      /\ Covers(threads'[rows'[q].thread], rows'[q])
    BY DEF ShownLinesHaveConversations, Live
  <2>1. CASE q = r
    BY <1>10, <1>11, <1>12, <1>13, <2>1 DEF Covers
  <2>2. CASE q # r
    <3>1. q \in DOMAIN rows /\ rows'[q] = rows[q]
      BY <1>11, <2>2
    <3>2. rows[q].thread \in DOMAIN threads /\ Covers(threads[rows[q].thread], rows[q])
      BY <3>1 DEF IInv, ShownLinesHaveConversations, Live
    <3>3. CASE rows[q].thread # t
      BY <1>12, <3>1, <3>2, <3>3
    <3>4. CASE rows[q].thread = t
      <4>1. rows[q].end \in Int /\ threads[t].ended \in Int /\ thread.ended \in Int
        BY <1>4, <1>10, <3>1, <3>2, <3>4 DEF Rows, Threads
      <4>2. Covers(thread, rows[q])
        BY <1>10, <3>2, <3>4, <4>1 DEF Covers
      <4> QED
        BY <1>12, <3>1, <3>4, <4>2
    <3> QED
      BY <3>3, <3>4
  <2> QED
    BY <2>1, <2>2
<1>21. Judged' = Judged
  BY <1>1 DEF Judged
<1>22. RemovedVoicesAreGone' /\ PromisesHaveTheirLines' /\ JudgedLinesAreThere'
  BY <1>1, <1>4, <1>11, <1>16, <1>21 DEF IInv, RemovedVoicesAreGone,
     PromisesHaveTheirLines, JudgedLinesAreThere
<1> QED
  BY <1>17, <1>18, <1>19, <1>20, <1>22 DEF IInv

LEMMA CaptureStep ==
    ASSUME IInv, Capture
    PROVE  IInv'
PROOF
<1>1. PICK session \in Sessions, voice \in bank \union {Nobody}, guess \in BOOLEAN :
         \E start \in heard[session]..Min({MaxTime, Max(Range(heard)) + Gap + 1}) :
            \E end \in (start + 1)..Min({MaxTime, start + MaxLength}) :
               StoreTurn([session |-> session, voice |-> voice,
                          start |-> start, end |-> end], guess)
  BY DEF Capture
<1> DEFINE latest == Min({MaxTime, Max(Range(heard)) + Gap + 1})
<1>2. PICK start \in heard[session]..latest :
         \E end \in (start + 1)..Min({MaxTime, start + MaxLength}) :
            StoreTurn([session |-> session, voice |-> voice,
                       start |-> start, end |-> end], guess)
  BY <1>1
<1>3. PICK end \in (start + 1)..Min({MaxTime, start + MaxLength}) :
         StoreTurn([session |-> session, voice |-> voice,
                    start |-> start, end |-> end], guess)
  BY <1>2
<1>4. /\ heard \in [Sessions -> 0..MaxTime] /\ MaxTime \in Nat /\ Gap \in Nat
      /\ MaxLength \in Nat
  BY GraphAssumption DEF IInv, TypeOK
<1>5. heard[session] \in 0..MaxTime
  BY <1>4
<1>6. Max(Range(heard)) \in Nat
  <2>1. Range(heard) \subseteq 0..MaxTime /\ Range(heard) # {}
    BY <1>4 DEF Range
  <2>2. Range(heard) \subseteq Int /\ MaxTime \in Int /\ \A x \in Range(heard) : x <= MaxTime
    BY <1>4, <2>1
  <2>3. Max(Range(heard)) \in Range(heard)
    BY <2>1, <2>2, MaxOf
  <2> QED
    BY <1>4, <2>1, <2>3
<1>7. latest \in Nat /\ latest <= MaxTime
  <2> DEFINE m == Max(Range(heard)) + Gap + 1
  <2>1. m \in Nat
    BY <1>4, <1>6
  <2> HIDE DEF m
  <2>2. Min({MaxTime, m}) \in {MaxTime, m} /\ Min({MaxTime, m}) <= MaxTime
    BY <1>4, <2>1, MinOf
  <2>3. latest = Min({MaxTime, m})
    BY DEF m
  <2> QED
    BY <1>4, <2>1, <2>2, <2>3
<1> HIDE DEF latest
<1>8. start \in 0..MaxTime
  BY <1>4, <1>5, <1>7
<1>9. end \in 0..MaxTime
  <2> DEFINE m == start + MaxLength
             l == Min({MaxTime, m})
  <2>1. m \in Nat
    BY <1>4, <1>8
  <2> HIDE DEF m
  <2>2. l \in {MaxTime, m} /\ l <= MaxTime
    BY <1>4, <2>1, MinOf
  <2>3. end \in (start + 1)..l
    BY <1>3 DEF m
  <2> HIDE DEF l
  <2>4. l \in Int
    BY <1>4, <2>1, <2>2
  <2> QED
    BY <1>4, <1>8, <2>2, <2>3, <2>4
<1>10. stored < MaxTurns
  BY DEF Capture
<1> QED
  BY <1>3, <1>8, <1>9, <1>10, StoreTurnStep

SameSpan(t, u) == t.session = u.session /\ t.ended = u.ended

LEMMA WalkedIs ==
    ASSUME TypeOK, NEW t
    PROVE  /\ DOMAIN Walked(t) = DOMAIN threads
           /\ Walked(t) \in [DOMAIN threads -> Threads]
           /\ \A u \in DOMAIN threads : SameSpan(Walked(t)[u], threads[u])
PROOF
<1>1. \A u \in DOMAIN threads :
         LET new == [threads[u] EXCEPT !.walked = TRUE] IN
         new \in Threads /\ SameSpan(new, threads[u])
  BY DEF TypeOK, Threads, SameSpan
<1>2. \A u \in DOMAIN threads : threads[u] \in Threads
  BY DEF TypeOK
<1>3. Walked(t) = [u \in DOMAIN threads |->
         IF u = t THEN [threads[u] EXCEPT !.walked = TRUE] ELSE threads[u]]
  BY DEF Walked
<1> QED
  BY <1>1, <1>2, <1>3 DEF SameSpan

LEMMA GatherStep ==
    ASSUME IInv, Gather
    PROVE  IInv'
PROOF
<1> DEFINE t == Head(worker.queue)
<1>1. /\ worker.at = "batch" /\ worker.queue # <<>>
      /\ rows' = rows /\ promises' = promises /\ bank' = bank /\ paused' = paused
      /\ heard' = heard /\ stored' = stored /\ upsets' = upsets
  BY DEF Gather
<1>2. TypeOK /\ worker \in [at : {"batch"}, queue : Seq(Ids)]
  BY <1>1, WorkerIs DEF IInv, TypeOK
<1>3. t \in Ids /\ Tail(worker.queue) \in Seq(Ids)
  BY <1>1, <1>2, HeadTailProperties
<1> HIDE DEF t
<1>4. \/ /\ worker' = [at |-> "judging", queue |-> Tail(worker.queue),
                       thread |-> t, lines |-> LinesOf(t)]
         /\ threads' = threads
      \/ threads' = Walked(t) /\ worker' = [worker EXCEPT !.queue = Tail(@)]
  BY DEF Gather, t
<1>5. worker' \in Workers /\ Judged' \subseteq DOMAIN rows
      /\ threads' \in [DOMAIN threads -> Threads] /\ DOMAIN threads' = DOMAIN threads
      /\ \A u \in DOMAIN threads : SameSpan(threads'[u], threads[u])
  <2>1. CASE /\ worker' = [at |-> "judging", queue |-> Tail(worker.queue),
                           thread |-> t, lines |-> LinesOf(t)]
             /\ threads' = threads
    <3>1. /\ LinesOf(t) \in Seq(Lines)
          /\ \A l \in Range(LinesOf(t)) : l.row \in LiveRows(t)
      BY <1>2, LinesOfAre
    <3>2. worker' \in Workers
      BY <1>3, <2>1, <3>1 DEF Workers
    <3>3. Judged' = {l.row : l \in Range(LinesOf(t))}
      BY <2>1 DEF Judged
    <3>4. LiveRows(t) \subseteq DOMAIN rows
      BY DEF LiveRows, Live
    <3>5. threads \in [DOMAIN threads -> Threads]
      BY <1>2 DEF TypeOK
    <3> QED
      BY <2>1, <3>1, <3>2, <3>3, <3>4, <3>5 DEF SameSpan
  <2>2. CASE threads' = Walked(t) /\ worker' = [worker EXCEPT !.queue = Tail(@)]
    <3>1. worker' \in [at : {"batch"}, queue : Seq(Ids)]
      BY <1>2, <1>3, <2>2
    <3>2. worker' \in Workers
      BY <3>1 DEF Workers
    <3>3. Judged' = {}
      BY <3>1 DEF Judged
    <3> QED
      BY <1>2, <2>2, <3>2, <3>3, WalkedIs
  <2> QED
    BY <1>4, <2>1, <2>2
<1>6. TypeOK'
  BY <1>1, <1>2, <1>5 DEF TypeOK
<1>7. Numbered' /\ LabelsAreKnown' /\ RemovedVoicesAreGone'
  BY <1>1, <1>5 DEF IInv, Numbered, LabelsAreKnown, RemovedVoicesAreGone
<1>8. ShownLinesHaveConversations'
  BY <1>1, <1>5 DEF IInv, ShownLinesHaveConversations, Live, Covers, SameSpan
<1>9. PromisesHaveTheirLines' /\ JudgedLinesAreThere'
  BY <1>1, <1>5 DEF IInv, PromisesHaveTheirLines, JudgedLinesAreThere
<1> QED
  BY <1>6, <1>7, <1>8, <1>9 DEF IInv

(* What a commit does to the promises there were and may add to them.      *)
LEMMA CommitIs ==
    ASSUME IInv, worker.at = "judging", NEW verdicts \in Judgements, Commit(verdicts)
    PROVE  /\ promises' \in [DOMAIN promises' -> Promises]
           /\ DOMAIN promises' \subseteq Ids
           /\ DOMAIN promises' \subseteq DOMAIN promises \union Judged
           /\ \A r \in DOMAIN promises' :
                {promises'[r].who, promises'[r].to} \subseteq bank \union {Nobody}
           /\ \A r \in DOMAIN promises : promises[r].state # "candidate" =>
                r \in DOMAIN promises' /\ promises'[r] = promises[r]
           /\ \A r \in DOMAIN promises \ DOMAIN promises' :
                \E w \in Range(Windows(worker.lines)) :
                   r \in RowsIn(w) /\ Cardinality(Roster(w)) > 1
           /\ threads' \in [DOMAIN threads -> Threads]
           /\ DOMAIN threads' = DOMAIN threads
           /\ \A u \in DOMAIN threads : SameSpan(threads'[u], threads[u])
PROOF
<1> DEFINE windows == Windows(worker.lines)
           filed == FileFound(windows, verdicts)
           refused == UNION {RowsIn(windows[i]) :
                               i \in {j \in DOMAIN windows : verdicts[j] = Nothing}}
           dropped == {r \in refused \intersect DOMAIN filed.table :
                          Retractable(filed.table[r])}
<1>1. TypeOK /\ RemovedVoicesAreGone /\ worker \in Workers
  BY DEF IInv, TypeOK
<1>2. worker.lines \in Seq(Lines)
  BY <1>1, WorkerIs
<1>3. Judged = RowsIn(worker.lines)
  BY DEF Judged, RowsIn
<1>4. /\ windows \in Seq(Seq(Lines))
      /\ DOMAIN windows = 1..Len(windows) /\ Len(windows) \in Nat
      /\ \A i \in DOMAIN windows :
           /\ windows[i] \in Seq(Lines)
           /\ Range(windows[i]) \subseteq Range(worker.lines)
  BY <1>2, WindowsAre
<1>5. \A i \in DOMAIN windows : verdicts[i] \in Verdicts(windows[i])
  BY DEF Judgements
<1>6. /\ filed.ok =>
           /\ promises' = Without(filed.table, dropped)
           /\ threads' = Walked(worker.thread)
      /\ ~filed.ok => promises' = filed.table /\ threads' = threads
  BY DEF Commit, RowsIn
<1> HIDE DEF windows
<1>7. \A i \in DOMAIN windows : RowsIn(windows[i]) \subseteq Judged
  BY <1>3, <1>4 DEF RowsIn
<1>8. ASSUME NEW i \in DOMAIN windows
      PROVE  /\ verdicts[i] \in Voices => verdicts[i] \in Roster(windows[i])
             /\ verdicts[i] = Nothing => Cardinality(Roster(windows[i])) > 1
  <2>1. Cardinality(Roster(windows[i])) \in Nat
    BY <1>4, RosterIs
  <2>2. Nothing # Unread /\ Nothing \notin Voices /\ Unread \notin Voices
    BY GraphAssumption DEF Nothing, Unread
  <2>3. verdicts[i] \in Verdicts(windows[i])
    BY <1>5
  <2>4. CASE Cardinality(Roster(windows[i])) < 2
    <3>1. verdicts[i] = Unread
      BY <2>3, <2>4 DEF Verdicts
    <3> QED
      BY <2>2, <3>1
  <2>5. CASE ~(Cardinality(Roster(windows[i])) < 2)
    <3>1. verdicts[i] \in {Unread, Nothing} \union Roster(windows[i])
      BY <2>3, <2>5 DEF Verdicts
    <3> QED
      BY <2>1, <2>2, <2>5, <3>1
  <2> QED
    BY <2>4, <2>5
<1>9. filed \in Outcomes(Judged)
  BY <1>1, <1>4, <1>7, <1>8, FileFoundIs
<1> HIDE DEF filed
<1>10. /\ filed.table \in [DOMAIN filed.table -> Promises]
       /\ DOMAIN filed.table \subseteq Ids /\ Follows(filed.table, Judged)
  <2>1. filed.table \in Tables /\ Follows(filed.table, Judged)
    BY <1>9 DEF Outcomes
  <2> QED
    BY <2>1, TablesAre
<1>11. threads' \in [DOMAIN threads -> Threads] /\ DOMAIN threads' = DOMAIN threads
       /\ \A u \in DOMAIN threads : SameSpan(threads'[u], threads[u])
  <2>1. threads \in [DOMAIN threads -> Threads]
    BY <1>1 DEF TypeOK
  <2> QED
    BY <1>1, <1>6, <2>1, WalkedIs DEF SameSpan
<1>12. CASE ~filed.ok
  <2>1. promises' = filed.table
    BY <1>6, <1>12
  <2>2. DOMAIN promises \ DOMAIN promises' = {}
    BY <1>10, <2>1 DEF Follows
  <2> QED
    BY <1>10, <1>11, <2>1, <2>2 DEF Follows
<1>13. CASE filed.ok
  <2>1. \A r \in dropped : /\ r \in refused /\ filed.table[r].state = "candidate"
    BY DEF Retractable
  <2>2. \A r \in refused : \E w \in Range(windows) :
           r \in RowsIn(w) /\ Cardinality(Roster(w)) > 1
    BY <1>8 DEF Range
  <2> HIDE DEF dropped, refused
  <2> DEFINE kept == Without(filed.table, dropped)
  <2>3. /\ DOMAIN kept = DOMAIN filed.table \ dropped
        /\ kept \in [DOMAIN kept -> Promises]
        /\ \A r \in DOMAIN kept : kept[r] = filed.table[r]
    BY <1>10, WithoutIs
  <2>4. promises' = kept
    BY <1>6, <1>13
  <2> HIDE DEF kept
  <2>5. ASSUME NEW r \in DOMAIN promises, promises[r].state # "candidate"
        PROVE  r \in DOMAIN promises' /\ promises'[r] = promises[r]
    <3>1. r \in DOMAIN filed.table /\ filed.table[r] = promises[r]
      BY <1>10, <2>5 DEF Follows
    <3>2. r \notin dropped
      BY <2>1, <2>5, <3>1
    <3> QED
      BY <2>3, <2>4, <3>1, <3>2
  <2>6. ASSUME NEW r \in DOMAIN promises \ DOMAIN promises'
        PROVE  \E w \in Range(windows) : r \in RowsIn(w) /\ Cardinality(Roster(w)) > 1
    <3>1. r \in dropped
      BY <1>10, <2>3, <2>4, <2>6 DEF Follows
    <3> QED
      BY <2>1, <2>2, <3>1
  <2>7. /\ DOMAIN promises' \subseteq Ids
        /\ DOMAIN promises' \subseteq DOMAIN promises \union Judged
        /\ \A r \in DOMAIN promises' :
              {promises'[r].who, promises'[r].to} \subseteq bank \union {Nobody}
    BY <1>10, <2>3, <2>4 DEF Follows
  <2> QED
    BY <1>11, <2>3, <2>4, <2>5, <2>6, <2>7 DEF windows
<1> QED
  BY <1>12, <1>13

LEMMA JudgesStep ==
    ASSUME IInv, Judges(Judgements)
    PROVE  IInv'
PROOF
<1>1. /\ worker.at = "judging" /\ worker' = [at |-> "batch", queue |-> worker.queue]
      /\ rows' = rows /\ bank' = bank /\ paused' = paused /\ heard' = heard
      /\ stored' = stored /\ upsets' = upsets
      /\ \E verdicts \in Judgements : Commit(verdicts)
  BY DEF Judges, NextConversation
<1>2. TypeOK /\ worker \in Workers
  BY DEF IInv, TypeOK
<1>3. worker' \in Workers /\ Judged' = {}
  <2>1. worker.queue \in Seq(Ids)
    BY <1>1, <1>2, WorkerIs
  <2> QED
    BY <1>1, <2>1 DEF Workers, Judged
<1>4. /\ promises' \in [DOMAIN promises' -> Promises]
      /\ DOMAIN promises' \subseteq Ids
      /\ DOMAIN promises' \subseteq DOMAIN promises \union Judged
      /\ \A r \in DOMAIN promises' :
           {promises'[r].who, promises'[r].to} \subseteq bank \union {Nobody}
      /\ threads' \in [DOMAIN threads -> Threads]
      /\ DOMAIN threads' = DOMAIN threads
      /\ \A u \in DOMAIN threads : SameSpan(threads'[u], threads[u])
  BY <1>1, CommitIs
<1>5. TypeOK'
  BY <1>1, <1>2, <1>3, <1>4 DEF TypeOK
<1>6. Numbered' /\ LabelsAreKnown' /\ RemovedVoicesAreGone'
  BY <1>1, <1>4 DEF IInv, Numbered, LabelsAreKnown, RemovedVoicesAreGone
<1>7. ShownLinesHaveConversations'
  BY <1>1, <1>4 DEF IInv, ShownLinesHaveConversations, Live, Covers, SameSpan
<1>8. PromisesHaveTheirLines' /\ JudgedLinesAreThere'
  BY <1>1, <1>3, <1>4 DEF IInv, PromisesHaveTheirLines, JudgedLinesAreThere
<1> QED
  BY <1>5, <1>6, <1>7, <1>8 DEF IInv

-----------------------------------------------------------------------------
(* The theorems.                                                           *)

LEMMA StepKeepsInvariant == IInv /\ [Next]_vars => IInv'
PROOF
<1> SUFFICES ASSUME IInv, [Next]_vars PROVE IInv'
  OBVIOUS
<1>1. CASE Capture
  BY <1>1, CaptureStep
<1>2. CASE Worker(Judgements)
  <2>1. CASE TakeBatch
    BY <2>1, TakeBatchStep
  <2>2. CASE StandDown \/ EndBatch
    BY <2>2, StandDownStep
  <2>3. CASE Gather
    BY <2>3, GatherStep
  <2>4. CASE Judges(Judgements)
    BY <2>4, JudgesStep
  <2>5. CASE JudgeFails
    BY <2>5, JudgeFailsStep
  <2> QED
    BY <1>2, <2>1, <2>2, <2>3, <2>4, <2>5 DEF Worker
<1>3. CASE Person
  <2>1. ASSUME NEW r \in DOMAIN promises, NEW state \in States, Decide(r, state)
        PROVE  IInv'
    BY <2>1, DecideStep
  <2>2. ASSUME NEW batch \in SUBSET Live, DeleteLines(batch)
        PROVE  IInv'
    BY <2>2, DeleteLinesStep
  <2>3. ASSUME NEW v \in Voices, NEW keep \in BOOLEAN, DeleteVoice(v, keep)
        PROVE  IInv'
    BY <2>3, DeleteVoiceStep
  <2>4. CASE Pause
    BY <2>4, PauseStep
  <2> QED
    BY <1>3, <2>1, <2>2, <2>3, <2>4 DEF Person
<1>4. CASE Sweep
  <2>1. CASE Prune
    BY <2>1, PruneStep
  <2>2. ASSUME NEW batch \in SUBSET (DOMAIN rows \ (Live \union Judged)), Purge(batch)
        PROVE  IInv'
    BY <2>2, PurgeStep
  <2> QED
    BY <1>4, <2>1, <2>2 DEF Sweep
<1>5. CASE UNCHANGED vars
  <2>1. /\ UNCHANGED <<library, heard, stored>> /\ worker' = worker
        /\ paused' = paused /\ upsets' = upsets
    BY <1>5 DEF vars
  <2>2. Judged' \subseteq DOMAIN rows
    BY <2>1 DEF IInv, JudgedLinesAreThere, Judged
  <2> QED
    BY <2>1, <2>2, LibraryKept DEF IInv, TypeOK
<1> QED
  BY <1>1, <1>2, <1>3, <1>4, <1>5 DEF Next

(* Every reachable state satisfies the inductive invariant, whatever the   *)
(* number of turns, voices, sessions, windows and failures.                *)
THEOREM GraphInvariant == Spec => []IInv
PROOF
<1>1. Init => IInv
  BY InitInvariant
<1>2. IInv /\ [Next]_vars => IInv'
  BY StepKeepsInvariant
<1> QED
  BY <1>1, <1>2, PTL DEF Spec

(* The tables, the worker's hand and the clocks stay what the store and    *)
(* enrich.rs declare them to be.                                           *)
THEOREM GraphIsTyped == Spec => []TypeOK
PROOF
<1>1. IInv => TypeOK
  BY DEF IInv
<1> QED
  BY <1>1, GraphInvariant, PTL

(* A voice deleted with its voiceprint is in no promise, not even in one   *)
(* the model found in lines gathered before (delete_speaker, commit).      *)
THEOREM RemovedVoicesStayGone == Spec => []RemovedVoicesAreGone
PROOF
<1>1. IInv => RemovedVoicesAreGone
  BY DEF IInv
<1> QED
  BY <1>1, GraphInvariant, PTL

(* No line that is shown points at a conversation that was pruned, or at   *)
(* another that took its number: the one it is in exists, is of its        *)
(* session or bridged, and does not end before it does.                    *)
THEOREM ShownLinesKeepTheirConversations == Spec => []ShownLinesHaveConversations
PROOF
<1>1. IInv => ShownLinesHaveConversations
  BY DEF IInv
<1> QED
  BY <1>1, GraphInvariant, PTL

(* No promise outlives the line it was said in, and the model's commit     *)
(* files none under a line that was purged.                                *)
THEOREM PromisesKeepTheirLines == Spec => []PromisesHaveTheirLines
PROOF
<1>1. IInv => PromisesHaveTheirLines
  BY DEF IInv
<1> QED
  BY <1>1, GraphInvariant, PTL

(* Of the steps that change the worker, only a commit changes promises.    *)
LEMMA OnlyCommitsRewrite ==
    ASSUME IInv, [Next]_vars, worker' # worker
    PROVE  \/ promises' = promises
           \/ /\ worker.at = "judging"
              /\ \E verdicts \in Judgements : Commit(verdicts)
PROOF
<1>1. CASE Capture
  BY <1>1 DEF Capture, StoreTurn
<1>2. CASE Worker(Judgements)
  <2>1. CASE Judges(Judgements)
    BY <2>1 DEF Judges
  <2>2. CASE TakeBatch \/ StandDown \/ Gather \/ JudgeFails \/ EndBatch
    BY <2>2 DEF TakeBatch, StandDown, Gather, JudgeFails, EndBatch, library
  <2> QED
    BY <1>2, <2>1, <2>2 DEF Worker
<1>3. CASE Person
  BY <1>3 DEF Person, Decide, DeleteLines, DeleteVoice, Pause
<1>4. CASE Sweep
  BY <1>4 DEF Sweep, Prune, Purge
<1>5. CASE UNCHANGED vars
  BY <1>5 DEF vars
<1> QED
  BY <1>1, <1>2, <1>3, <1>4, <1>5 DEF Next

(* What a person confirmed or dismissed, no step of the worker rewrites or *)
(* removes, however old the plan it commits (upsert_commitment,            *)
(* retract_rule_candidate).                                                *)
THEOREM NobodyOverrulesAPerson == Spec => PersonDecides
PROOF
<1>1. ASSUME IInv, [Next]_vars, worker' # worker,
             NEW r \in DOMAIN promises, promises[r].state # "candidate"
      PROVE  r \in DOMAIN promises' /\ promises'[r] = promises[r]
  BY <1>1, OnlyCommitsRewrite, CommitIs
<1>2. IInv /\ [Next]_vars =>
        [worker' # worker =>
           \A r \in DOMAIN promises : promises[r].state # "candidate" =>
              r \in DOMAIN promises' /\ promises'[r] = promises[r]]_vars
  BY <1>1
<1> QED
  BY <1>2, GraphInvariant, PTL DEF Spec, PersonDecides

(* The worker drops a guess of the rules only if the line was in a window  *)
(* the model was asked about (judge, commit).                              *)
THEOREM OnlyWhatWasReadIsDropped == Spec => RefusalsWereRead
PROOF
<1>1. ASSUME IInv, [Next]_vars, worker' # worker,
             NEW r \in DOMAIN promises \ DOMAIN promises'
      PROVE  \E w \in Range(Windows(worker.lines)) :
                /\ r \in {l.row : l \in Range(w)}
                /\ Cardinality(Roster(w)) > 1
  BY <1>1, OnlyCommitsRewrite, CommitIs DEF RowsIn
<1>2. IInv /\ [Next]_vars =>
        [worker' # worker =>
           \A r \in DOMAIN promises \ DOMAIN promises' :
              \E w \in Range(Windows(worker.lines)) :
                 /\ r \in {l.row : l \in Range(w)}
                 /\ Cardinality(Roster(w)) > 1]_vars
  BY <1>1
<1> QED
  BY <1>2, GraphInvariant, PTL DEF Spec, RefusalsWereRead
=============================================================================
