------------------------- MODULE PerUserAudioProofs -------------------------
(***************************************************************************)
(* Proofs about PerUserAudio, for any number of streams, request threads   *)
(* and sessions, any clock and any queue.                                  *)
(***************************************************************************)
EXTENDS PerUserAudio, SequenceTheorems, TLAPS

(* A frame's stamp is the moment it began: a stream's run is broken where  *)
(* its sequence number says a frame is missing, and nowhere else.          *)
TrueFrames == {f \in [kind : {"frame"}, session : Nat, stamp : Nat, n : Nat] : f.stamp = f.n}
TrueRuns == {r \in [session : Nat, seq : Nat, next : Nat, last : Nat] : r.next = r.seq + 1}
Ends == [kind : {"end"}, session : Nat]
Sent == [at : {"sent"}, key : Streams, n : Nat]
Placed == [at : {"placed"}, event : TrueFrames]

(* A stretch of frames that were next to each other in the call.           *)
Unbroken(f) == \A i \in 1..(Len(f) - 1) : f[i + 1] = f[i] + 1
Stretches ==
    {NoTurn} \union {t \in [next : Nat, frames : Seq(Nat)] :
                        /\ t.frames # <<>>
                        /\ t.next = t.frames[Len(t.frames)] + 1
                        /\ Unbroken(t.frames)}

Ending == [at : {"ending", "closing"}, ends : SUBSET Nat]
Gone == [at |-> "gone"]

AudioTyped ==
    /\ now \in Nat /\ posted \in [Streams -> Nat]
    /\ post \in [Posts -> {Free} \union Sent \union Placed]
    /\ table \in [Streams -> {NoStream} \union TrueRuns]
    /\ queue \in Seq(TrueFrames \union Ends)
    /\ turn \in [Ids -> Stretches]
    /\ rows \in Seq(BOOLEAN)
    /\ janitor \in {Asleep, Gone} \union Ending

EndQueued(s) == \E i \in 1..Len(queue) : queue[i] = [kind |-> "end", session |-> s]
Accounted(s) == rows[s] \/ InTable(s) \/ (janitor \in Ending /\ s \in janitor.ends)
                  \/ EndQueued(s)

EndsInv ==
    /\ \A s \in 1..Len(rows) : Accounted(s)
    /\ ~QueueOpen => janitor = Gone
    /\ phase = "stopped" => queue = <<>>

AudioInv == AudioTyped /\ EndsInv

-----------------------------------------------------------------------------
LEMMA InitHolds ==
  ASSUME Init
  PROVE  AudioInv
  <1>1. AudioTyped
    BY DEF Init, AudioTyped, Stretches
  <1>2. EndsInv
    BY DEF Init, EndsInv, QueueOpen
  <1> QED BY <1>1, <1>2 DEF AudioInv

(* The frame is placed: its stamp is its own time, whether it carries on   *)
(* the run or starts one.                                                  *)
LEMMA PlaceTyped ==
  ASSUME AudioTyped, NEW p \in Posts, Place(p)
  PROVE  AudioTyped' /\ UNCHANGED <<queue, janitor, phase>>
         /\ \/ rows' = rows /\ \A s \in Nat \ {0} : InTable(s) => InTable(s)'
            \/ /\ rows' = Append(rows, FALSE)
               /\ \E q \in Streams : table'[q].session = Len(rows) + 1
               /\ \A s \in Nat \ {0} : InTable(s) => InTable(s)'
  <1> DEFINE k == post[p].key
             n == post[p].n
             opens == table[k] = NoStream
             stream == IF opens THEN Opened(k) ELSE table[k]
             stamp == IF Contiguous(stream, n) THEN stream.next ELSE n
             run == [session |-> stream.session, seq |-> n, next |-> stamp + 1, last |-> now]
             frame == [kind |-> "frame", session |-> stream.session, stamp |-> stamp, n |-> n]
  <1>1. k \in Streams /\ n \in Nat
    BY DEF Place, AudioTyped, Sent, Placed, Free
  <1>2. /\ rows' = IF opens THEN Append(rows, FALSE) ELSE rows
        /\ table' = [table EXCEPT ![k] = run]
        /\ post' = [post EXCEPT ![p] = [at |-> "placed", event |-> frame]]
        /\ UNCHANGED <<now, posted, janitor, phase, queue, turn, resends>>
    BY DEF Place
  <1>3. stream.session \in Nat /\ stamp = n
    <2>1. CASE opens
      BY <2>1 DEF Opened, Contiguous, AudioTyped
    <2>2. CASE ~opens
      <3>1. table[k] \in TrueRuns
        BY <2>2, <1>1 DEF AudioTyped
      <3> QED BY <3>1, <2>2, <1>1 DEF TrueRuns, Contiguous
    <2> QED BY <2>1, <2>2
  <1>4. run \in TrueRuns /\ frame \in TrueFrames
    <2>1. now \in Nat
      BY DEF AudioTyped
    <2>2. run \in TrueRuns
      BY <1>1, <1>3, <2>1 DEF TrueRuns
    <2>3. frame \in TrueFrames
      BY <1>1, <1>3 DEF TrueFrames
    <2> QED BY <2>2, <2>3
  <1>5. AudioTyped'
    <2>1. post' \in [Posts -> {Free} \union Sent \union Placed]
      <3>1. [at |-> "placed", event |-> frame] \in Placed
        BY <1>4 DEF Placed
      <3> HIDE DEF frame
      <3> QED BY <3>1, <1>2 DEF AudioTyped
    <2>2. table' \in [Streams -> {NoStream} \union TrueRuns]
      <3> HIDE DEF run
      <3> QED BY <1>2, <1>4 DEF AudioTyped
    <2>3. rows' \in Seq(BOOLEAN)
      <3>1. Append(rows, FALSE) \in Seq(BOOLEAN)
        BY AppendProperties DEF AudioTyped
      <3> QED BY <1>2, <3>1 DEF AudioTyped
    <2> QED BY <1>2, <2>1, <2>2, <2>3 DEF AudioTyped
  <1>6. \A s \in Nat \ {0} : InTable(s) => InTable(s)'
    <2>1. opens => table[k].session = 0
      BY DEF NoStream
    <2> QED BY <1>1, <1>2, <2>1 DEF InTable, AudioTyped
  <1>7. opens => \E q \in Streams : table'[q].session = Len(rows) + 1
    <2>1. opens => run.session = Len(rows) + 1
      BY DEF Opened
    <2> HIDE DEF run
    <2>2. table'[k] = run
      BY <1>1, <1>2 DEF AudioTyped
    <2> QED BY <1>1, <2>1, <2>2
  <1> QED BY <1>2, <1>5, <1>6, <1>7

(* An event that is queued, or that a closed queue ignores.                *)
LEMMA PushedTyped ==
  ASSUME AudioTyped, NEW e \in TrueFrames \union Ends
  PROVE  /\ Pushed(e) \in Seq(TrueFrames \union Ends)
         /\ \A i \in 1..Len(queue) : i \in 1..Len(Pushed(e)) /\ Pushed(e)[i] = queue[i]
         /\ QueueOpen => Len(Pushed(e)) \in 1..Len(Pushed(e)) /\ Pushed(e)[Len(Pushed(e))] = e
         /\ ~QueueOpen => Pushed(e) = queue
  <1>1. CASE QueueOpen
    BY <1>1, AppendProperties, LenProperties DEF Pushed, AudioTyped
  <1>2. CASE ~QueueOpen
    BY <1>2 DEF Pushed, AudioTyped
  <1> QED BY <1>1, <1>2

LEMMA HeadTyped ==
  ASSUME AudioTyped, queue # <<>>
  PROVE  /\ Head(queue) = queue[1] /\ queue[1] \in TrueFrames \union Ends
         /\ Tail(queue) \in Seq(TrueFrames \union Ends)
         /\ Len(queue) \in Nat \ {0} /\ Len(Tail(queue)) = Len(queue) - 1
         /\ \A i \in 1..(Len(queue) - 1) : Tail(queue)[i] = queue[i + 1]
  <1>1. queue \in Seq(TrueFrames \union Ends) /\ Len(queue) \in Nat
    BY LenProperties DEF AudioTyped
  <1>2. Len(queue) # 0
    BY <1>1, EmptySeq
  <1> QED BY <1>1, <1>2, HeadTailProperties

(* A stretch is carried on only by the frame that follows its last one.    *)
LEMMA ExtendedTyped ==
  ASSUME NEW t \in Stretches, NEW e \in TrueFrames
  PROVE  Extended(t, e) \in Stretches
  <1>1. e.stamp = e.n /\ e.n \in Nat
    BY DEF TrueFrames
  <1>2. CASE t = NoTurn \/ t.next # e.stamp
    <2>1. Extended(t, e) = [next |-> e.n + 1, frames |-> <<e.n>>]
      BY <1>1, <1>2 DEF Extended
    <2> DEFINE g == <<e.n>>
    <2>2. g \in Seq(Nat) /\ Len(g) = 1 /\ g[1] = e.n /\ g # <<>>
      BY <1>1
    <2>3. Unbroken(g)
      BY <2>2 DEF Unbroken
    <2> HIDE DEF g
    <2>4. [next |-> e.n + 1, frames |-> g] \in Stretches
      BY <1>1, <2>2, <2>3 DEF Stretches
    <2> QED BY <2>1, <2>4 DEF g
  <1>3. CASE ~(t = NoTurn \/ t.next # e.stamp)
    <2> DEFINE f == t.frames
               g == Append(f, e.n)
    <2>1. f \in Seq(Nat) /\ f # <<>> /\ t.next = f[Len(f)] + 1 /\ Unbroken(f)
      BY <1>3 DEF Stretches
    <2>2. e.n = f[Len(f)] + 1
      BY <1>1, <1>3, <2>1
    <2>3. /\ g \in Seq(Nat) /\ g # <<>> /\ Len(g) = Len(f) + 1 /\ g[Len(f) + 1] = e.n
          /\ \A i \in 1..Len(f) : g[i] = f[i]
      BY <1>1, <2>1, AppendProperties
    <2>4. Len(f) \in Nat \ {0}
      BY <2>1, EmptySeq, LenProperties
    <2>5. Unbroken(g)
      BY <2>1, <2>2, <2>3, <2>4 DEF Unbroken
    <2>6. Extended(t, e) = [next |-> e.n + 1, frames |-> g]
      BY <1>1, <1>3 DEF Extended
    <2> HIDE DEF f, g
    <2> QED BY <1>1, <2>3, <2>4, <2>5, <2>6 DEF Stretches
  <1> QED BY <1>2, <1>3

(* A session is ended: no other row changes.                               *)
LEMMA EndedRows ==
  ASSUME AudioTyped, NEW s \in Nat
  PROVE  LET ended == [rows EXCEPT ![s] = TRUE] IN
         /\ ended \in Seq(BOOLEAN) /\ Len(ended) = Len(rows)
         /\ \A i \in 1..Len(rows) : ended[i] = (rows[i] \/ i = s)
  <1> DEFINE n == Len(rows)
             ended == [rows EXCEPT ![s] = TRUE]
  <1>1. n \in Nat /\ rows \in [1..n -> BOOLEAN]
    BY LenProperties DEF AudioTyped
  <1>2. ended \in [1..n -> BOOLEAN]
    BY <1>1
  <1>3. ended \in Seq(BOOLEAN) /\ Len(ended) = n
    <2> HIDE DEF ended, n
    <2> QED BY <1>1, <1>2, IsASeq, LenProperties
  <1>4. ASSUME NEW i \in 1..n
        PROVE  ended[i] = (rows[i] \/ i = s)
    <2>1. CASE i = s
      BY <1>1, <2>1
    <2>2. CASE i # s
      BY <1>1, <2>2
    <2> QED BY <2>1, <2>2
  <1> QED BY <1>3, <1>4

-----------------------------------------------------------------------------
LEMMA TypingIsKept ==
  ASSUME AudioTyped, [Next]_vars
  PROVE  AudioTyped'
  <1>1. CASE Tick
    BY <1>1 DEF Tick, ingest, AudioTyped
  <1>2. ASSUME NEW p \in Posts, NEW k \in Streams, Accept(p, k)
        PROVE  AudioTyped'
    <2>1. posted' \in [Streams -> Nat]
      BY <1>2 DEF Accept, AudioTyped
    <2>2. [at |-> "sent", key |-> k, n |-> posted'[k]] \in Sent
      BY <2>1 DEF Sent
    <2>3. post' \in [Posts -> {Free} \union Sent \union Placed]
      BY <1>2, <2>2 DEF Accept, AudioTyped
    <2> QED BY <1>2, <2>1, <2>3 DEF Accept, AudioTyped
  <1>3. ASSUME NEW p \in Posts, Place(p)
        PROVE  AudioTyped'
    BY <1>3, PlaceTyped
  <1>4. ASSUME NEW p \in Posts, QueueFrame(p)
        PROVE  AudioTyped'
    <2>1. post[p].event \in TrueFrames
      BY <1>4 DEF QueueFrame, AudioTyped, Free, Sent, Placed
    <2> QED BY <1>4, <2>1, PushedTyped DEF QueueFrame, AudioTyped
  <1>5. CASE Sweep
    <2>1. \A k \in Streams : table[k].session \in Nat
      BY DEF AudioTyped, NoStream, TrueRuns
    <2>2. janitor' \in Ending
      BY <1>5, <2>1 DEF Sweep, Ending, QuietKeys
    <2> QED BY <1>5, <2>2 DEF Sweep, AudioTyped, Without
  <1>6. CASE CloseAll
    <2>1. \A k \in Streams : table[k].session \in Nat
      BY DEF AudioTyped, NoStream, TrueRuns
    <2>2. janitor' \in Ending
      BY <1>6, <2>1 DEF CloseAll, Ending
    <2> QED BY <1>6, <2>2 DEF CloseAll, AudioTyped
  <1>7. CASE QueueEnd
    <2>1. janitor \in Ending
      BY <1>7 DEF QueueEnd, AudioTyped, Asleep, Gone, Ending
    <2>2. CASE \E s \in janitor.ends :
                 /\ queue' = Pushed([kind |-> "end", session |-> s])
                 /\ janitor' = [janitor EXCEPT !.ends = @ \ {s}]
      <3>1. PICK s \in janitor.ends :
                 /\ queue' = Pushed([kind |-> "end", session |-> s])
                 /\ janitor' = [janitor EXCEPT !.ends = @ \ {s}]
        BY <2>2
      <3>2. [kind |-> "end", session |-> s] \in Ends
        BY <2>1 DEF Ending, Ends
      <3>3. janitor' \in Ending
        BY <2>1, <3>1 DEF Ending
      <3> QED BY <1>7, <3>1, <3>2, <3>3, PushedTyped DEF QueueEnd, ingest, AudioTyped
    <2>3. CASE queue' = queue /\ janitor' \in {Asleep, Gone}
      BY <1>7, <2>3 DEF QueueEnd, ingest, AudioTyped
    <2> QED BY <1>7, <2>2, <2>3 DEF QueueEnd, Gone
  <1>8. CASE Stop
    BY <1>8 DEF Stop, ingest, AudioTyped
  <1>9. CASE Analyse
    <2>1. queue # <<>> /\ Head(queue) \in TrueFrames
      BY <1>9, HeadTyped DEF Analyse, Ends
    <2>2. turn' \in [Ids -> Stretches]
      BY <1>9, <2>1, ExtendedTyped DEF Analyse, AudioTyped
    <2> QED BY <1>9, <2>1, <2>2, HeadTyped DEF Analyse, ingest, AudioTyped
  <1>10. ASSUME NEW s \in Nat, EndSession(s), queue' \in Seq(TrueFrames \union Ends)
         PROVE  AudioTyped'
    <2>1. rows' \in Seq(BOOLEAN)
      BY <1>10, EndedRows DEF EndSession
    <2>2. turn' \in [Ids -> Stretches]
      BY <1>10 DEF EndSession, AudioTyped, Stretches
    <2> QED BY <1>10, <2>1, <2>2 DEF EndSession, ingest, AudioTyped
  <1>11. CASE End
    <2>1. Head(queue).session \in Nat
      BY <1>11, HeadTyped DEF End, Ends, TrueFrames
    <2> QED BY <1>10, <1>11, <2>1, HeadTyped DEF End
  <1>12. CASE Flush
    <2>1. \A s \in Unflushed : s \in Nat
      BY DEF Unflushed, Ids
    <2> QED BY <1>10, <1>12, <2>1 DEF Flush, ingest, AudioTyped
  <1>13. CASE UNCHANGED vars
    BY <1>13 DEF vars, ingest, AudioTyped
  <1> QED
    BY <1>1, <1>2, <1>3, <1>4, <1>5, <1>6, <1>7, <1>8, <1>9, <1>11, <1>12, <1>13
       DEF Next, Serving, Janitor, Inference

-----------------------------------------------------------------------------
(* Who answers for a session is kept by every step.  First the steps that  *)
(* leave queue and rows alone and lose no session of the table.            *)
LEMMA QueueAndRowsKept ==
  ASSUME AudioTyped, EndsInv, UNCHANGED <<queue, rows>>,
         \A s \in Nat \ {0} : InTable(s) => InTable(s)' \/ (janitor' \in Ending /\ s \in janitor'.ends),
         janitor \in Ending => janitor' = janitor,
         ~QueueOpen' => janitor' = Gone,
         phase' = "stopped" => queue = <<>>
  PROVE  EndsInv'
  <1>1. Len(rows) \in Nat
    BY LenProperties DEF AudioTyped
  <1>2. ASSUME NEW s \in 1..Len(rows)
        PROVE  Accounted(s)'
    <2>1. s \in Nat \ {0} /\ Accounted(s)
      BY <1>1, <1>2 DEF EndsInv
    <2>2. EndQueued(s) => EndQueued(s)'
      BY DEF EndQueued
    <2> QED BY <2>1, <2>2 DEF Accounted
  <1> QED BY <1>2 DEF EndsInv

LEMMA PlaceKeepsEnds ==
  ASSUME AudioTyped, EndsInv, NEW p \in Posts, Place(p)
  PROVE  EndsInv'
  <1>1. /\ UNCHANGED <<queue, janitor, phase>>
        /\ \A s \in Nat \ {0} : InTable(s) => InTable(s)'
    BY PlaceTyped
  <1>2. QueueOpen' = QueueOpen
    BY <1>1 DEF QueueOpen
  <1>3. CASE rows' = rows
    BY <1>1, <1>2, <1>3, QueueAndRowsKept DEF EndsInv
  <1>4. CASE /\ rows' = Append(rows, FALSE)
             /\ \E q \in Streams : table'[q].session = Len(rows) + 1
    <2>1. /\ Len(rows) \in Nat /\ Len(rows') = Len(rows) + 1
          /\ \A i \in 1..Len(rows) : rows'[i] = rows[i]
      BY <1>4, LenProperties, AppendProperties DEF AudioTyped
    <2>2. ASSUME NEW s \in 1..Len(rows')
          PROVE  Accounted(s)'
      <3>1. CASE s = Len(rows) + 1
        BY <1>4, <3>1 DEF Accounted, InTable
      <3>2. CASE s # Len(rows) + 1
        <4>1. s \in 1..Len(rows) /\ s \in Nat \ {0}
          BY <2>1, <2>2, <3>2
        <4>2. Accounted(s) /\ rows'[s] = rows[s]
          BY <2>1, <4>1 DEF EndsInv
        <4>3. EndQueued(s) => EndQueued(s)'
          BY <1>1 DEF EndQueued
        <4> QED BY <1>1, <4>1, <4>2, <4>3 DEF Accounted
      <3> QED BY <3>1, <3>2
    <2> QED BY <1>1, <1>2, <2>2 DEF EndsInv
  <1> QED BY <1>3, <1>4, PlaceTyped

(* A sweep or the last look: the sessions that leave the table are the     *)
(* janitor's to end.                                                       *)
LEMMA JanitorTakesThemAll ==
  ASSUME AudioTyped, EndsInv, Sweep \/ CloseAll
  PROVE  EndsInv'
  <1>1. janitor = Asleep /\ UNCHANGED <<rows, phase, queue>>
    BY DEF Sweep, CloseAll
  <1>2. QueueOpen /\ QueueOpen' /\ janitor \notin Ending
    BY <1>1 DEF EndsInv, QueueOpen, Asleep, Gone, Ending
  <1>3. ASSUME NEW s \in Nat \ {0}, InTable(s)
        PROVE  InTable(s)' \/ (janitor' \in Ending /\ s \in janitor'.ends)
    <2>1. PICK k \in Streams : table[k].session = s
      BY <1>3 DEF InTable
    <2>2. table[k] # NoStream /\ \A q \in Streams : table[q].session \in Nat
      BY <2>1 DEF NoStream, AudioTyped, TrueRuns
    <2>3. CASE Sweep
      <3>1. janitor' \in Ending
        BY <2>2, <2>3 DEF Sweep, Ending, QuietKeys
      <3>2. CASE k \in QuietKeys
        BY <2>1, <2>3, <3>1, <3>2 DEF Sweep
      <3>3. CASE k \notin QuietKeys
        BY <2>1, <2>3, <3>3 DEF Sweep, Without, InTable
      <3> QED BY <3>2, <3>3
    <2>4. CASE CloseAll
      <3>1. janitor' \in Ending
        <4>1. {table[q].session : q \in Streams} \ {NoStream.session} \in SUBSET Nat
          BY <2>2
        <4> QED BY <2>4, <4>1 DEF CloseAll, Ending
      <3> QED BY <1>3, <2>1, <2>4, <3>1 DEF CloseAll, NoStream
    <2> QED BY <2>3, <2>4
  <1> QED BY <1>1, <1>2, <1>3, QueueAndRowsKept DEF EndsInv, QueueOpen

(* An event is queued behind the others while the queue is open.           *)
LEMMA PushKeepsEnds ==
  ASSUME AudioTyped, NEW e \in TrueFrames \union Ends, queue' = Pushed(e), NEW s \in Nat
  PROVE  /\ EndQueued(s) => EndQueued(s)'
         /\ QueueOpen /\ e = [kind |-> "end", session |-> s] => EndQueued(s)'
  BY PushedTyped DEF EndQueued

LEMMA QueueFrameKeepsEnds ==
  ASSUME AudioTyped, EndsInv, NEW p \in Posts, QueueFrame(p)
  PROVE  EndsInv'
  <1>1. /\ post[p].event \in TrueFrames /\ queue' = Pushed(post[p].event)
        /\ UNCHANGED <<table, rows, janitor, phase>>
    BY DEF QueueFrame, AudioTyped, Free, Sent, Placed
  <1>2. ASSUME NEW s \in 1..Len(rows)
        PROVE  Accounted(s)'
    <2>1. Accounted(s) /\ s \in Nat
      BY <1>2 DEF EndsInv
    <2>2. EndQueued(s) => EndQueued(s)'
      BY <1>1, <2>1, PushKeepsEnds
    <2> QED BY <1>1, <2>1, <2>2 DEF Accounted, InTable
  <1>3. ~QueueOpen => queue' = queue
    BY <1>1 DEF Pushed
  <1> QED BY <1>1, <1>2, <1>3 DEF EndsInv, QueueOpen

(* The janitor queues an end, and the queue is open as long as it has one. *)
LEMMA QueueEndKeepsEnds ==
  ASSUME AudioTyped, EndsInv, QueueEnd
  PROVE  EndsInv'
  <1>1. janitor \in Ending /\ janitor # Gone /\ UNCHANGED <<table, rows, phase>>
    BY DEF QueueEnd, AudioTyped, Asleep, Gone, Ending, ingest
  <1>2. QueueOpen /\ QueueOpen' /\ phase' # "stopped"
    BY <1>1 DEF EndsInv, QueueOpen
  <1>3. CASE \E t \in janitor.ends :
                /\ queue' = Pushed([kind |-> "end", session |-> t])
                /\ janitor' = [janitor EXCEPT !.ends = @ \ {t}]
    <2>1. PICK t \in janitor.ends :
                /\ queue' = Pushed([kind |-> "end", session |-> t])
                /\ janitor' = [janitor EXCEPT !.ends = @ \ {t}]
      BY <1>3
    <2>2. [kind |-> "end", session |-> t] \in Ends /\ t \in Nat
      BY <1>1 DEF Ending, Ends
    <2>3. janitor' \in Ending /\ janitor'.ends = janitor.ends \ {t}
      BY <1>1, <2>1 DEF Ending
    <2>4. ASSUME NEW s \in 1..Len(rows)
          PROVE  Accounted(s)'
      <3>1. Accounted(s) /\ s \in Nat
        BY <2>4 DEF EndsInv
      <3>2. EndQueued(s) \/ s = t => EndQueued(s)'
        BY <1>2, <2>1, <2>2, <3>1, PushKeepsEnds
      <3> QED BY <1>1, <2>3, <3>1, <3>2 DEF Accounted, InTable
    <2> QED BY <1>1, <1>2, <2>4 DEF EndsInv
  <1>4. CASE janitor.ends = {} /\ queue' = queue
    <2>1. ASSUME NEW s \in 1..Len(rows)
          PROVE  Accounted(s)'
      <3>1. Accounted(s)
        BY <2>1 DEF EndsInv
      <3> QED BY <1>1, <1>4, <3>1 DEF Accounted, InTable, EndQueued
    <2> QED BY <1>1, <1>2, <2>1 DEF EndsInv
  <1> QED BY <1>3, <1>4 DEF QueueEnd

(* The inference thread takes the head of the queue: an end sets its row.  *)
LEMMA HeadKeepsEnds ==
  ASSUME AudioTyped, EndsInv, Analyse \/ End
  PROVE  EndsInv'
  <1>1. /\ queue # <<>> /\ queue' = Tail(queue)
        /\ UNCHANGED <<table, janitor, phase>>
    BY DEF Analyse, End, EndSession, ingest
  <1>2. QueueOpen' = QueueOpen
    BY <1>1 DEF QueueOpen
  <1>3. ASSUME NEW s \in Nat, EndQueued(s), queue[1] # [kind |-> "end", session |-> s]
        PROVE  EndQueued(s)'
    <2>1. PICK i \in 1..Len(queue) : queue[i] = [kind |-> "end", session |-> s]
      BY <1>3 DEF EndQueued
    <2>2. i - 1 \in 1..Len(Tail(queue)) /\ Tail(queue)[i - 1] = queue[i]
      BY <1>1, <1>3, <2>1, HeadTyped
    <2> QED BY <1>1, <2>1, <2>2 DEF EndQueued
  <1>4. Len(rows') = Len(rows)
        /\ \A s \in 1..Len(rows) :
              /\ rows[s] => rows'[s]
              /\ queue[1] = [kind |-> "end", session |-> s] => rows'[s]
    <2>1. Head(queue) = queue[1] /\ queue[1] \in TrueFrames \union Ends
      BY <1>1, HeadTyped
    <2>2. CASE Analyse
      BY <2>1, <2>2 DEF Analyse
    <2>3. CASE End
      <3>1. queue[1].session \in Nat /\ rows' = [rows EXCEPT ![queue[1].session] = TRUE]
        BY <2>1, <2>3 DEF End, EndSession, TrueFrames, Ends
      <3> QED BY <3>1, EndedRows
    <2> QED BY <2>2, <2>3
  <1>5. ASSUME NEW s \in 1..Len(rows')
        PROVE  Accounted(s)'
    <2>1. s \in 1..Len(rows) /\ s \in Nat /\ Accounted(s)
      BY <1>4, <1>5 DEF EndsInv
    <2> QED BY <1>1, <1>3, <1>4, <2>1 DEF Accounted, InTable
  <1>6. phase # "stopped"
    BY <1>1 DEF EndsInv
  <1> QED BY <1>1, <1>2, <1>5, <1>6 DEF EndsInv

LEMMA FlushKeepsEnds ==
  ASSUME AudioTyped, EndsInv, Flush
  PROVE  EndsInv'
  <1>1. /\ ~QueueOpen /\ ~QueueOpen' /\ queue = <<>>
        /\ UNCHANGED <<queue, table, janitor>>
    BY DEF Flush, EndSession, ingest, QueueOpen
  <1>2. Len(rows') = Len(rows) /\ \A s \in 1..Len(rows) : rows[s] => rows'[s]
    <2>1. CASE rows' = rows
      BY <2>1
    <2>2. ASSUME NEW t \in Unflushed, EndSession(t)
          PROVE  Len(rows') = Len(rows) /\ \A s \in 1..Len(rows) : rows[s] => rows'[s]
      BY <2>2, EndedRows DEF EndSession, Unflushed, Ids
    <2> QED BY <2>1, <2>2 DEF Flush
  <1>3. ASSUME NEW s \in 1..Len(rows')
        PROVE  Accounted(s)'
    <2>1. s \in 1..Len(rows) /\ Accounted(s)
      BY <1>2, <1>3 DEF EndsInv
    <2> QED BY <1>1, <1>2, <2>1 DEF Accounted, InTable, EndQueued
  <1> QED BY <1>1, <1>3 DEF EndsInv

LEMMA StopKeepsEnds ==
  ASSUME AudioTyped, EndsInv, Stop
  PROVE  EndsInv'
  <1>1. UNCHANGED <<table, rows, janitor, queue>>
    BY DEF Stop, ingest
  <1>2. \A s \in Nat \ {0} : InTable(s) => InTable(s)'
    BY <1>1 DEF InTable
  <1>3. PICK step \in 1..3 :
           phase = Phases[step] /\ StopReady(step) /\ phase' = Phases[step + 1]
    BY DEF Stop
  <1>4. /\ Phases[2] = "ingest closed" /\ Phases[3] = "janitor told"
        /\ Phases[4] = "queue closed"
    BY DEF Phases
  <1>5. \/ step + 1 = 2 /\ phase' = Phases[2]
        \/ step + 1 = 3 /\ phase' = Phases[3]
        \/ step = 3 /\ step + 1 = 4 /\ phase' = Phases[4] /\ StopReady(3)
    BY <1>3
  <1>6. \/ phase' \in {"ingest closed", "janitor told"}
        \/ phase' = "queue closed" /\ janitor = Gone
    <2>1. janitor.at = "gone" => janitor = Gone
      BY DEF AudioTyped, Asleep, Gone, Ending
    <2>2. StopReady(3) => janitor.at = "gone"
      BY <1>4 DEF StopReady
    <2> QED BY <1>4, <1>5, <2>1, <2>2
  <1>7. phase' # "stopped"
    BY <1>6
  <1>8. ~QueueOpen' => janitor' = Gone
    BY <1>1, <1>6 DEF QueueOpen
  <1> QED BY <1>1, <1>2, <1>7, <1>8, QueueAndRowsKept

LEMMA EndsAreKept ==
  ASSUME AudioTyped, EndsInv, [Next]_vars
  PROVE  EndsInv'
  <1>1. CASE Tick \/ UNCHANGED vars \/ \E p \in Posts, k \in Streams : Accept(p, k)
    <2>1. UNCHANGED <<table, rows, janitor, phase, queue>>
      BY <1>1 DEF Tick, vars, ingest, Accept
    <2> QED BY <2>1 DEF EndsInv, Accounted, InTable, EndQueued, QueueOpen
  <1>2. ASSUME NEW p \in Posts, Place(p) \/ QueueFrame(p)
        PROVE  EndsInv'
    BY <1>2, PlaceKeepsEnds, QueueFrameKeepsEnds
  <1>3. CASE Janitor
    BY <1>3, JanitorTakesThemAll, QueueEndKeepsEnds DEF Janitor
  <1>4. CASE Stop
    BY <1>4, StopKeepsEnds
  <1>5. CASE Inference
    BY <1>5, HeadKeepsEnds, FlushKeepsEnds DEF Inference
  <1> QED BY <1>1, <1>2, <1>3, <1>4, <1>5 DEF Next, Serving

-----------------------------------------------------------------------------
(* The inductive invariant: true stamps and unbroken stretches, and for    *)
(* every session somebody who has ended it or will.                        *)
THEOREM AudioInvariant == Spec => []AudioInv
  <1>1. Init => AudioInv
    BY InitHolds
  <1>2. AudioInv /\ [Next]_vars => AudioInv'
    BY TypingIsKept, EndsAreKept DEF AudioInv
  <1> QED BY <1>1, <1>2, PTL DEF Spec

(* What the pipeline holds as one stretch of a session's audio never joins *)
(* frames that were not next to each other in the call, whatever requests  *)
(* are lost, resent or queued in the other order (peruser.rs ingest,       *)
(* pipeline.rs maybe_reanchor).                                            *)
THEOREM NoSplicePerUser == Spec => []NoSpliceOverALostFrame
  <1>1. AudioInv => NoSpliceOverALostFrame
    <2> SUFFICES ASSUME AudioTyped, NEW s \in Ids
                 PROVE  Unbroken(turn[s].frames)
      BY DEF AudioInv, NoSpliceOverALostFrame, Unbroken
    <2>1. turn[s] \in Stretches
      BY DEF AudioTyped
    <2>2. Unbroken(NoTurn.frames)
      BY DEF NoTurn, Unbroken
    <2> QED BY <2>1, <2>2 DEF Stretches
  <1> QED BY <1>1, AudioInvariant, PTL

(* When the daemon has stopped, a session still open is one whose stream   *)
(* is in the table, opened after the janitor's last look at it (main.rs    *)
(* stops ingest, janitor and queue in this order).                         *)
THEOREM StopEndsSessions == Spec => []OnlyLateSessionsStayOpen
  <1>1. AudioInv => OnlyLateSessionsStayOpen
    <2> SUFFICES ASSUME AudioInv, phase = "stopped", NEW s \in DOMAIN rows
                 PROVE  rows[s] \/ InTable(s)
      BY DEF OnlyLateSessionsStayOpen
    <2>1. s \in 1..Len(rows)
      BY LenProperties DEF AudioInv, AudioTyped
    <2>2. Accounted(s) /\ janitor = Gone /\ queue = <<>>
      BY <2>1 DEF AudioInv, EndsInv, QueueOpen
    <2>3. Gone \notin Ending
      BY DEF Gone, Ending
    <2> QED BY <2>2, <2>3 DEF Accounted, EndQueued
  <1> QED BY <1>1, AudioInvariant, PTL

=============================================================================
