----------------------- MODULE TurnSegmentationProofs -----------------------
(***************************************************************************)
(* Proofs about TurnSegmentation, for every frame size, threshold, buffer  *)
(* size, hole and flap.  The inductive invariant has one conjunct per      *)
(* concern: the counters and the open segment, the open turns, their       *)
(* order, the speech they account for, the times the ring joins.           *)
(***************************************************************************)
EXTENDS TurnSegmentation, SequenceTheorems, TLAPS

-----------------------------------------------------------------------------
(* The first sample that no turn, open or written, may claim any more.     *)
mark == IF in_speech THEN speech_start ELSE cursor

(* A turn whose voice starts at x still has its audio: only a discard may  *)
(* have cut the padding in front of it.                                    *)
HeldFrom(x) ==
    \/ ring_base <= monus(x, Pad)
    \/ ring_base = fresh_from /\ fresh_from <= x

CountersInv ==
    /\ pc = "idle" => emitted = <<>>
    /\ RingAligned
    /\ in_speech => speech_start <= last_voiced_end /\ last_voiced_end <= cursor
    /\ HeldFrom(mark)

(* Turns that are well formed, scored to the end and still in the ring.    *)
Fitting ==
    {t \in Turn :
        /\ t.start <= t.voiced_start /\ t.voiced_start <= t.voiced_end
        /\ t.voiced_end <= t.end /\ t.end <= cursor
        /\ \/ ring_base <= t.start
           \/ ring_base = fresh_from /\ fresh_from <= t.voiced_start}

AllIn(em, pe, X) ==
    /\ \A i \in 1..Len(em) : em[i] \in X
    /\ pe = NoTurn \/ pe \in X

TurnsFit == AllIn(emitted, pending, Fitting)

(* Rows, then turns in hand, then the open turn, then x.                   *)
Chain(rs, em, pe, x) ==
    /\ \A i, j \in 1..Len(rs) :
          i < j => rs[i].turn.voiced_end <= rs[j].turn.voiced_start
    /\ \A i \in 1..Len(rs), j \in 1..Len(em) :
          rs[i].turn.voiced_end <= em[j].voiced_start
    /\ \A i, j \in 1..Len(em) : i < j => em[i].voiced_end <= em[j].voiced_start
    /\ pe # NoTurn =>
          /\ \A i \in 1..Len(rs) : rs[i].turn.voiced_end <= pe.voiced_start
          /\ \A i \in 1..Len(em) : em[i].voiced_end <= pe.voiced_start
          /\ pe.voiced_end <= x
    /\ \A i \in 1..Len(rs) : rs[i].turn.voiced_end <= x
    /\ \A i \in 1..Len(em) : em[i].voiced_end <= x

ChainInv == Chain(rows, emitted, pending, mark)

(* The frames a turn, or a sequence of turns, accounts for.                *)
Covers(t, f) == t.voiced_start <= f /\ f < t.voiced_end

Covered(rs, em, pe, f) ==
    \/ \E i \in 1..Len(rs) : Covers(rs[i].turn, f)
    \/ \E i \in 1..Len(em) : Covers(em[i], f)
    \/ pe # NoTurn /\ Covers(pe, f)

Segment == {f \in Nat : in_speech /\ speech_start <= f /\ f < last_voiced_end}

SpokenInv == \A f \in spoken : f \in Segment \/ Covered(rows, emitted, pending, f)

(* Turns no longer than a maximal segment and the frame that reached it.   *)
Capping == {t \in Turn : t.voiced_end - t.voiced_start < MaxSegment + Frame}

CapInv ==
    /\ in_speech => cursor - speech_start < MaxSegment
    /\ AllIn(emitted, pending, Capping)
    /\ \A i \in 1..Len(rows) : rows[i].turn \in Capping

(* What was lost since the ring's last sample, and what of it the next     *)
(* buffer's stamp will show.                                               *)
drift == now - (anchor + (received - anchor_sample))
lost == now - ring[Len(ring)] - 1

SeamsIn(hid, audio) ==
    \A j \in 2..Len(audio) :
        \/ audio[j - 1] < audio[j] /\ Unnoticed(audio[j] - audio[j - 1] - 1)
        \/ \E h \in hid : audio[j - 1] < h /\ h <= audio[j]

SeamInv ==
    /\ anchor_sample <= received /\ 0 <= drift
    /\ SeamsIn(hidden, ring)
    /\ \A i \in 1..Len(rows) : SeamsIn(hidden, rows[i].audio)
    /\ ring # <<>> =>
          /\ 0 <= lost
          /\ anchor_sample < received => lost <= drift
          /\ anchor_sample = received =>
                \/ \E n \in SmallFlaps : lost <= MaxSkew + n + drift
                \/ \E h \in hidden : ring[Len(ring)] < h /\ h <= now

SegmentationInv ==
    /\ TypeOK /\ CountersInv
    /\ TurnsFit /\ ChainInv /\ SpokenInv
    /\ SeamInv

-----------------------------------------------------------------------------
(* A step of the segmenter as the merger sees it: a span may be offered,   *)
(* the open turn may be released before it and after it.                   *)
Pushes(offered, span, em, pe) ==
    \/ ~offered /\ em = emitted /\ pe = pending
    \/ offered /\ pending = NoTurn /\ em = emitted /\ pe = span
    \/ offered /\ Joins(span) /\ em = emitted /\ pe = Joined(span)
    \/ offered /\ pending # NoTurn /\ em = Append(emitted, pending) /\ pe = span

Merged(offered, span) ==
    \E em \in Seq(Turn), pe \in Turn \union {NoTurn} :
        /\ Pushes(offered, span, em, pe)
        /\ \/ emitted' = em /\ pending' = pe
           \/ pe # NoTurn /\ emitted' = Append(em, pe) /\ pending' = NoTurn

MergeStep ==
    /\ \E offered \in BOOLEAN, ve \in Nat :
          /\ Merged(offered, Span(speech_start, ve, cursor'))
          /\ offered => /\ in_speech /\ speech_start <= ve
                        /\ ve <= mark' /\ ve <= cursor' /\ ve <= cursor + Frame
          /\ \A f \in spoken' :
                \/ f \in Segment'
                \/ (offered /\ speech_start <= f /\ f < ve)
                \/ (f \in spoken /\ f \notin Segment)
    /\ mark <= mark' /\ cursor <= cursor' /\ cursor' <= received
    /\ in_speech' => speech_start' <= last_voiced_end' /\ last_voiced_end' <= cursor'
    /\ pc' # "idle"
    /\ UNCHANGED <<clock_vars, ring_vars, rows, fresh_from>>

LEMMA MonusIsNat ==
  \A a, b \in Nat : /\ monus(a, b) \in Nat /\ monus(a, b) <= a
                    /\ lesser(a, b) \in Nat /\ lesser(a, b) <= a /\ lesser(a, b) <= b
  BY DEF monus, lesser

LEMMA MonusIsMonotone ==
  \A a, b, c \in Nat : a <= b => monus(a, c) <= monus(b, c)
  BY DEF monus

LEMMA Constants ==
  /\ Frame \in Nat /\ 0 < Frame /\ NoTurn \notin Turn
  /\ MinSpeech \in Nat /\ MinSilence \in Nat /\ Pad \in Nat /\ MaxSegment \in Nat
  /\ MergeGap \in Nat /\ MaxSkew \in Nat /\ MaxTime \in Nat /\ 0 < MaxSegment
  /\ Chunks \subseteq Nat /\ Holes \subseteq Nat /\ Flaps \subseteq Nat
  /\ \A n \in Chunks : 0 < n
  BY SegmentationAssumption DEF Turn

LEMMA SpanIsATurn ==
  ASSUME NEW vs \in Nat, NEW ve \in Nat, NEW at \in Nat
  PROVE  /\ Span(vs, ve, at) \in Turn
         /\ Span(vs, ve, at) # NoTurn
<1>1. /\ monus(vs, Pad) \in Nat /\ ve + Pad \in Nat
  BY Constants, MonusIsNat
<1>2. lesser(ve + Pad, at) \in Nat
  BY <1>1, MonusIsNat
<1>3. Span(vs, ve, at) \in Turn
  BY <1>1, <1>2 DEF Span, Turn
<1>4. QED
  BY <1>3, Constants

LEMMA JoinedIsATurn ==
  ASSUME NEW span \in Turn, pending \in Turn
  PROVE  Joined(span) \in Turn
  BY DEF Joined, Turn

LEMMA Appended ==
  ASSUME NEW S, NEW s \in Seq(S), NEW e \in S
  PROVE  /\ s \o <<e>> = Append(s, e)
         /\ Append(s, e) \in Seq(S)
         /\ Len(Append(s, e)) = Len(s) + 1
         /\ \A i \in 1..Len(s) : Append(s, e)[i] = s[i]
         /\ Append(s, e)[Len(s) + 1] = e
  OBVIOUS

LEMMA Reassociated ==
  ASSUME NEW S, NEW s \in Seq(S), NEW t \in Seq(S), NEW u \in Seq(S)
  PROVE  s \o (t \o u) = (s \o t) \o u
  BY ConcatAssociative

(* TurnMerger::poll after a push: what was released, then the open turn.   *)
LEMMA PollMerges ==
  ASSUME TypeOK, NEW em \in Seq(Turn), NEW released, NEW turn \in Turn \union {NoTurn},
         NEW at \in Nat, Poll(turn, released, at),
         \/ released = <<>> /\ em = emitted
         \/ pending # NoTurn /\ released = <<pending>> /\ em = Append(emitted, pending)
  PROVE  \/ emitted' = em /\ pending' = turn
         \/ turn # NoTurn /\ emitted' = Append(em, turn) /\ pending' = NoTurn
<1>1. emitted \in Seq(Turn) /\ (pending # NoTurn => pending \in Turn)
  BY DEF TypeOK
<1>2. emitted \o released = em
  <2>1. CASE released = <<>> /\ em = emitted
    BY <1>1, <2>1, ConcatEmptySeq
  <2>2. CASE pending # NoTurn /\ released = <<pending>> /\ em = Append(emitted, pending)
    BY <1>1, <2>2, Appended
  <2>3. QED
    BY <2>1, <2>2
<1>3. ASSUME Overdue(turn, at)
      PROVE  turn # NoTurn /\ emitted' = Append(em, turn) /\ pending' = NoTurn
  <2>1. turn \in Turn /\ emitted' = emitted \o Append(released, turn) /\ pending' = NoTurn
    BY <1>3 DEF Poll, Overdue
  <2>2. released \in Seq(Turn) /\ Append(released, turn) = released \o <<turn>>
    <3>1. CASE released = <<>>
      BY <2>1, <3>1
    <3>2. CASE pending # NoTurn /\ released = <<pending>>
      BY <1>1, <2>1, <3>2
    <3>3. QED
      BY <3>1, <3>2
  <2>3. emitted \o (released \o <<turn>>) = (emitted \o released) \o <<turn>>
    <3>1. <<turn>> \in Seq(Turn)
      BY <2>1
    <3>2. QED
      BY <1>1, <2>2, <3>1, Reassociated
  <2>4. emitted' = em \o <<turn>>
    BY <1>2, <2>1, <2>2, <2>3
  <2>5. em \o <<turn>> = Append(em, turn)
    BY <2>1, Appended
  <2>6. QED
    BY <1>3, <2>1, <2>4, <2>5 DEF Overdue
<1>4. ~Overdue(turn, at) => emitted' = em /\ pending' = turn
  BY <1>2 DEF Poll
<1>5. QED
  BY <1>3, <1>4

LEMMA OfferMerges ==
  ASSUME TypeOK, NEW vs \in Nat, NEW ve \in Nat, NEW at \in Nat, Offer(vs, ve, at)
  PROVE  Merged(LongEnough(vs, ve), Span(vs, ve, at))
<1> DEFINE span == Span(vs, ve, at)
<1>1. /\ emitted \in Seq(Turn) /\ pending \in Turn \union {NoTurn}
      /\ span \in Turn /\ span # NoTurn
  BY SpanIsATurn DEF TypeOK
<1>2. CASE ~LongEnough(vs, ve)
  BY <1>1, <1>2, PollMerges DEF Offer, Merged, Pushes
<1>3. CASE LongEnough(vs, ve)
  <2>1. Poll(Pushed(span), ReleasedByPush(span), at)
    BY <1>3 DEF Offer
  <2>2. CASE Joins(span)
    <3>1. pending \in Turn /\ Joined(span) \in Turn
      BY <1>1, <2>2, JoinedIsATurn DEF Joins
    <3>2. Pushed(span) = Joined(span) /\ ReleasedByPush(span) = <<>>
      BY <2>2 DEF Pushed, ReleasedByPush
    <3>3. QED
      BY <1>1, <1>3, <2>1, <2>2, <3>1, <3>2, PollMerges DEF Merged, Pushes
  <2>3. CASE pending = NoTurn
    <3>1. Pushed(span) = span /\ ReleasedByPush(span) = <<>>
      BY <2>3 DEF Pushed, ReleasedByPush, Joins
    <3>2. QED
      BY <1>1, <1>3, <2>1, <2>3, <3>1, PollMerges DEF Merged, Pushes
  <2>4. CASE pending # NoTurn /\ ~Joins(span)
    <3>1. Pushed(span) = span /\ ReleasedByPush(span) = <<pending>>
      BY <2>4 DEF Pushed, ReleasedByPush
    <3>2. Append(emitted, pending) \in Seq(Turn)
      BY <1>1, <2>4, Appended
    <3>3. QED
      BY <1>1, <1>3, <2>1, <2>4, <3>1, <3>2, PollMerges DEF Merged, Pushes
  <2>5. QED
    BY <2>2, <2>3, <2>4
<1>4. QED
  BY <1>2, <1>3

LEMMA KeepsMerge ==
  ASSUME TypeOK, NEW at \in Nat, Poll(pending, <<>>, at), NEW span
  PROVE  Merged(FALSE, span)
  BY PollMerges DEF TypeOK, Merged, Pushes

LEMMA IsMergeStep ==
  ASSUME NEW offered \in BOOLEAN, NEW ve \in Nat,
         Merged(offered, Span(speech_start, ve, cursor')),
         offered => /\ in_speech /\ speech_start <= ve
                    /\ ve <= mark' /\ ve <= cursor' /\ ve <= cursor + Frame,
         \A f \in spoken' : \/ f \in Segment'
                            \/ (offered /\ speech_start <= f /\ f < ve)
                            \/ (f \in spoken /\ f \notin Segment),
         mark <= mark', cursor <= cursor', cursor' <= received,
         in_speech' => speech_start' <= last_voiced_end' /\ last_voiced_end' <= cursor',
         pc' # "idle", UNCHANGED <<clock_vars, ring_vars, rows, fresh_from>>
  PROVE  MergeStep
  BY Zenon DEF MergeStep

LEMMA MergedTypes ==
  ASSUME TypeOK, NEW offered, NEW span \in Turn, Merged(offered, span)
  PROVE  emitted' \in Seq(Turn) /\ pending' \in Turn \union {NoTurn}
  BY Appended DEF Merged

(* Every step that scores a frame, and the flush at the end, is such a     *)
(* step.                                                                   *)
LEMMA FrameWhenIdleMerges ==
  ASSUME TypeOK, CountersInv, NEW voiced \in BOOLEAN, FrameWhenIdle(voiced)
  PROVE  MergeStep
<1>1. /\ cursor \in Nat /\ frame_end \in Nat /\ spoken \subseteq Nat /\ received \in Nat
      /\ cursor < frame_end /\ cursor' = frame_end /\ frame_end <= received
      /\ ~in_speech /\ pc' # "idle"
  BY Constants DEF TypeOK, frame_end, FrameWhenIdle, Scoring
<1>2. Merged(FALSE, Span(speech_start, 0, cursor'))
  BY <1>1, KeepsMerge DEF FrameWhenIdle
<1>3. IF voiced THEN in_speech' /\ speech_start' = cursor /\ last_voiced_end' = frame_end
                ELSE ~in_speech'
  BY <1>1 DEF FrameWhenIdle
<1>4. mark <= mark' /\ (in_speech' => speech_start' <= last_voiced_end'
                                      /\ last_voiced_end' <= cursor')
  BY <1>1, <1>3 DEF mark
<1>5. \A f \in spoken' : f \in Segment' \/ (f \in spoken /\ f \notin Segment)
  BY <1>1, <1>3 DEF FrameWhenIdle, heard, Segment
<1>6. UNCHANGED <<clock_vars, ring_vars, rows, fresh_from>>
  BY DEF FrameWhenIdle
<1>7. QED
  <2>1. cursor <= cursor' /\ cursor' <= received /\ pc' # "idle" /\ 0 \in Nat
    BY <1>1
  <2>2. \A f \in spoken' : \/ f \in Segment'
                           \/ (FALSE /\ speech_start <= f /\ f < 0)
                           \/ (f \in spoken /\ f \notin Segment)
    BY <1>5
  <2>3. QED
    BY <1>2, <1>4, <1>6, <2>1, <2>2, IsMergeStep, Zenon

LEMMA FrameInSpeechMerges ==
  ASSUME TypeOK, CountersInv, NEW voiced \in BOOLEAN, FrameInSpeech(voiced)
  PROVE  MergeStep
<1>1. /\ cursor \in Nat /\ frame_end \in Nat /\ spoken \subseteq Nat /\ received \in Nat
      /\ cursor < frame_end /\ cursor' = frame_end /\ frame_end <= received
      /\ in_speech /\ in_speech' /\ pc' = pc /\ pc = "buffer"
      /\ speech_start \in Nat /\ last_voiced_end \in Nat
      /\ speech_start <= last_voiced_end /\ last_voiced_end <= cursor
  BY Constants DEF TypeOK, frame_end, FrameInSpeech, Scoring, CountersInv
<1>2. Merged(FALSE, Span(speech_start, 0, cursor'))
  BY <1>1, KeepsMerge DEF FrameInSpeech
<1>3. /\ last_voiced_end' = IF voiced THEN frame_end ELSE last_voiced_end
      /\ speech_start' = speech_start
  BY DEF FrameInSpeech
<1>4. mark <= mark' /\ (in_speech' => speech_start' <= last_voiced_end'
                                      /\ last_voiced_end' <= cursor')
  BY <1>1, <1>3 DEF mark
<1>5. \A f \in spoken' : f \in Segment' \/ (f \in spoken /\ f \notin Segment)
  <2>1. spoken' = spoken \union heard(voiced)
    BY DEF FrameInSpeech
  <2>2. \A f \in heard(voiced) : f \in Segment'
    BY <1>1, <1>3 DEF heard, Segment
  <2>3. \A f \in spoken : f \in Segment => f \in Segment'
    BY <1>1, <1>3 DEF Segment
  <2>4. QED
    BY <2>1, <2>2, <2>3
<1>6. UNCHANGED <<clock_vars, ring_vars, rows, fresh_from>>
  BY DEF FrameInSpeech
<1>7. QED
  <2>1. cursor <= cursor' /\ cursor' <= received /\ pc' # "idle" /\ 0 \in Nat
    BY <1>1
  <2>2. \A f \in spoken' : \/ f \in Segment'
                           \/ (FALSE /\ speech_start <= f /\ f < 0)
                           \/ (f \in spoken /\ f \notin Segment)
    BY <1>5
  <2>3. QED
    BY <1>2, <1>4, <1>6, <2>1, <2>2, IsMergeStep, Zenon

(* What closes a segment is owed a row for its frames only if it is long   *)
(* enough to be offered.                                                   *)
LEMMA ClosedSegmentIsOwed ==
  ASSUME NEW ve \in Nat, NEW frames, NEW f \in Owed(speech_start, ve, frames),
         speech_start <= f, f < ve
  PROVE  LongEnough(speech_start, ve) /\ f \in frames
  BY DEF Owed

LEMMA FrameAtCapMerges ==
  ASSUME TypeOK, CountersInv, NEW voiced \in BOOLEAN, FrameAtCap(voiced)
  PROVE  MergeStep
<1>1. /\ cursor \in Nat /\ frame_end \in Nat /\ spoken \subseteq Nat /\ received \in Nat
      /\ cursor < frame_end /\ cursor' = frame_end /\ frame_end <= received
      /\ frame_end <= cursor + Frame
      /\ in_speech /\ in_speech' = voiced /\ pc' = pc /\ pc = "buffer"
      /\ speech_start \in Nat /\ last_voiced_end \in Nat
      /\ speech_start <= last_voiced_end /\ last_voiced_end <= cursor
  BY Constants DEF TypeOK, frame_end, FrameAtCap, Scoring, CountersInv
<1>2. /\ LongEnough(speech_start, frame_end) \in BOOLEAN
      /\ Merged(LongEnough(speech_start, frame_end), Span(speech_start, frame_end, cursor'))
  BY <1>1, OfferMerges DEF FrameAtCap, LongEnough
<1>3. voiced => speech_start' = frame_end /\ last_voiced_end' = frame_end
  BY DEF FrameAtCap
<1>4. /\ mark <= mark' /\ frame_end <= mark' /\ speech_start <= frame_end
      /\ (in_speech' => speech_start' <= last_voiced_end' /\ last_voiced_end' <= cursor')
  BY <1>1, <1>3 DEF mark
<1>5. \A f \in spoken' :
          \/ LongEnough(speech_start, frame_end) /\ speech_start <= f /\ f < frame_end
          \/ (f \in spoken /\ f \notin Segment)
  <2>1. spoken' = Owed(speech_start, frame_end, spoken \union heard(voiced))
    BY DEF FrameAtCap
  <2>2. \A f \in heard(voiced) : speech_start <= f /\ f < frame_end
    BY <1>1 DEF heard
  <2>3. \A f \in Nat : f \in Segment => speech_start <= f /\ f < frame_end
    BY <1>1 DEF Segment
  <2>4. spoken' \subseteq spoken \union heard(voiced)
    BY <2>1 DEF Owed
  <2>5. QED
    BY <1>1, <2>1, <2>2, <2>3, <2>4, ClosedSegmentIsOwed
<1>6. UNCHANGED <<clock_vars, ring_vars, rows, fresh_from>>
  BY DEF FrameAtCap
<1>7. QED
  BY <1>1, <1>2, <1>4, <1>5, <1>6, IsMergeStep

LEMMA FrameClosesMerges ==
  ASSUME TypeOK, CountersInv, FrameCloses
  PROVE  MergeStep
<1>1. /\ cursor \in Nat /\ frame_end \in Nat /\ spoken \subseteq Nat /\ received \in Nat
      /\ cursor < frame_end /\ cursor' = frame_end /\ frame_end <= received
      /\ in_speech /\ ~in_speech' /\ pc' = pc /\ pc = "buffer"
      /\ speech_start \in Nat /\ last_voiced_end \in Nat
      /\ speech_start <= last_voiced_end /\ last_voiced_end <= cursor
  BY Constants DEF TypeOK, frame_end, FrameCloses, Scoring, CountersInv
<1>2. /\ LongEnough(speech_start, last_voiced_end) \in BOOLEAN
      /\ Merged(LongEnough(speech_start, last_voiced_end),
                Span(speech_start, last_voiced_end, cursor'))
  BY <1>1, OfferMerges DEF FrameCloses, LongEnough
<1>3. /\ mark <= mark' /\ last_voiced_end <= mark' /\ last_voiced_end <= cursor'
      /\ last_voiced_end <= cursor + Frame
  BY <1>1, Constants DEF mark
<1>4. \A f \in spoken' :
          \/ LongEnough(speech_start, last_voiced_end)
             /\ speech_start <= f /\ f < last_voiced_end
          \/ (f \in spoken /\ f \notin Segment)
  <2>1. spoken' = Owed(speech_start, last_voiced_end, spoken)
    BY DEF FrameCloses
  <2>2. spoken' \subseteq spoken
    BY <2>1 DEF Owed
  <2>3. QED
    BY <1>1, <2>1, <2>2, ClosedSegmentIsOwed DEF Segment
<1>5. UNCHANGED <<clock_vars, ring_vars, rows, fresh_from>>
  BY DEF FrameCloses
<1>6. QED
  BY <1>1, <1>2, <1>3, <1>4, <1>5, IsMergeStep

(* on_session_end's flush is one as well.                                  *)
LEMMA EndSessionMerges ==
  ASSUME TypeOK, CountersInv, EndSession
  PROVE  MergeStep
<1> DEFINE spanned == in_speech /\ LongEnough(speech_start, last_voiced_end)
           span == Span(speech_start, last_voiced_end, cursor)
           last == IF spanned THEN Pushed(span) ELSE pending
           first == IF spanned THEN ReleasedByPush(span) ELSE <<>>
<1>1. /\ cursor \in Nat /\ spoken \subseteq Nat /\ received \in Nat
      /\ cursor' = cursor /\ cursor <= received /\ emitted = <<>>
      /\ ~in_speech' /\ pc' = "ending" /\ in_speech \in BOOLEAN
      /\ speech_start \in Nat /\ last_voiced_end \in Nat
      /\ in_speech => speech_start <= last_voiced_end /\ last_voiced_end <= cursor
      /\ emitted \in Seq(Turn) /\ pending \in Turn \union {NoTurn}
      /\ span \in Turn /\ span # NoTurn
  BY SpanIsATurn DEF TypeOK, EndSession, CountersInv, RingAligned
<1>2. spanned \in BOOLEAN /\ Merged(spanned, Span(speech_start, last_voiced_end, cursor'))
  <2>1. emitted' = first \o (IF last = NoTurn THEN <<>> ELSE <<last>>) /\ pending' = NoTurn
    BY DEF EndSession
  <2> HIDE DEF span
  <2>2. CASE ~spanned
    <3>1. pending = NoTurn => emitted' = emitted
      BY <1>1, <2>1, <2>2
    <3>2. pending # NoTurn => emitted' = <<>> \o <<pending>>
      BY <1>1, <2>1, <2>2
    <3>4. pending # NoTurn => <<>> \o <<pending>> = Append(<<>>, pending)
      BY <1>1, Appended
    <3>3. QED
      BY <1>1, <2>1, <2>2, <3>1, <3>2, <3>4 DEF Merged, Pushes, span
  <2>3. CASE spanned /\ Joins(span)
    <3>1. pending \in Turn /\ Joined(span) \in Turn
      BY <1>1, <2>3, JoinedIsATurn DEF Joins
    <3>2. emitted' = Append(emitted, Joined(span))
      BY <1>1, <2>1, <2>3, <3>1, Constants, Appended DEF Pushed, ReleasedByPush
    <3>3. QED
      BY <1>1, <2>1, <2>3, <3>1, <3>2, Constants DEF Merged, Pushes, span
  <2>4. CASE spanned /\ pending = NoTurn
    <3>1. last = span /\ first = <<>>
      BY <2>4 DEF Pushed, ReleasedByPush, Joins
    <3>2. emitted' = <<>> \o <<span>>
      <4> HIDE DEF last, first
      <4> QED BY <1>1, <2>1, <3>1
    <3>4. <<>> \o <<span>> = Append(<<>>, span)
      BY <1>1, Appended
    <3>3. QED
      BY <1>1, <2>1, <2>4, <3>2, <3>4 DEF Merged, Pushes, span
  <2>5. CASE spanned /\ pending # NoTurn /\ ~Joins(span)
    <3>1. last = span /\ first = <<pending>>
      BY <2>5 DEF Pushed, ReleasedByPush
    <3>2. emitted' = <<pending>> \o <<span>>
      BY <1>1, <2>1, <3>1
    <3>5. <<pending>> \o <<span>> = Append(<<pending>>, span) /\ <<pending>> = Append(<<>>, pending)
      BY <1>1, <2>5, Appended
    <3>3. Append(emitted, pending) \in Seq(Turn)
      BY <1>1, <2>5, Appended
    <3>4. QED
      BY <1>1, <2>1, <2>5, <3>2, <3>3, <3>5 DEF Merged, Pushes, span
  <2>6. QED
    BY <2>2, <2>3, <2>4, <2>5
<1>3. /\ mark <= mark'
      /\ spanned => last_voiced_end <= mark' /\ last_voiced_end <= cursor + Frame
  BY <1>1, Constants DEF mark
<1>4. \A f \in spoken' :
          \/ spanned /\ speech_start <= f /\ f < last_voiced_end
          \/ (f \in spoken /\ f \notin Segment)
  <2>1. spoken' = IF in_speech THEN Owed(speech_start, last_voiced_end, spoken) ELSE spoken
    BY DEF EndSession
  <2>2. spoken' \subseteq spoken
    BY <2>1 DEF Owed
  <2>3. QED
    BY <1>1, <2>1, <2>2, ClosedSegmentIsOwed DEF Segment
<1>5. UNCHANGED <<clock_vars, ring_vars, rows, fresh_from>>
  BY DEF EndSession
<1>6. /\ spanned => in_speech
      /\ in_speech => speech_start <= last_voiced_end /\ last_voiced_end <= cursor'
      /\ cursor <= cursor' /\ cursor' <= received /\ pc' # "idle"
  BY <1>1
<1>7. QED
  <2> HIDE DEF spanned
  <2> QED BY <1>1, <1>2, <1>3, <1>4, <1>5, <1>6, IsMergeStep

Merging ==
    \/ \E voiced \in BOOLEAN :
          FrameWhenIdle(voiced) \/ FrameInSpeech(voiced) \/ FrameAtCap(voiced)
    \/ FrameCloses
    \/ EndSession

LEMMA MergingMerges ==
  ASSUME TypeOK, CountersInv, Merging
  PROVE  MergeStep
  BY FrameWhenIdleMerges, FrameInSpeechMerges, FrameAtCapMerges, FrameClosesMerges,
     EndSessionMerges DEF Merging

-----------------------------------------------------------------------------
(* What a row is given: the samples of the ring between two positions.     *)
LEMMA ExtractedAudio ==
  ASSUME TypeOK, NEW start \in Nat, NEW end \in Nat
  PROVE  /\ Extract(start, end) \in Seq(Nat)
         /\ \A i \in 1..Len(Extract(start, end)) :
               /\ monus(start, ring_base) + i \in 1..Len(ring)
               /\ Extract(start, end)[i] = ring[monus(start, ring_base) + i]
         /\ monus(start, ring_base) < lesser(monus(end, ring_base), Len(ring))
               => Extract(start, end) # <<>>
<1> DEFINE m == monus(start, ring_base)
           n == lesser(monus(end, ring_base), Len(ring))
<1>1. m \in Nat /\ n \in Nat /\ n <= Len(ring) /\ ring \in Seq(Nat) /\ Len(ring) \in Nat
  <2>1. ring \in Seq(Nat) /\ Len(ring) \in Nat /\ ring_base \in Nat
    BY DEF TypeOK
  <2>2. m \in Nat /\ monus(end, ring_base) \in Nat
    BY <2>1, MonusIsNat
  <2>3. QED
    BY <2>1, <2>2, MonusIsNat
<1>2. Extract(start, end) = SubSeq(ring, m + 1, n)
  BY DEF Extract
<1> HIDE DEF m, n
<1>3. \A i \in (m + 1)..n : ring[i] \in Nat
  BY <1>1
<1>4. /\ SubSeq(ring, m + 1, n) \in Seq(Nat)
      /\ Len(SubSeq(ring, m + 1, n)) = IF m + 1 <= n THEN n - (m + 1) + 1 ELSE 0
      /\ \A i \in 1..(n - (m + 1) + 1) : SubSeq(ring, m + 1, n)[i] = ring[m + 1 + i - 1]
  BY <1>1, <1>3, SubSeqProperties
<1>5. \A i \in 1..Len(SubSeq(ring, m + 1, n)) :
         /\ m + i \in 1..Len(ring)
         /\ SubSeq(ring, m + 1, n)[i] = ring[m + i]
  BY <1>1, <1>4
<1>6. m < n => SubSeq(ring, m + 1, n) # <<>>
  BY <1>1, <1>4, EmptySeq
<1>7. QED
  BY <1>2, <1>4, <1>5, <1>6 DEF m, n

LEMMA RowIsTyped ==
  ASSUME TypeOK, NEW turn \in Turn
  PROVE  RowFor(turn) \in Row /\ RowFor(turn).turn = turn
         /\ RowFor(turn).audio = Extract(turn.start, turn.end)
<1> DEFINE audio == Extract(turn.start, turn.end)
<1>1. turn.start \in Nat /\ turn.end \in Nat
  BY DEF Turn
<1>2. audio \in Seq(Nat) /\ Len(audio) \in Nat
  <2>1. audio \in Seq(Nat)
    BY <1>1, ExtractedAudio
  <2>2. QED
    BY <2>1, LenProperties
<1>3. utc_of_sample(turn.start) \in Int /\ utc_of_sample(turn.start + Len(audio)) \in Int
  BY <1>1, <1>2 DEF utc_of_sample, TypeOK
<1>4. fresh_from \in Nat
  BY DEF TypeOK
<1> HIDE DEF audio
<1>5. RowFor(turn) = [turn |-> turn, t_start |-> utc_of_sample(turn.start),
                      t_end |-> utc_of_sample(turn.start + Len(audio)),
                      audio |-> audio, since |-> fresh_from]
  BY DEF RowFor, audio
<1>6. QED
  BY <1>2, <1>3, <1>4, <1>5 DEF Row, audio

(* The buffer's samples, and the ring with them.                           *)
LEMMA BufferedAudio ==
  ASSUME NEW at \in Nat, NEW n \in Nat, NEW kept \in Seq(Nat)
  PROVE  LET samples == [i \in 1..n |-> at + (i - 1)]
         IN /\ samples \in Seq(Nat) /\ Len(samples) = n
            /\ kept \o samples \in Seq(Nat)
            /\ Len(kept \o samples) = Len(kept) + n
            /\ \A i \in 1..Len(kept) : (kept \o samples)[i] = kept[i]
            /\ \A i \in (Len(kept) + 1)..(Len(kept) + n) :
                  (kept \o samples)[i] = at + (i - Len(kept) - 1)
<1> DEFINE samples == [i \in 1..n |-> at + (i - 1)]
<1>1. samples \in Seq(Nat) /\ Len(samples) = n
  OBVIOUS
<1>2. /\ kept \o samples \in Seq(Nat)
      /\ Len(kept \o samples) = Len(kept) + Len(samples)
      /\ \A i \in 1..(Len(kept) + Len(samples)) : (kept \o samples)[i] =
            IF i <= Len(kept) THEN kept[i] ELSE samples[i - Len(kept)]
  <2> HIDE DEF samples
  <2> QED BY <1>1, ConcatProperties
<1>3. Len(kept) \in Nat
  OBVIOUS
<1>4. \A i \in 1..Len(kept) : (kept \o samples)[i] = kept[i]
  <2> HIDE DEF samples
  <2> QED BY <1>1, <1>2, <1>3
<1>5. \A i \in (Len(kept) + 1)..(Len(kept) + n) :
         (kept \o samples)[i] = at + (i - Len(kept) - 1)
  <2>1. \A i \in (Len(kept) + 1)..(Len(kept) + n) :
           /\ (kept \o samples)[i] = samples[i - Len(kept)]
           /\ i - Len(kept) \in 1..n
    <3> HIDE DEF samples
    <3> QED BY <1>1, <1>2, <1>3
  <2>2. \A k \in 1..n : samples[k] = at + (k - 1)
    OBVIOUS
  <2> HIDE DEF samples
  <2>3. QED
    BY <1>3, <2>1, <2>2
<1>6. QED
  BY <1>1, <1>2, <1>4, <1>5

(* trim: the ring without its first samples.                               *)
LEMMA TrimmedAudio ==
  ASSUME TypeOK, NEW drop \in 0..Len(ring)
  PROVE  /\ SubSeq(ring, drop + 1, Len(ring)) \in Seq(Nat)
         /\ Len(SubSeq(ring, drop + 1, Len(ring))) = Len(ring) - drop
         /\ \A i \in 1..(Len(ring) - drop) :
               SubSeq(ring, drop + 1, Len(ring))[i] = ring[drop + i]
<1>1. ring \in Seq(Nat) /\ Len(ring) \in Nat
  BY DEF TypeOK
<1>2. \A i \in (drop + 1)..Len(ring) : ring[i] \in Nat
  BY <1>1
<1>3. /\ SubSeq(ring, drop + 1, Len(ring)) \in Seq(Nat)
      /\ Len(SubSeq(ring, drop + 1, Len(ring))) =
            IF drop + 1 <= Len(ring) THEN Len(ring) - (drop + 1) + 1 ELSE 0
      /\ \A i \in 1..(Len(ring) - (drop + 1) + 1) :
            SubSeq(ring, drop + 1, Len(ring))[i] = ring[drop + 1 + i - 1]
  BY <1>1, <1>2, SubSeqProperties
<1>4. QED
  BY <1>1, <1>3

LEMMA KeepFromIsNat ==
  ASSUME TypeOK, CountersInv
  PROVE  KeepFrom \in Nat /\ KeepFrom <= received /\ KeepFrom <= cursor /\ RetainFrom <= mark
         /\ KeepFrom <= RetainFrom
         /\ (pending # NoTurn => KeepFrom <= pending.start)
         /\ lesser(monus(KeepFrom, ring_base), Len(ring)) \in 0..Len(ring)
<1>1. /\ cursor \in Nat /\ speech_start \in Nat /\ received \in Nat /\ cursor <= received
      /\ in_speech => speech_start <= cursor
      /\ ring_base \in Nat /\ Len(ring) \in Nat
      /\ pending # NoTurn => pending.start \in Nat
      /\ last_voiced_end \in Nat
  BY DEF TypeOK, CountersInv, RingAligned, Turn
<1>2. Pad \in Nat /\ Pad + Frame \in Nat
  BY Constants
<1>3. RetainFrom \in Nat /\ RetainFrom <= cursor /\ RetainFrom <= mark
  BY <1>1, <1>2 DEF RetainFrom, mark, monus
<1>4. KeepFrom \in Nat /\ KeepFrom <= RetainFrom
      /\ (pending # NoTurn => KeepFrom <= pending.start)
  BY <1>1, <1>3 DEF KeepFrom, lesser
<1>5. QED
  BY <1>1, <1>3, <1>4 DEF monus, lesser

-----------------------------------------------------------------------------
(* Next, with the steps of the segmenter taken together.                   *)
LEMMA NextCases ==
  ASSUME Next
  PROVE  \/ Merging
         \/ \E n \in Holes : Hole(n)
         \/ \E n \in Flaps : AbsorbFlap(n)
         \/ \E n \in Chunks : Buffer(n)
         \/ FrameFails \/ WriteTurn \/ WriteFails \/ Trim \/ SessionClosed
  BY DEF Next, Merging

SegmenterTyped ==
    /\ in_speech \in BOOLEAN /\ speech_start \in Nat /\ last_voiced_end \in Nat
    /\ cursor \in Nat /\ pc \in {"idle", "buffer", "ending", "ended"}
    /\ spoken \subseteq Nat

LEMMA MergingTypes ==
  ASSUME TypeOK, CountersInv, Merging
  PROVE  TypeOK'
<1>1. SegmenterTyped'
  <2>1. SegmenterTyped /\ frame_end \in Nat
    BY Constants DEF TypeOK, frame_end, SegmenterTyped
  <2>2. ASSUME NEW voiced \in BOOLEAN, FrameWhenIdle(voiced)
        PROVE  SegmenterTyped'
    BY <2>1, <2>2 DEF FrameWhenIdle, heard, SegmenterTyped
  <2>3. ASSUME NEW voiced \in BOOLEAN, FrameInSpeech(voiced)
        PROVE  SegmenterTyped'
    BY <2>1, <2>3 DEF FrameInSpeech, heard, SegmenterTyped
  <2>4. ASSUME NEW voiced \in BOOLEAN, FrameAtCap(voiced)
        PROVE  SegmenterTyped'
    BY <2>1, <2>4 DEF FrameAtCap, heard, Owed, SegmenterTyped
  <2>5. ASSUME FrameCloses
        PROVE  SegmenterTyped'
    BY <2>1, <2>5 DEF FrameCloses, Owed, SegmenterTyped
  <2>6. ASSUME EndSession
        PROVE  SegmenterTyped'
    BY <2>1, <2>6 DEF EndSession, Owed, SegmenterTyped
  <2>7. QED
    BY <2>2, <2>3, <2>4, <2>5, <2>6 DEF Merging
<1>2. MergeStep
  BY MergingMerges
<1>3. emitted' \in Seq(Turn) /\ pending' \in Turn \union {NoTurn}
  <2>1. speech_start \in Nat
    BY DEF TypeOK
  <2>2. PICK offered \in BOOLEAN, ve \in Nat : Merged(offered, Span(speech_start, ve, cursor'))
    BY <1>2 DEF MergeStep
  <2>3. Span(speech_start, ve, cursor') \in Turn
    BY <1>1, <2>1, SpanIsATurn DEF SegmenterTyped
  <2>4. QED
    BY <2>2, <2>3, MergedTypes
<1>4. UNCHANGED <<clock_vars, ring_vars, rows, fresh_from>>
  BY <1>2 DEF MergeStep
<1>5. QED
  BY <1>1, <1>3, <1>4 DEF TypeOK, clock_vars, ring_vars, SegmenterTyped

LEMMA TypeStep ==
  ASSUME TypeOK, CountersInv, [Next]_vars
  PROVE  TypeOK'
<1>1. ASSUME NEW n \in Holes, Hole(n)
      PROVE  TypeOK'
  BY <1>1, Constants DEF TypeOK, Hole, ring_vars, segmenter_vars
<1>2. ASSUME NEW n \in Flaps, AbsorbFlap(n)
      PROVE  TypeOK'
  <2>1. now + n \in Nat
    BY Constants DEF TypeOK
  <2>2. now' \in Nat /\ anchor' \in Nat /\ anchor_sample' \in Nat /\ received' \in Nat
        /\ hidden' \subseteq Nat
        /\ emitted' = emitted /\ pc' = pc /\ rows' = rows
    BY <1>2, <2>1 DEF TypeOK, AbsorbFlap, HiddenBy
  <2>3. CASE n >= MinSilence
    <3>1. DiscardAcrossGap /\ ring' = <<>>
      BY <1>2, <2>3 DEF AbsorbFlap
    <3>2. received \in Nat /\ ring' \in Seq(Nat)
      BY <3>1, EmptySeq DEF TypeOK
    <3>3. QED
      BY <2>2, <3>1, <3>2 DEF TypeOK, DiscardAcrossGap
  <2>4. CASE ~(n >= MinSilence)
    BY <1>2, <2>2, <2>4 DEF TypeOK, AbsorbFlap, segmenter_vars
  <2>5. QED
    BY <2>3, <2>4
<1>3. ASSUME NEW n \in Chunks, Buffer(n)
      PROVE  TypeOK'
  <2> DEFINE samples == [i \in 1..n |-> now + (i - 1)]
  <2>1. n \in Nat /\ now \in Nat /\ ring \in Seq(Nat) /\ received \in Nat
    BY Constants DEF TypeOK
  <2>2. samples \in Seq(Nat) /\ ring \o samples \in Seq(Nat)
    BY <2>1, BufferedAudio
  <2>3. now' \in Nat /\ received' \in Nat /\ pc' = "buffer"
        /\ hidden' = hidden /\ emitted' = emitted /\ rows' = rows
    BY <1>3, <2>1 DEF Buffer
  <2>4. CASE Skewed
    <3>1. DiscardAcrossGap /\ anchor' = now /\ anchor_sample' = received /\ ring' = samples
      BY <1>3, <2>4 DEF Buffer
    <3> HIDE DEF samples
    <3>2. QED
      BY <2>1, <2>2, <2>3, <3>1 DEF TypeOK, DiscardAcrossGap
  <2>5. CASE ~Skewed
    <3>1. /\ ring' = ring \o samples
          /\ UNCHANGED <<anchor, anchor_sample, segmenter_vars, pending,
                         ring_base, fresh_from, spoken>>
      BY <1>3, <2>5 DEF Buffer
    <3> HIDE DEF samples
    <3>2. QED
      BY <2>2, <2>3, <3>1 DEF TypeOK, segmenter_vars
  <2>6. QED
    BY <2>4, <2>5
<1>4. ASSUME FrameFails
      PROVE  TypeOK'
  BY <1>4, EmptySeq DEF TypeOK, FrameFails, clock_vars, ring_vars, segmenter_vars
<1>5. ASSUME WriteTurn
      PROVE  TypeOK'
  <2>1. emitted \in Seq(Turn) /\ emitted # <<>> /\ rows \in Seq(Row)
    BY <1>5 DEF WriteTurn, Writing, TypeOK
  <2>2. Head(emitted) \in Turn /\ Tail(emitted) \in Seq(Turn)
    BY <2>1, HeadTailProperties
  <2>3. Append(rows, RowFor(Head(emitted))) \in Seq(Row)
    BY <2>1, <2>2, RowIsTyped, Appended
  <2>4. emitted' \in Seq(Turn) /\ rows' \in Seq(Row)
    BY <1>5, <2>1, <2>2, <2>3 DEF WriteTurn
  <2>5. QED
    BY <1>5, <2>4 DEF TypeOK, WriteTurn, clock_vars, ring_vars, segmenter_vars
<1>6. ASSUME WriteFails
      PROVE  TypeOK'
  BY <1>6, EmptySeq DEF TypeOK, WriteFails, clock_vars, ring_vars, segmenter_vars
<1>7. ASSUME Trim
      PROVE  TypeOK'
  <2>1. /\ KeepFrom \in Nat
        /\ lesser(monus(KeepFrom, ring_base), Len(ring)) \in 0..Len(ring)
    BY KeepFromIsNat
  <2>2. ring' \in Seq(Nat)
    BY <1>7, <2>1, TrimmedAudio DEF Trim
  <2>3. ring_base' \in Nat
    BY <1>7, <2>1 DEF Trim, TypeOK
  <2>4. QED
    BY <1>7, <2>2, <2>3 DEF TypeOK, Trim, clock_vars, segmenter_vars
<1>8. ASSUME SessionClosed
      PROVE  TypeOK'
  BY <1>8 DEF TypeOK, SessionClosed, clock_vars, ring_vars, segmenter_vars
<1>9. ASSUME UNCHANGED vars
      PROVE  TypeOK'
  BY <1>9 DEF TypeOK, vars, clock_vars, ring_vars, segmenter_vars
<1>10. QED
  BY <1>1, <1>2, <1>3, <1>4, <1>5, <1>6, <1>7, <1>8, <1>9, MergingTypes, NextCases

-----------------------------------------------------------------------------
(* A discard, and a trim, leave the counters in step.                      *)
LEMMA CountersStep ==
  ASSUME TypeOK, TypeOK', CountersInv, [Next]_vars
  PROVE  CountersInv'
<1>1. /\ received \in Nat /\ Len(ring) \in Nat /\ ring_base \in Nat /\ fresh_from \in Nat
      /\ cursor \in Nat /\ speech_start \in Nat /\ last_voiced_end \in Nat
      /\ mark \in Nat /\ mark' \in Nat /\ Len(ring') \in Nat /\ Pad \in Nat
      /\ cursor' \in Nat /\ received' \in Nat
  <2>1. /\ received \in Nat /\ ring \in Seq(Nat) /\ ring_base \in Nat /\ fresh_from \in Nat
        /\ cursor \in Nat /\ speech_start \in Nat /\ last_voiced_end \in Nat
    BY DEF TypeOK
  <2>2. /\ received' \in Nat /\ ring' \in Seq(Nat) /\ cursor' \in Nat /\ speech_start' \in Nat
    BY DEF TypeOK
  <2>3. mark \in Nat /\ mark' \in Nat
    BY <2>1, <2>2 DEF mark
  <2>4. Len(ring) \in Nat /\ Len(ring') \in Nat
    BY <2>1, <2>2, LenProperties
  <2>5. QED
    BY <2>1, <2>2, <2>3, <2>4, Constants
<1>2. /\ ring_base + Len(ring) = received /\ ring_base <= cursor /\ cursor <= received
      /\ in_speech => speech_start <= last_voiced_end /\ last_voiced_end <= cursor
      /\ HeldFrom(mark) /\ mark <= cursor
  BY <1>1 DEF CountersInv, RingAligned, mark
<1>3. ASSUME Merging
      PROVE  CountersInv'
  <2>1. MergeStep
    BY <1>3, MergingMerges
  <2>2. /\ ring' = ring /\ ring_base' = ring_base /\ received' = received
        /\ fresh_from' = fresh_from /\ mark <= mark' /\ cursor <= cursor'
        /\ cursor' <= received /\ pc' # "idle"
        /\ in_speech' => speech_start' <= last_voiced_end' /\ last_voiced_end' <= cursor'
    BY <2>1 DEF MergeStep, ring_vars
  <2>3. cursor' \in Nat
    BY DEF TypeOK
  <2>4. HeldFrom(mark)'
    <3>1. monus(mark, Pad) <= monus(mark', Pad)
          /\ monus(mark, Pad) \in Nat /\ monus(mark', Pad) \in Nat
      BY <1>1, <2>2, MonusIsNat, MonusIsMonotone
    <3>2. HeldFrom(mark')
      BY <1>1, <1>2, <2>2, <3>1 DEF HeldFrom
    <3>3. QED
      BY <2>2, <3>2 DEF HeldFrom
  <2>5. RingAligned'
    BY <1>1, <1>2, <2>2, <2>3 DEF RingAligned
  <2>6. QED
    BY <2>2, <2>4, <2>5 DEF CountersInv
<1>4. ASSUME UNCHANGED <<ring, ring_base, received, fresh_from, segmenter_vars>>,
             pc' = "idle" => emitted' = <<>>
      PROVE  CountersInv'
  BY <1>4 DEF CountersInv, RingAligned, HeldFrom, mark, segmenter_vars
<1>5. ASSUME NEW n \in Holes, Hole(n)
      PROVE  CountersInv'
  BY <1>4, <1>5 DEF Hole, ring_vars, CountersInv
<1>6. ASSUME DiscardAcrossGap, received' - received = Len(ring'), received' >= received,
             pc' = "idle" => emitted' = <<>>
      PROVE  CountersInv'
  <2>1. /\ ~in_speech' /\ cursor' = received /\ ring_base' = received
        /\ fresh_from' = received /\ mark' = received /\ received' \in Nat
    BY <1>6 DEF DiscardAcrossGap, mark, TypeOK
  <2>2. HeldFrom(mark)'
    BY <1>1, <2>1 DEF HeldFrom
  <2>3. RingAligned'
    BY <1>1, <1>6, <2>1 DEF RingAligned
  <2>4. QED
    BY <1>6, <2>1, <2>2, <2>3 DEF CountersInv
<1>7. ASSUME NEW n \in Flaps, AbsorbFlap(n)
      PROVE  CountersInv'
  <2>1. received' = received /\ (pc' = "idle" => emitted' = <<>>)
    BY <1>7 DEF AbsorbFlap, CountersInv
  <2>2. CASE n >= MinSilence
    <3>1. DiscardAcrossGap /\ Len(ring') = 0
      BY <1>7, <2>2, EmptySeq DEF AbsorbFlap
    <3>2. QED
      BY <1>1, <1>6, <2>1, <3>1
  <2>3. CASE ~(n >= MinSilence)
    BY <1>4, <1>7, <2>1, <2>3 DEF AbsorbFlap
  <2>4. QED
    BY <2>2, <2>3
<1>8. ASSUME NEW n \in Chunks, Buffer(n)
      PROVE  CountersInv'
  <2>1. n \in Nat /\ now \in Nat /\ ring \in Seq(Nat) /\ received' = received + n
        /\ pc' = "buffer"
    BY <1>8, Constants DEF TypeOK, Buffer
  <2>2. CASE Skewed
    <3>1. DiscardAcrossGap /\ ring' = [i \in 1..n |-> now + (i - 1)]
      BY <1>8, <2>2 DEF Buffer
    <3>2. Len(ring') = n
      BY <2>1, <3>1, BufferedAudio
    <3>3. QED
      BY <1>1, <1>6, <2>1, <3>1, <3>2
  <2>3. CASE ~Skewed
    <3>1. /\ ring' = ring \o [i \in 1..n |-> now + (i - 1)]
          /\ UNCHANGED <<segmenter_vars, ring_base, fresh_from>>
      BY <1>8, <2>3 DEF Buffer
    <3>2. Len(ring') = Len(ring) + n
      BY <2>1, <3>1, BufferedAudio
    <3>3. HeldFrom(mark)' /\ cursor' = cursor
      BY <1>2, <3>1 DEF HeldFrom, mark, segmenter_vars
    <3>4. RingAligned'
      <4>1. ring_base' = ring_base
        BY <3>1
      <4>2. QED
        BY <1>1, <1>2, <2>1, <3>2, <3>3, <4>1 DEF RingAligned
    <3>5. in_speech' => speech_start' <= last_voiced_end' /\ last_voiced_end' <= cursor'
      BY <1>2, <3>1 DEF segmenter_vars
    <3>6. QED
      BY <2>1, <3>3, <3>4, <3>5 DEF CountersInv
  <2>4. QED
    BY <2>2, <2>3
<1>9. ASSUME FrameFails \/ WriteTurn \/ WriteFails \/ SessionClosed
      PROVE  CountersInv'
  <2>1. UNCHANGED <<ring, ring_base, received, fresh_from, segmenter_vars>>
    BY <1>9 DEF FrameFails, WriteTurn, WriteFails, SessionClosed, ring_vars
  <2>2. pc' = "idle" => emitted' = <<>>
    BY <1>9 DEF FrameFails, WriteTurn, WriteFails, SessionClosed, Writing
  <2>3. QED
    BY <1>4, <2>1, <2>2
<1>10. ASSUME Trim
       PROVE  CountersInv'
  <2> DEFINE drop == lesser(monus(KeepFrom, ring_base), Len(ring))
  <2>1. KeepFrom \in Nat /\ KeepFrom <= received /\ KeepFrom <= cursor
        /\ KeepFrom <= RetainFrom /\ drop \in 0..Len(ring)
    BY KeepFromIsNat
  <2>2. /\ ring' = SubSeq(ring, drop + 1, Len(ring))
        /\ ring_base' = IF KeepFrom > ring_base THEN KeepFrom ELSE ring_base
        /\ UNCHANGED <<received, segmenter_vars, emitted, fresh_from>> /\ emitted = <<>>
    BY <1>10 DEF Trim
  <2>3. Len(ring') = Len(ring) - drop
    BY <2>1, <2>2, TrimmedAudio
  <2>4. drop = ring_base' - ring_base
    BY <1>1, <1>2, <2>1, <2>2 DEF monus, lesser
  <2>5. RingAligned'
    <3>1. received' = received /\ cursor' = cursor
          /\ ring_base' = (IF KeepFrom > ring_base THEN KeepFrom ELSE ring_base)
      BY <2>2 DEF segmenter_vars
    <3> HIDE DEF drop
    <3>2. QED
      BY <1>1, <1>2, <2>1, <2>3, <2>4, <3>1 DEF RingAligned
  <2>6. mark' = mark /\ RetainFrom <= monus(mark, Pad)
    BY <1>1, <2>2, Constants DEF mark, RetainFrom, monus, segmenter_vars
  <2>7. RetainFrom \in Nat /\ monus(mark, Pad) \in Nat
    BY <1>1, Constants DEF RetainFrom, monus
  <2>8. HeldFrom(mark)'
    <3>1. CASE KeepFrom > ring_base
      BY <1>1, <2>1, <2>2, <2>6, <2>7, <3>1 DEF HeldFrom
    <3>2. CASE ~(KeepFrom > ring_base)
      BY <1>2, <2>2, <2>6, <3>2 DEF HeldFrom
    <3>3. QED
      BY <3>1, <3>2
  <2>9. QED
    BY <1>2, <2>2, <2>5, <2>8 DEF CountersInv, segmenter_vars
<1>11. ASSUME UNCHANGED vars
       PROVE  CountersInv'
  BY <1>4, <1>11 DEF vars, ring_vars, CountersInv
<1>12. QED
  BY <1>3, <1>5, <1>7, <1>8, <1>9, <1>10, <1>11, NextCases

-----------------------------------------------------------------------------
(* What the merger does to any property of single turns, to their order    *)
(* and to the frames they cover.                                           *)
LEMMA ReleasedAllIn ==
  ASSUME NEW em \in Seq(Turn), NEW pe \in Turn, NEW X, AllIn(em, pe, X)
  PROVE  AllIn(Append(em, pe), NoTurn, X)
<1>1. pe \in X /\ \A i \in 1..Len(em) : em[i] \in X
  BY Constants DEF AllIn
<1>2. \A i \in 1..Len(Append(em, pe)) : Append(em, pe)[i] \in X
  BY <1>1, Appended
<1>3. QED
  BY <1>2 DEF AllIn

LEMMA MergedAllIn ==
  ASSUME TypeOK, NEW offered, NEW span \in Turn, NEW X, Merged(offered, span),
         AllIn(emitted, pending, X),
         offered => span \in X,
         offered /\ Joins(span) => Joined(span) \in X
  PROVE  AllIn(emitted', pending', X)
<1>1. PICK em \in Seq(Turn), pe \in Turn \union {NoTurn} :
         /\ Pushes(offered, span, em, pe)
         /\ \/ emitted' = em /\ pending' = pe
            \/ pe # NoTurn /\ emitted' = Append(em, pe) /\ pending' = NoTurn
  BY DEF Merged
<1>2. AllIn(em, pe, X)
  <2>1. CASE (~offered /\ em = emitted /\ pe = pending)
    BY <2>1
  <2>2. CASE (offered /\ em = emitted /\ (pe = span \/ (Joins(span) /\ pe = Joined(span))))
    BY <2>2 DEF AllIn
  <2>3. CASE (offered /\ pending # NoTurn /\ em = Append(emitted, pending) /\ pe = span)
    <3>1. AllIn(Append(emitted, pending), NoTurn, X)
      BY <2>3, ReleasedAllIn DEF TypeOK
    <3>2. QED
      BY <2>3, <3>1 DEF AllIn
  <2>4. QED
    BY <1>1, <2>1, <2>2, <2>3 DEF Pushes
<1>3. QED
  BY <1>1, <1>2, ReleasedAllIn

LEMMA ReleasedChain ==
  ASSUME NEW rs, NEW em \in Seq(Turn), NEW pe \in Turn, NEW x \in Nat,
         Chain(rs, em, pe, x)
  PROVE  Chain(rs, Append(em, pe), NoTurn, x)
<1> DEFINE ap == Append(em, pe)
<1>1. /\ Len(em) \in Nat /\ Len(ap) = Len(em) + 1 /\ ap[Len(em) + 1] = pe /\ pe # NoTurn
      /\ \A i \in 1..Len(em) : ap[i] = em[i]
  BY Appended, Constants
<1> HIDE DEF ap
<1>2. \A i \in 1..Len(ap) : i \in 1..Len(em) \/ i = Len(em) + 1
  BY <1>1
<1>3. /\ \A i \in 1..Len(rs) : rs[i].turn.voiced_end <= pe.voiced_start
      /\ \A i \in 1..Len(em) : em[i].voiced_end <= pe.voiced_start
      /\ pe.voiced_end <= x
  BY <1>1 DEF Chain
<1>4. \A i \in 1..Len(rs), j \in 1..Len(ap) : rs[i].turn.voiced_end <= ap[j].voiced_start
  BY <1>1, <1>2, <1>3 DEF Chain
<1>5. \A i, j \in 1..Len(ap) : i < j => ap[i].voiced_end <= ap[j].voiced_start
  <2>1. SUFFICES ASSUME NEW i \in 1..Len(ap), NEW j \in 1..Len(ap), i < j
                 PROVE  ap[i].voiced_end <= ap[j].voiced_start
    OBVIOUS
  <2>2. i \in 1..Len(em)
    BY <1>1, <2>1
  <2>3. QED
    BY <1>1, <1>2, <1>3, <2>1, <2>2 DEF Chain
<1>6. \A i \in 1..Len(ap) : ap[i].voiced_end <= x
  BY <1>1, <1>2, <1>3 DEF Chain
<1>7. Chain(rs, ap, NoTurn, x)
  BY <1>4, <1>5, <1>6 DEF Chain
<1>8. QED
  BY <1>7 DEF ap

LEMMA TurnsHaveTimes ==
  /\ \A t \in Turn : t.voiced_start \in Nat /\ t.voiced_end \in Nat
                     /\ t.start \in Nat /\ t.end \in Nat
  /\ \A rs \in Seq(Row) : \A i \in 1..Len(rs) :
        rs[i].turn \in Turn /\ rs[i].turn.voiced_start \in Nat
        /\ rs[i].turn.voiced_end \in Nat
<1>1. \A t \in Turn : t.voiced_start \in Nat /\ t.voiced_end \in Nat
                     /\ t.start \in Nat /\ t.end \in Nat
  BY DEF Turn
<1>2. \A r \in Row : r.turn \in Turn
  BY DEF Row
<1>3. \A rs \in Seq(Row) : \A i \in 1..Len(rs) : rs[i] \in Row
  BY ElementOfSeq
<1>4. QED
  BY <1>1, <1>2, <1>3

LEMMA ExtendedChain ==
  ASSUME NEW rs \in Seq(Row), NEW em \in Seq(Turn), NEW pe \in Turn \union {NoTurn},
         NEW next \in Turn, NEW x \in Nat, NEW y \in Nat,
         Chain(rs, em, pe, x), x <= y, next.voiced_end <= y,
         \/ pe = NoTurn /\ x <= next.voiced_start
         \/ pe # NoTurn /\ next.voiced_start = pe.voiced_start
  PROVE  Chain(rs, em, next, y)
<1>1. /\ \A i \in 1..Len(rs) : rs[i].turn.voiced_end \in Nat
      /\ \A i \in 1..Len(em) : em[i].voiced_end \in Nat
      /\ next.voiced_start \in Nat
  BY TurnsHaveTimes, ElementOfSeq
<1>2. /\ \A i \in 1..Len(rs) : rs[i].turn.voiced_end <= next.voiced_start
      /\ \A i \in 1..Len(em) : em[i].voiced_end <= next.voiced_start
  <2>1. CASE (pe = NoTurn /\ x <= next.voiced_start)
    BY <1>1, <2>1 DEF Chain
  <2>2. CASE (pe # NoTurn /\ next.voiced_start = pe.voiced_start)
    BY <1>1, <2>2 DEF Chain
  <2>3. QED
    BY <2>1, <2>2
<1>3. /\ \A i \in 1..Len(rs) : rs[i].turn.voiced_end <= y
      /\ \A i \in 1..Len(em) : em[i].voiced_end <= y
  BY <1>1 DEF Chain
<1>4. QED
  BY <1>2, <1>3 DEF Chain

LEMMA LaterChain ==
  ASSUME NEW rs \in Seq(Row), NEW em \in Seq(Turn), NEW pe \in Turn \union {NoTurn},
         NEW x \in Nat, NEW y \in Nat, Chain(rs, em, pe, x), x <= y
  PROVE  Chain(rs, em, pe, y)
<1>1. /\ \A i \in 1..Len(rs) : rs[i].turn.voiced_end \in Nat
      /\ \A i \in 1..Len(em) : em[i].voiced_end \in Nat
      /\ pe # NoTurn => pe.voiced_end \in Nat
  BY TurnsHaveTimes, ElementOfSeq
<1>2. /\ \A i \in 1..Len(rs) : rs[i].turn.voiced_end <= y
      /\ \A i \in 1..Len(em) : em[i].voiced_end <= y
  BY <1>1 DEF Chain
<1>3. pe # NoTurn => pe.voiced_end <= y
  BY <1>1 DEF Chain
<1>4. QED
  BY <1>2, <1>3 DEF Chain

LEMMA MergedChain ==
  ASSUME TypeOK, NEW offered, NEW span \in Turn, NEW x \in Nat, NEW y \in Nat,
         Merged(offered, span), Chain(rows, emitted, pending, x), x <= y,
         offered => x <= span.voiced_start /\ span.voiced_end <= y
  PROVE  Chain(rows, emitted', pending', y)
<1>1. PICK em \in Seq(Turn), pe \in Turn \union {NoTurn} :
         /\ Pushes(offered, span, em, pe)
         /\ \/ emitted' = em /\ pending' = pe
            \/ pe # NoTurn /\ emitted' = Append(em, pe) /\ pending' = NoTurn
  BY DEF Merged
<1>2. rows \in Seq(Row) /\ emitted \in Seq(Turn) /\ pending \in Turn \union {NoTurn}
  BY DEF TypeOK
<1>3. Chain(rows, em, pe, y)
  <2>1. CASE (~offered /\ em = emitted /\ pe = pending)
    BY <1>2, <2>1, LaterChain
  <2>2. CASE (offered /\ pending = NoTurn /\ em = emitted /\ pe = span)
    BY <1>2, <2>2, ExtendedChain
  <2>3. CASE (offered /\ Joins(span) /\ em = emitted /\ pe = Joined(span))
    <3>1. pending # NoTurn /\ pe \in Turn
          /\ pe.voiced_start = pending.voiced_start /\ pe.voiced_end = span.voiced_end
      BY <1>2, <2>3, JoinedIsATurn DEF Joins, Joined
    <3>2. QED
      BY <1>2, <2>3, <3>1, ExtendedChain
  <2>4. CASE (offered /\ pending # NoTurn /\ em = Append(emitted, pending) /\ pe = span)
    <3>1. Chain(rows, em, NoTurn, x)
      BY <1>2, <2>4, ReleasedChain
    <3>2. QED
      BY <1>2, <2>4, <3>1, ExtendedChain
  <2>5. QED
    BY <1>1, <2>1, <2>2, <2>3, <2>4 DEF Pushes
<1>4. QED
  BY <1>1, <1>3, ReleasedChain

LEMMA ReleasedCovers ==
  ASSUME NEW rs, NEW em \in Seq(Turn), NEW pe \in Turn, NEW f, Covered(rs, em, pe, f)
  PROVE  Covered(rs, Append(em, pe), NoTurn, f)
<1>1. /\ Len(em) \in Nat /\ Len(Append(em, pe)) = Len(em) + 1
      /\ Append(em, pe)[Len(em) + 1] = pe
      /\ \A i \in 1..Len(em) : Append(em, pe)[i] = em[i]
  BY Appended
<1>2. CASE \E i \in 1..Len(em) : Covers(em[i], f)
  BY <1>1, <1>2 DEF Covered
<1>3. CASE Covers(pe, f)
  <2>1. Len(em) + 1 \in 1..Len(Append(em, pe))
    BY <1>1
  <2>2. QED
    BY <1>1, <1>3, <2>1 DEF Covered
<1>4. CASE \E i \in 1..Len(rs) : Covers(rs[i].turn, f)
  BY <1>4 DEF Covered
<1>5. QED
  BY <1>2, <1>3, <1>4 DEF Covered

LEMMA MergedCovers ==
  ASSUME TypeOK, NEW offered, NEW span \in Turn, NEW f \in Nat, Merged(offered, span),
         span.voiced_start <= span.voiced_end,
         offered /\ pending # NoTurn =>
            pending.voiced_start <= pending.voiced_end
            /\ pending.voiced_end <= span.voiced_start,
         Covered(rows, emitted, pending, f) \/ (offered /\ Covers(span, f))
  PROVE  Covered(rows, emitted', pending', f)
<1>1. PICK em \in Seq(Turn), pe \in Turn \union {NoTurn} :
         /\ Pushes(offered, span, em, pe)
         /\ \/ emitted' = em /\ pending' = pe
            \/ pe # NoTurn /\ emitted' = Append(em, pe) /\ pending' = NoTurn
  BY DEF Merged
<1>2. emitted \in Seq(Turn) /\ pending \in Turn \union {NoTurn} /\ span # NoTurn
  BY Constants DEF TypeOK
<1>3. Covered(rows, em, pe, f)
  <2>1. CASE (~offered /\ em = emitted /\ pe = pending)
    BY <2>1
  <2>2. CASE (offered /\ pending = NoTurn /\ em = emitted /\ pe = span)
    BY <1>2, <2>2 DEF Covered
  <2>3. CASE (offered /\ Joins(span) /\ em = emitted /\ pe = Joined(span))
    <3>1. pending \in Turn /\ pending # NoTurn /\ pe # NoTurn /\ pe \in Turn
          /\ pe.voiced_start = pending.voiced_start /\ pe.voiced_end = span.voiced_end
      BY <1>2, <2>3, JoinedIsATurn, Constants DEF Joins, Joined
    <3>2. Covers(pending, f) \/ Covers(span, f) => Covers(pe, f)
      BY <2>3, <3>1, TurnsHaveTimes DEF Covers
    <3>3. QED
      BY <2>3, <3>1, <3>2 DEF Covered
  <2>4. CASE (offered /\ pending # NoTurn /\ em = Append(emitted, pending) /\ pe = span)
    <3>1. Covered(rows, emitted, pending, f) => Covered(rows, em, NoTurn, f)
      BY <1>2, <2>4, ReleasedCovers
    <3>2. QED
      BY <1>2, <2>4, <3>1 DEF Covered
  <2>5. QED
    BY <1>1, <2>1, <2>2, <2>3, <2>4 DEF Pushes
<1>4. QED
  BY <1>1, <1>3, ReleasedCovers

-----------------------------------------------------------------------------
(* The segmenter's steps keep the open turns, their order and the speech.  *)
LEMMA OfferedSpan ==
  ASSUME TypeOK, TypeOK', CountersInv, MergeStep, NEW ve \in Nat,
         in_speech, speech_start <= ve, ve <= cursor'
  PROVE  LET span == Span(speech_start, ve, cursor')
         IN /\ span \in Turn /\ span \in Fitting'
            /\ span.voiced_start = mark /\ span.voiced_end = ve
<1> DEFINE span == Span(speech_start, ve, cursor')
<1>1. /\ speech_start \in Nat /\ cursor' \in Nat /\ mark = speech_start
      /\ ring_base' = ring_base /\ fresh_from' = fresh_from /\ HeldFrom(speech_start)
  BY DEF TypeOK, mark, CountersInv, MergeStep, ring_vars
<1>2. /\ span \in Turn /\ span.voiced_start = speech_start /\ span.voiced_end = ve
      /\ span.start = monus(speech_start, Pad) /\ span.end = lesser(ve + Pad, cursor')
  BY <1>1, SpanIsATurn DEF Span
<1>3. span.start <= span.voiced_start
  BY <1>1, <1>2, Constants DEF monus
<1>4. ve <= span.end /\ span.end <= cursor'
  BY <1>1, <1>2, Constants DEF lesser
<1>5. ring_base' <= span.start \/ (ring_base' = fresh_from' /\ fresh_from' <= span.voiced_start)
  BY <1>1, <1>2 DEF HeldFrom
<1> HIDE DEF span
<1>6. span \in Fitting'
  BY <1>2, <1>3, <1>4, <1>5 DEF Fitting
<1>7. QED
  BY <1>1, <1>2, <1>6 DEF span

LEMMA FittingGrows ==
  ASSUME TypeOK, TypeOK', cursor <= cursor', ring_base' = ring_base,
         fresh_from' = fresh_from
  PROVE  Fitting \subseteq Fitting'
<1>1. cursor \in Nat /\ cursor' \in Nat
  BY DEF TypeOK
<1>2. \A t \in Turn : t.end \in Nat
  BY TurnsHaveTimes
<1>3. QED
  BY <1>1, <1>2 DEF Fitting

LEMMA JoinedFits ==
  ASSUME NEW span \in Turn, pending # NoTurn, pending \in Fitting', span \in Fitting',
         pending.voiced_end <= span.voiced_start
  PROVE  Joined(span) \in Fitting'
<1>1. /\ pending \in Turn /\ Joined(span) \in Turn
      /\ Joined(span).start = pending.start /\ Joined(span).end = span.end
      /\ Joined(span).voiced_start = pending.voiced_start
      /\ Joined(span).voiced_end = span.voiced_end
  BY JoinedIsATurn DEF Joined, Fitting
<1>2. pending.voiced_start <= span.voiced_end
  BY <1>1, TurnsHaveTimes DEF Fitting
<1>3. QED
  BY <1>1, <1>2 DEF Fitting

LEMMA MergingKeepsTurns ==
  ASSUME TypeOK, TypeOK', CountersInv, TurnsFit, ChainInv, SpokenInv, Merging
  PROVE  TurnsFit' /\ ChainInv' /\ SpokenInv'
<1>1. MergeStep
  BY MergingMerges
<1>2. PICK offered \in BOOLEAN, ve \in Nat :
          /\ Merged(offered, Span(speech_start, ve, cursor'))
          /\ offered => /\ in_speech /\ speech_start <= ve
                        /\ ve <= mark' /\ ve <= cursor' /\ ve <= cursor + Frame
          /\ \A f \in spoken' :
                \/ f \in Segment'
                \/ (offered /\ speech_start <= f /\ f < ve)
                \/ (f \in spoken /\ f \notin Segment)
  BY <1>1 DEF MergeStep
<1> DEFINE span == Span(speech_start, ve, cursor')
<1>3. /\ rows' = rows /\ mark \in Nat /\ mark' \in Nat /\ mark <= mark'
      /\ cursor <= cursor' /\ ring_base' = ring_base /\ fresh_from' = fresh_from
      /\ speech_start \in Nat /\ cursor' \in Nat /\ spoken' \subseteq Nat
      /\ pending \in Turn \union {NoTurn}
  BY <1>1 DEF MergeStep, TypeOK, mark, ring_vars
<1>4. /\ span \in Turn
      /\ offered => /\ span \in Fitting' /\ span.voiced_start = mark /\ span.voiced_end = ve
                    /\ mark <= ve /\ ve <= mark' /\ mark = speech_start
  <2>1. span \in Turn
    BY <1>3, SpanIsATurn
  <2>2. offered => /\ span \in Fitting' /\ span.voiced_start = mark /\ span.voiced_end = ve
    BY <1>1, <1>2, OfferedSpan
  <2>3. QED
    BY <1>2, <2>1, <2>2 DEF mark
<1>5. Merged(offered, span)
  BY <1>2
<1> HIDE DEF span
<1>6. Fitting \subseteq Fitting'
  BY <1>3, FittingGrows
<1>7. pending # NoTurn => /\ pending \in Fitting /\ pending.voiced_end <= mark
                          /\ pending.voiced_start <= pending.voiced_end
  BY DEF TurnsFit, AllIn, ChainInv, Chain, Fitting
<1>8. TurnsFit'
  <2>1. AllIn(emitted, pending, Fitting')
    BY <1>6 DEF TurnsFit, AllIn
  <2>2. offered /\ Joins(span) => Joined(span) \in Fitting'
    BY <1>4, <1>6, <1>7, JoinedFits DEF Joins
  <2>3. AllIn(emitted', pending', Fitting')
    BY <1>4, <1>5, <2>1, <2>2, MergedAllIn
  <2>4. QED
    BY <2>3 DEF TurnsFit
<1>9. ChainInv'
  <2>1. Chain(rows, emitted, pending, mark)
    BY DEF ChainInv
  <2>2. Chain(rows, emitted', pending', mark')
    BY <1>3, <1>4, <1>5, <2>1, MergedChain
  <2>3. QED
    BY <1>3, <2>2 DEF ChainInv
<1>10. SpokenInv'
  <2>1. SUFFICES ASSUME NEW f \in spoken', f \notin Segment'
                 PROVE  Covered(rows', emitted', pending', f)
    BY DEF SpokenInv
  <2>2. f \in Nat
    BY <1>3
  <2>3. CASE (offered /\ speech_start <= f /\ f < ve)
    <3>1. Covers(span, f)
      BY <1>4, <2>3 DEF Covers
    <3>2. QED
      BY <1>3, <1>4, <1>5, <1>7, <2>2, <2>3, <3>1, MergedCovers
  <2>4. CASE (f \in spoken /\ f \notin Segment)
    <3>1. Covered(rows, emitted, pending, f)
      BY <2>4 DEF SpokenInv
    <3>2. span.voiced_start <= span.voiced_end \/ ~offered
      BY <1>4
    <3>3. CASE offered
      BY <1>3, <1>4, <1>5, <1>7, <2>2, <3>1, <3>2, <3>3, MergedCovers
    <3>4. CASE ~offered
      <4>1. PICK em \in Seq(Turn), pe \in Turn \union {NoTurn} :
               /\ em = emitted /\ pe = pending
               /\ \/ emitted' = em /\ pending' = pe
                  \/ pe # NoTurn /\ emitted' = Append(em, pe) /\ pending' = NoTurn
        BY <1>5, <3>4 DEF Merged, Pushes
      <4>2. QED
        BY <1>3, <3>1, <4>1, ReleasedCovers
    <3>5. QED
      BY <3>3, <3>4
  <2>5. QED
    BY <1>2, <2>1, <2>3, <2>4
<1>11. QED
  BY <1>8, <1>9, <1>10

(* A turn that has a voiced sample has audio left, so its row is written.  *)
LEMMA FittingTurnsHaveAudio ==
  ASSUME TypeOK, CountersInv, NEW t \in Fitting, t.voiced_start < t.voiced_end
  PROVE  RowFor(t).audio # <<>>
<1>1. /\ t \in Turn /\ t.start \in Nat /\ t.end \in Nat
      /\ t.voiced_start \in Nat /\ t.voiced_end \in Nat
      /\ ring_base \in Nat /\ Len(ring) \in Nat /\ received \in Nat /\ cursor \in Nat
  BY TurnsHaveTimes DEF Fitting, TypeOK
<1>2. /\ t.start <= t.voiced_start /\ t.voiced_end <= t.end /\ t.end <= cursor
      /\ ring_base <= t.start \/ ring_base <= t.voiced_start
      /\ ring_base + Len(ring) = received /\ cursor <= received
  BY DEF Fitting, CountersInv, RingAligned
<1>3. monus(t.start, ring_base) < lesser(monus(t.end, ring_base), Len(ring))
  <2>1. t.start < t.end /\ ring_base < t.end /\ t.start < ring_base + Len(ring)
        /\ ring_base < ring_base + Len(ring)
    BY <1>1, <1>2
  <2>2. monus(t.start, ring_base) < monus(t.end, ring_base)
    BY <1>1, <2>1 DEF monus
  <2>3. monus(t.start, ring_base) < Len(ring)
    BY <1>1, <2>1 DEF monus
  <2>4. QED
    BY <2>2, <2>3 DEF lesser
<1>4. Extract(t.start, t.end) # <<>>
  BY <1>1, <1>3, ExtractedAudio
<1>5. QED
  BY <1>1, <1>4, RowIsTyped

LEMMA WriteTurnKeepsTurns ==
  ASSUME TypeOK, TypeOK', CountersInv, TurnsFit, ChainInv, SpokenInv, WriteTurn
  PROVE  TurnsFit' /\ ChainInv' /\ SpokenInv'
<1> DEFINE t == Head(emitted)
           row == RowFor(Head(emitted))
<1>1. /\ emitted \in Seq(Turn) /\ emitted # <<>> /\ rows \in Seq(Row) /\ spoken \subseteq Nat
      /\ pending \in Turn \union {NoTurn}
  BY DEF WriteTurn, Writing, TypeOK
<1>2. /\ emitted' = Tail(emitted) /\ Len(emitted') = Len(emitted) - 1
      /\ Len(emitted) \in Nat \ {0} /\ t = emitted[1] /\ t \in Turn
      /\ \A i \in 1..Len(emitted') : emitted'[i] = emitted[i + 1] /\ i + 1 \in 1..Len(emitted)
  <2>1. emitted' = Tail(emitted)
    BY DEF WriteTurn
  <2>2. QED
    BY <1>1, <2>1, HeadTailProperties, EmptySeq
<1>3. /\ UNCHANGED <<pending, cursor, ring_base, fresh_from, spoken>>
      /\ mark' = mark /\ Segment' = Segment
  BY DEF WriteTurn, ring_vars, segmenter_vars, mark, Segment
<1>4. Fitting' = Fitting
  BY <1>3 DEF Fitting
<1>5. t \in Fitting
  BY <1>2 DEF TurnsFit, AllIn
<1>6. TurnsFit'
  BY <1>2, <1>3, <1>4 DEF TurnsFit, AllIn
<1>7. row \in Row /\ row.turn = t
  BY <1>2, RowIsTyped
<1>8. /\ rows' = rows \/ rows' = Append(rows, row)
      /\ row.audio # <<>> => rows' = Append(rows, row)
  BY DEF WriteTurn
<1> HIDE DEF t, row
<1>9. \A i \in 1..Len(rows') :
         \/ i \in 1..Len(rows) /\ rows'[i] = rows[i]
         \/ i = Len(rows) + 1 /\ rows'[i].turn = t
  <2>1. CASE rows' = rows
    BY <2>1
  <2>2. CASE rows' = Append(rows, row)
    <3>1. /\ Len(rows') = Len(rows) + 1 /\ rows'[Len(rows) + 1] = row /\ Len(rows) \in Nat
          /\ \A i \in 1..Len(rows) : rows'[i] = rows[i]
      BY <1>1, <1>7, <2>2, Appended
    <3>2. QED
      BY <1>7, <3>1
  <2>3. QED
    BY <1>8, <2>1, <2>2
<1>10. Chain(rows, emitted, pending, mark)
  BY DEF ChainInv
<1>11. ChainInv'
  <2>1. Len(rows) \in Nat
    BY <1>1
  <2>2. \A i, j \in 1..Len(rows') :
           i < j => rows'[i].turn.voiced_end <= rows'[j].turn.voiced_start
    <3>1. SUFFICES ASSUME NEW i \in 1..Len(rows'), NEW j \in 1..Len(rows'), i < j
                   PROVE  rows'[i].turn.voiced_end <= rows'[j].turn.voiced_start
      OBVIOUS
    <3>2. i \in 1..Len(rows) /\ rows'[i] = rows[i]
      BY <1>9, <2>1, <3>1
    <3>3. CASE (j \in 1..Len(rows) /\ rows'[j] = rows[j])
      BY <1>10, <3>1, <3>2, <3>3 DEF Chain
    <3>4. CASE rows'[j].turn = t
      BY <1>2, <1>10, <3>2, <3>4 DEF Chain
    <3>5. QED
      BY <1>9, <3>3, <3>4
  <2>3. \A i \in 1..Len(rows'), j \in 1..Len(emitted') :
           rows'[i].turn.voiced_end <= emitted'[j].voiced_start
    <3>1. \A j \in 1..Len(emitted') : t.voiced_end <= emitted'[j].voiced_start
      BY <1>2, <1>10 DEF Chain
    <3>2. QED
      BY <1>2, <1>9, <1>10, <3>1 DEF Chain
  <2>4. \A i, j \in 1..Len(emitted') :
           i < j => emitted'[i].voiced_end <= emitted'[j].voiced_start
    BY <1>2, <1>10 DEF Chain
  <2>5. pending # NoTurn =>
           /\ \A i \in 1..Len(rows') : rows'[i].turn.voiced_end <= pending.voiced_start
           /\ \A i \in 1..Len(emitted') : emitted'[i].voiced_end <= pending.voiced_start
           /\ pending.voiced_end <= mark
    BY <1>2, <1>9, <1>10 DEF Chain
  <2>6. /\ \A i \in 1..Len(rows') : rows'[i].turn.voiced_end <= mark
        /\ \A i \in 1..Len(emitted') : emitted'[i].voiced_end <= mark
    BY <1>2, <1>9, <1>10 DEF Chain
  <2>7. Chain(rows', emitted', pending, mark)
    BY <2>2, <2>3, <2>4, <2>5, <2>6 DEF Chain
  <2>8. QED
    BY <1>3, <2>7 DEF ChainInv
<1>12. SpokenInv'
  <2>1. SUFFICES ASSUME NEW f \in spoken, f \notin Segment
                 PROVE  Covered(rows', emitted', pending', f)
    BY <1>3 DEF SpokenInv
  <2>2. Covered(rows, emitted, pending, f) /\ f \in Nat
    BY <1>1, <2>1 DEF SpokenInv
  <2>3. \A i \in 1..Len(rows) : i \in 1..Len(rows') /\ rows'[i] = rows[i]
    BY <1>1, <1>7, <1>8, Appended
  <2>4. CASE \E i \in 1..Len(rows) : Covers(rows[i].turn, f)
    BY <2>3, <2>4 DEF Covered
  <2>5. CASE Covers(t, f)
    <3>1. t.voiced_start < t.voiced_end
      BY <1>2, <2>2, <2>5, TurnsHaveTimes DEF Covers
    <3>2. rows' = Append(rows, row)
      BY <1>5, <1>8, <3>1, FittingTurnsHaveAudio DEF row, t
    <3>3. Len(rows) + 1 \in 1..Len(rows') /\ rows'[Len(rows) + 1].turn = t
      BY <1>1, <1>7, <3>2, Appended
    <3>4. QED
      BY <2>5, <3>3 DEF Covered
  <2>6. CASE \E i \in 1..Len(emitted) : i # 1 /\ Covers(emitted[i], f)
    <3>1. PICK i \in 1..Len(emitted) : i # 1 /\ Covers(emitted[i], f)
      BY <2>6
    <3>2. i - 1 \in 1..Len(emitted') /\ emitted'[i - 1] = emitted[i]
      BY <1>2, <3>1
    <3>3. QED
      BY <3>1, <3>2 DEF Covered
  <2>7. CASE (pending # NoTurn /\ Covers(pending, f))
    BY <1>3, <2>7 DEF Covered
  <2>8. QED
    BY <1>2, <2>2, <2>4, <2>5, <2>6, <2>7 DEF Covered
<1>13. QED
  BY <1>6, <1>11, <1>12

LEMMA OthersKeepTurns ==
  ASSUME TypeOK, TypeOK', CountersInv, TurnsFit, ChainInv, SpokenInv, [Next]_vars,
         ~Merging, ~WriteTurn
  PROVE  TurnsFit' /\ ChainInv' /\ SpokenInv'
<1>1. ASSUME UNCHANGED <<emitted, pending, rows, segmenter_vars, ring_base, fresh_from, spoken>>
      PROVE  TurnsFit' /\ ChainInv' /\ SpokenInv'
  <2>1. mark' = mark /\ Segment' = Segment /\ Fitting' = Fitting
    BY <1>1 DEF segmenter_vars, mark, Segment, Fitting
  <2>2. QED
    BY <1>1, <2>1 DEF TurnsFit, ChainInv, SpokenInv
<1>2. ASSUME pc = "idle", DiscardAcrossGap, UNCHANGED <<emitted, rows>>
      PROVE  TurnsFit' /\ ChainInv' /\ SpokenInv'
  <2>1. /\ emitted' = <<>> /\ pending' = NoTurn /\ rows' = rows /\ spoken' = {}
        /\ mark' = received /\ emitted = <<>>
    BY <1>2 DEF DiscardAcrossGap, mark, CountersInv
  <2>2. /\ mark \in Nat /\ received \in Nat /\ mark <= received
        /\ rows \in Seq(Row) /\ emitted \in Seq(Turn) /\ pending \in Turn \union {NoTurn}
    BY DEF TypeOK, mark, CountersInv, RingAligned
  <2>3. Chain(rows, emitted, pending, received)
    BY <2>2, LaterChain DEF ChainInv
  <2>4. Chain(rows, emitted, NoTurn, received)
    BY <2>3 DEF Chain
  <2>5. QED
    BY <2>1, <2>4, EmptySeq DEF TurnsFit, AllIn, ChainInv, SpokenInv
<1>3. ASSUME FrameFails \/ WriteFails
      PROVE  TurnsFit' /\ ChainInv' /\ SpokenInv'
  <2>1. /\ emitted' = <<>> /\ Len(emitted') = 0
        /\ UNCHANGED <<pending, rows, segmenter_vars, ring_base, fresh_from>>
        /\ spoken' = {f \in spoken : \A i \in 1..Len(emitted) :
                        f < emitted[i].voiced_start \/ emitted[i].voiced_end <= f}
    BY <1>3, EmptySeq DEF FrameFails, WriteFails, ring_vars
  <2>2. mark' = mark /\ Segment' = Segment /\ Fitting' = Fitting
    BY <2>1 DEF segmenter_vars, mark, Segment, Fitting
  <2>3. TurnsFit'
    BY <2>1, <2>2 DEF TurnsFit, AllIn
  <2>4. Chain(rows, emitted', pending, mark)
    BY <2>1 DEF ChainInv, Chain
  <2>5. ChainInv'
    BY <2>1, <2>2, <2>4 DEF ChainInv
  <2>6. SpokenInv'
    <3>1. SUFFICES ASSUME NEW f \in spoken', f \notin Segment
                   PROVE  Covered(rows, emitted', pending, f)
      BY <2>1, <2>2 DEF SpokenInv
    <3>2. f \in spoken /\ f \in Nat /\ Covered(rows, emitted, pending, f)
      BY <2>1, <3>1 DEF SpokenInv, TypeOK
    <3>3. \A i \in 1..Len(emitted) :
             /\ emitted[i].voiced_start \in Nat /\ emitted[i].voiced_end \in Nat
             /\ f < emitted[i].voiced_start \/ emitted[i].voiced_end <= f
      BY <2>1, <3>1, TurnsHaveTimes, ElementOfSeq DEF TypeOK
    <3>4. \A i \in 1..Len(emitted) : ~Covers(emitted[i], f)
      BY <3>2, <3>3 DEF Covers
    <3>5. QED
      BY <3>2, <3>4 DEF Covered
  <2>7. QED
    BY <2>3, <2>5, <2>6
<1>4. ASSUME Trim
      PROVE  TurnsFit' /\ ChainInv' /\ SpokenInv'
  <2>1. /\ emitted = <<>> /\ Len(emitted) = 0
        /\ UNCHANGED <<emitted, pending, rows, segmenter_vars, fresh_from, spoken>>
        /\ ring_base' = IF KeepFrom > ring_base THEN KeepFrom ELSE ring_base
    BY <1>4, EmptySeq DEF Trim
  <2>2. mark' = mark /\ Segment' = Segment /\ cursor' = cursor
    BY <2>1 DEF segmenter_vars, mark, Segment
  <2>3. pending # NoTurn => pending \in Fitting'
    <3>1. pending # NoTurn => pending \in Fitting /\ KeepFrom <= pending.start
      BY KeepFromIsNat DEF TurnsFit, AllIn
    <3>2. QED
      BY <2>1, <2>2, <3>1 DEF Fitting
  <2>4. TurnsFit'
    BY <2>1, <2>3 DEF TurnsFit, AllIn
  <2>5. QED
    BY <2>1, <2>2, <2>4 DEF ChainInv, SpokenInv
<1>5. ASSUME NEW n \in Holes, Hole(n)
      PROVE  TurnsFit' /\ ChainInv' /\ SpokenInv'
  BY <1>1, <1>5 DEF Hole, ring_vars
<1>6. ASSUME NEW n \in Flaps, AbsorbFlap(n)
      PROVE  TurnsFit' /\ ChainInv' /\ SpokenInv'
  BY <1>1, <1>2, <1>6 DEF AbsorbFlap
<1>7. ASSUME NEW n \in Chunks, Buffer(n)
      PROVE  TurnsFit' /\ ChainInv' /\ SpokenInv'
  BY <1>1, <1>2, <1>7 DEF Buffer
<1>8. ASSUME SessionClosed \/ UNCHANGED vars
      PROVE  TurnsFit' /\ ChainInv' /\ SpokenInv'
  BY <1>1, <1>8 DEF SessionClosed, vars, ring_vars
<1>9. QED
  BY <1>3, <1>4, <1>5, <1>6, <1>7, <1>8, NextCases

-----------------------------------------------------------------------------
(* No turn outgrows the cap, provided that a frame is shorter than it.     *)
LEMMA CapStep ==
  ASSUME Frame < MaxSegment,
         TypeOK, TypeOK', CountersInv, CapInv, [Next]_vars
  PROVE  CapInv'
<1>1. /\ cursor \in Nat /\ speech_start \in Nat /\ frame_end \in Nat
      /\ emitted \in Seq(Turn) /\ rows \in Seq(Row) /\ pending \in Turn \union {NoTurn}
  BY Constants DEF TypeOK, frame_end
<1>2. ASSUME Merging
      PROVE  CapInv'
  <2>1. MergeStep
    BY <1>2, MergingMerges
  <2>2. in_speech' => cursor' - speech_start' < MaxSegment
    <3>1. ASSUME NEW voiced \in BOOLEAN, FrameWhenIdle(voiced)
          PROVE  <2>2
      <4>1. in_speech' => speech_start' = cursor /\ cursor' = cursor + Frame
        BY <3>1 DEF FrameWhenIdle, frame_end
      <4>2. QED
        BY <1>1, <4>1, Constants
    <3>2. ASSUME NEW voiced \in BOOLEAN, FrameInSpeech(voiced)
          PROVE  <2>2
      BY <1>1, <3>2, Constants DEF FrameInSpeech, Capped, monus
    <3>3. ASSUME NEW voiced \in BOOLEAN, FrameAtCap(voiced)
          PROVE  <2>2
      BY <1>1, <3>3, Constants DEF FrameAtCap
    <3>4. ASSUME FrameCloses \/ EndSession
          PROVE  <2>2
      BY <3>4 DEF FrameCloses, EndSession
    <3>5. QED
      BY <1>2, <3>1, <3>2, <3>3, <3>4 DEF Merging
  <2>3. AllIn(emitted', pending', Capping)
    <3>1. PICK offered \in BOOLEAN, ve \in Nat :
             /\ Merged(offered, Span(speech_start, ve, cursor'))
             /\ offered => in_speech /\ speech_start <= ve /\ ve <= cursor + Frame
      BY <2>1 DEF MergeStep
    <3> DEFINE span == Span(speech_start, ve, cursor')
    <3>2. /\ span \in Turn /\ span.voiced_start = speech_start /\ span.voiced_end = ve
      BY <1>1, SpanIsATurn DEF Span, TypeOK
    <3>3. Merged(offered, span)
      BY <3>1
    <3> HIDE DEF span
    <3>4. offered => span \in Capping
      BY <1>1, <3>1, <3>2, Constants DEF Capping, CapInv
    <3>5. ASSUME offered, Joins(span)
          PROVE  Joined(span) \in Capping
      <4>1. /\ pending \in Turn /\ Joined(span) \in Turn
            /\ Joined(span).voiced_start = pending.voiced_start
            /\ Joined(span).voiced_end = ve
            /\ monus(ve, pending.voiced_start) <= MaxSegment
        BY <1>1, <3>2, <3>5, JoinedIsATurn DEF Joins, Joined
      <4>2. ve - pending.voiced_start < MaxSegment + Frame
        BY <4>1, Constants, TurnsHaveTimes DEF monus
      <4>3. QED
        BY <4>1, <4>2 DEF Capping
    <3>6. QED
      BY <3>2, <3>3, <3>4, <3>5, MergedAllIn DEF CapInv
  <2>4. rows' = rows
    BY <2>1 DEF MergeStep
  <2>5. QED
    BY <2>2, <2>3, <2>4 DEF CapInv
<1>3. ASSUME UNCHANGED <<in_speech, cursor, speech_start>> \/ ~in_speech',
             emitted' = emitted \/ emitted' = <<>> , pending' = pending \/ pending' = NoTurn,
             rows' = rows
      PROVE  CapInv'
  BY <1>3, EmptySeq DEF CapInv, AllIn
<1>4. ASSUME NEW n \in Holes, Hole(n)
      PROVE  CapInv'
  BY <1>3, <1>4 DEF Hole, segmenter_vars
<1>5. ASSUME NEW n \in Flaps, AbsorbFlap(n)
      PROVE  CapInv'
  BY <1>3, <1>5 DEF AbsorbFlap, segmenter_vars, DiscardAcrossGap
<1>6. ASSUME NEW n \in Chunks, Buffer(n)
      PROVE  CapInv'
  BY <1>3, <1>6 DEF Buffer, segmenter_vars, DiscardAcrossGap
<1>7. ASSUME FrameFails \/ WriteFails \/ Trim \/ SessionClosed \/ UNCHANGED vars
      PROVE  CapInv'
  BY <1>3, <1>7 DEF FrameFails, WriteFails, Trim, SessionClosed, vars, segmenter_vars
<1>8. ASSUME WriteTurn
      PROVE  CapInv'
  <2>1. /\ emitted # <<>> /\ emitted' = Tail(emitted) /\ pending' = pending
        /\ UNCHANGED <<in_speech, cursor, speech_start>>
        /\ rows' = rows \/ rows' = Append(rows, RowFor(Head(emitted)))
    BY <1>8 DEF WriteTurn, Writing, segmenter_vars
  <2>2. /\ Len(emitted) \in Nat \ {0} /\ Len(emitted') = Len(emitted) - 1
        /\ Head(emitted) = emitted[1] /\ Head(emitted) \in Turn
        /\ \A i \in 1..Len(emitted') : emitted'[i] = emitted[i + 1]
    BY <1>1, <2>1, HeadTailProperties, EmptySeq
  <2>3. Head(emitted) \in Capping /\ \A i \in 1..Len(emitted') : emitted'[i] \in Capping
    BY <2>2 DEF CapInv, AllIn
  <2>4. RowFor(Head(emitted)) \in Row /\ RowFor(Head(emitted)).turn = Head(emitted)
    BY <2>2, RowIsTyped
  <2>5. \A i \in 1..Len(rows') : rows'[i].turn \in Capping
    <3>1. CASE rows' = rows
      BY <3>1 DEF CapInv
    <3>2. CASE rows' = Append(rows, RowFor(Head(emitted)))
      BY <1>1, <2>3, <2>4, <3>2, Appended DEF CapInv
    <3>3. QED
      BY <2>1, <3>1, <3>2
  <2>6. QED
    BY <2>1, <2>3, <2>5 DEF CapInv, AllIn
<1>9. QED
  BY <1>2, <1>4, <1>5, <1>6, <1>7, <1>8, NextCases

-----------------------------------------------------------------------------
(* What the ring joins, and rows with it.                                  *)
LEMMA MoreHidden ==
  ASSUME NEW s, NEW h1, NEW h2, h1 \subseteq h2, SeamsIn(h1, s)
  PROVE  SeamsIn(h2, s)
  BY DEF SeamsIn

LEMMA SeamsOfPart ==
  ASSUME NEW hid, NEW s \in Seq(Nat), NEW part \in Seq(Nat), NEW m \in Nat, SeamsIn(hid, s),
         \A i \in 1..Len(part) : m + i \in 1..Len(s) /\ part[i] = s[m + i]
  PROVE  SeamsIn(hid, part)
<1>1. SUFFICES ASSUME NEW j \in 2..Len(part)
               PROVE  \/ part[j - 1] < part[j] /\ Unnoticed(part[j] - part[j - 1] - 1)
                      \/ \E h \in hid : part[j - 1] < h /\ h <= part[j]
  BY DEF SeamsIn
<1>2. j \in 1..Len(part) /\ j - 1 \in 1..Len(part) /\ Len(s) \in Nat
  OBVIOUS
<1>3. /\ part[j] = s[m + j] /\ part[j - 1] = s[m + (j - 1)] /\ m + (j - 1) = (m + j) - 1
      /\ m + j \in 2..Len(s)
  BY <1>2
<1>4. QED
  BY <1>3 DEF SeamsIn

LEMMA SeamsOfBuffer ==
  ASSUME NEW hid, NEW kept \in Seq(Nat), NEW at \in Nat, NEW n \in Nat, SeamsIn(hid, kept),
         NEW samples \in Seq(Nat), Len(samples) = n,
         \A i \in 1..n : samples[i] = at + (i - 1),
         kept # <<>> =>
            \/ kept[Len(kept)] < at /\ Unnoticed(at - kept[Len(kept)] - 1)
            \/ \E h \in hid : kept[Len(kept)] < h /\ h <= at
  PROVE  SeamsIn(hid, kept \o samples)
<1> DEFINE s == kept \o samples
<1>1. /\ s \in Seq(Nat) /\ Len(s) = Len(kept) + n /\ Len(kept) \in Nat
      /\ \A i \in 1..Len(kept) : s[i] = kept[i]
      /\ \A i \in (Len(kept) + 1)..(Len(kept) + n) : s[i] = at + (i - Len(kept) - 1)
  <2>1. Len(kept) \in Nat
    OBVIOUS
  <2>2. /\ s \in Seq(Nat) /\ Len(s) = Len(kept) + n
        /\ \A i \in 1..(Len(kept) + n) :
              s[i] = IF i <= Len(kept) THEN kept[i] ELSE samples[i - Len(kept)]
    BY ConcatProperties
  <2> HIDE DEF s
  <2>3. \A i \in 1..Len(kept) : s[i] = kept[i]
    BY <2>1, <2>2
  <2>4. \A i \in (Len(kept) + 1)..(Len(kept) + n) :
           s[i] = samples[i - Len(kept)] /\ i - Len(kept) \in 1..n
    BY <2>1, <2>2
  <2>5. \A i \in (Len(kept) + 1)..(Len(kept) + n) : s[i] = at + (i - Len(kept) - 1)
    BY <2>1, <2>4
  <2>6. QED
    BY <2>1, <2>2, <2>3, <2>5
<1> HIDE DEF s
<1>2. SUFFICES ASSUME NEW j \in 2..Len(s)
               PROVE  \/ s[j - 1] < s[j] /\ Unnoticed(s[j] - s[j - 1] - 1)
                      \/ \E h \in hid : s[j - 1] < h /\ h <= s[j]
  BY DEF SeamsIn, s
<1>7. j \in Nat /\ j - 1 \in Nat /\ j >= 2 /\ j <= Len(kept) + n /\ Len(kept) \in Nat
  BY <1>1
<1>8. PICK k \in Nat : k = j - 1 /\ k \in 1..(Len(kept) + n) /\ k < j
  BY <1>7
<1>3. CASE j <= Len(kept)
  <2>1. k \in 1..Len(kept) /\ j \in 1..Len(kept) /\ j \in 2..Len(kept)
    BY <1>3, <1>7, <1>8
  <2>2. s[j] = kept[j] /\ s[k] = kept[k]
    BY <1>1, <2>1
  <2>3. \/ kept[j - 1] < kept[j] /\ Unnoticed(kept[j] - kept[j - 1] - 1)
        \/ \E h \in hid : kept[j - 1] < h /\ h <= kept[j]
    BY <2>1 DEF SeamsIn
  <2>4. s[j - 1] = kept[j - 1]
    BY <1>8, <2>2
  <2>5. QED
    BY <2>2, <2>3, <2>4
<1>4. CASE j = Len(kept) + 1
  <2>1. k = Len(kept) /\ k \in 1..Len(kept) /\ j \in (Len(kept) + 1)..(Len(kept) + n)
    BY <1>4, <1>7, <1>8
  <2>2. s[j] = at + (j - Len(kept) - 1) /\ s[k] = kept[k]
    BY <1>1, <2>1
  <2>3. at + (j - Len(kept) - 1) = at
    BY <1>1, <1>4
  <2>4. s[j] = at /\ s[j - 1] = kept[Len(kept)]
    BY <1>8, <2>1, <2>2, <2>3
  <2>5. kept # <<>>
    BY <2>1, EmptySeq
  <2>6. QED
    BY <2>4, <2>5
<1>5. CASE j > Len(kept) + 1
  <2>1. /\ j \in (Len(kept) + 1)..(Len(kept) + n) /\ k \in (Len(kept) + 1)..(Len(kept) + n)
    BY <1>5, <1>7, <1>8
  <2>2. s[j] = at + (j - Len(kept) - 1) /\ s[k] = at + (k - Len(kept) - 1)
    BY <1>1, <2>1
  <2>3. PICK x \in Int, y \in Int :
           x = at + (k - Len(kept) - 1) /\ y = at + (j - Len(kept) - 1) /\ y = x + 1
    <3>1. at + (k - Len(kept) - 1) \in Int /\ at + (j - Len(kept) - 1) \in Int
      BY <1>7, <1>8
    <3>2. at + (j - Len(kept) - 1) = (at + (k - Len(kept) - 1)) + 1
      BY <1>7, <1>8
    <3>3. QED
      BY <3>1, <3>2
  <2>4. s[j - 1] = x /\ s[j] = y
    BY <1>8, <2>2, <2>3
  <2>5. x < y /\ y - x - 1 = 0
    BY <2>3
  <2>6. Unnoticed(0)
    BY Constants DEF Unnoticed
  <2>7. QED
    BY <2>4, <2>5, <2>6
<1>6. QED
  BY <1>1, <1>3, <1>4, <1>5, <1>7

(* What has been lost since the ring's last sample shows in the drift,     *)
(* unless a flap has moved the anchor past it.                             *)
LastSampleInv ==
    ring # <<>> =>
        /\ 0 <= lost
        /\ anchor_sample < received => lost <= drift
        /\ anchor_sample = received =>
              \/ \E n \in SmallFlaps : lost <= MaxSkew + n + drift
              \/ \E h \in hidden : ring[Len(ring)] < h /\ h <= now

LEMMA SeamStep ==
  ASSUME TypeOK, TypeOK', CountersInv, SeamInv, [Next]_vars
  PROVE  SeamInv'
<1>1. /\ now \in Nat /\ anchor \in Nat /\ anchor_sample \in Nat /\ received \in Nat
      /\ ring \in Seq(Nat) /\ rows \in Seq(Row) /\ hidden \subseteq Nat
      /\ drift \in Int /\ MaxSkew \in Nat
      /\ ring # <<>> => Len(ring) \in 1..Len(ring) /\ ring[Len(ring)] \in Nat
      /\ Len(ring) \in Nat
  <2>1. ring # <<>> => Len(ring) \in 1..Len(ring) /\ ring[Len(ring)] \in Nat
    <3>1. ring \in Seq(Nat)
      BY DEF TypeOK
    <3>2. ring # <<>> => Len(ring) \in Nat \ {0}
      BY <3>1, EmptySeq
    <3>3. QED
      BY <3>1, <3>2, ElementOfSeq
  <2>2. /\ now \in Nat /\ anchor \in Nat /\ anchor_sample \in Nat /\ received \in Nat
        /\ ring \in Seq(Nat) /\ rows \in Seq(Row) /\ hidden \subseteq Nat
    BY DEF TypeOK
  <2>3. drift \in Int /\ Len(ring) \in Nat
    BY <2>2 DEF drift
  <2>4. QED
    BY <2>1, <2>2, <2>3, Constants
<1>2. /\ anchor_sample <= received /\ 0 <= drift /\ SeamsIn(hidden, ring) /\ LastSampleInv
      /\ \A i \in 1..Len(rows) : SeamsIn(hidden, rows[i].audio)
  BY DEF SeamInv, LastSampleInv
<1>3. ASSUME UNCHANGED <<clock_vars, ring, received, rows>>
      PROVE  SeamInv'
  BY <1>3 DEF SeamInv, clock_vars, drift, lost
<1>4. ASSUME NEW n \in Holes, Hole(n)
      PROVE  SeamInv'
  <2>1. /\ n \in Nat /\ now' = now + n
        /\ UNCHANGED <<anchor, anchor_sample, received, ring, rows, hidden>>
    BY <1>4, Constants DEF Hole, ring_vars
  <2>2. drift' = drift + n
    BY <1>1, <2>1 DEF drift
  <2>3. ring # <<>> => lost' = lost + n /\ lost \in Int
    <3>1. ring # <<>> => ring[Len(ring)] \in Nat
      BY <1>1
    <3>2. now \in Nat /\ lost' = (now + n) - ring[Len(ring)] - 1
      BY <1>1, <2>1 DEF lost
    <3>3. QED
      BY <2>1, <3>1, <3>2 DEF lost
  <2>4. \A h \in hidden : h <= now => h <= now + n
    BY <1>1, <2>1
  <2>5. \A f \in SmallFlaps : f \in Nat
    BY Constants DEF SmallFlaps
  <2>6. ring # <<>> =>
           /\ 0 <= lost'
           /\ anchor_sample < received => lost' <= drift'
           /\ anchor_sample = received =>
                 \/ \E f \in SmallFlaps : lost' <= MaxSkew + f + drift'
                 \/ \E h \in hidden : ring[Len(ring)] < h /\ h <= now'
    <3>1. SUFFICES ASSUME ring # <<>>
                   PROVE  /\ 0 <= lost'
                          /\ anchor_sample < received => lost' <= drift'
                          /\ anchor_sample = received =>
                                \/ \E f \in SmallFlaps : lost' <= MaxSkew + f + drift'
                                \/ \E h \in hidden : ring[Len(ring)] < h /\ h <= now'
      OBVIOUS
    <3>2. /\ lost' = lost + n /\ lost \in Int /\ 0 <= lost
          /\ anchor_sample < received => lost <= drift
          /\ anchor_sample = received =>
                \/ \E f \in SmallFlaps : lost <= MaxSkew + f + drift
                \/ \E h \in hidden : ring[Len(ring)] < h /\ h <= now
      BY <1>2, <2>3, <3>1 DEF LastSampleInv
    <3>3. 0 <= lost' /\ (anchor_sample < received => lost' <= drift')
      BY <1>1, <2>1, <2>2, <3>2
    <3>4. \A f \in SmallFlaps : lost <= MaxSkew + f + drift => lost' <= MaxSkew + f + drift'
      BY <1>1, <2>1, <2>2, <2>5, <3>2
    <3>5. QED
      BY <2>1, <2>4, <3>2, <3>3, <3>4
  <2>7. QED
    BY <1>1, <1>2, <2>1, <2>2, <2>6 DEF SeamInv
<1>5. ASSUME NEW n \in Flaps, AbsorbFlap(n)
      PROVE  SeamInv'
  <2>1. /\ n \in Nat /\ now' = now + n /\ anchor' = now + n /\ anchor_sample' = received
        /\ received' = received /\ rows' = rows /\ hidden' = HiddenBy(n)
    BY <1>5, Constants DEF AbsorbFlap
  <2>2. drift' = 0 /\ hidden \subseteq hidden'
    BY <1>1, <2>1 DEF drift, HiddenBy
  <2>3. \A i \in 1..Len(rows) : SeamsIn(hidden', rows[i].audio)
    BY <1>2, <2>2, MoreHidden
  <2>4. CASE n >= MinSilence
    <3>1. ring' = <<>> /\ Len(ring') = 0
      BY <1>5, <2>4, EmptySeq DEF AbsorbFlap
    <3>2. SeamsIn(hidden', ring')
      BY <3>1 DEF SeamsIn
    <3>3. QED
      BY <1>1, <2>1, <2>2, <2>3, <3>1, <3>2 DEF SeamInv
  <2>5. CASE ~(n >= MinSilence)
    <3>1. ring' = ring /\ n < MinSilence /\ n \in SmallFlaps
      BY <1>5, <2>1, <2>5, Constants DEF AbsorbFlap, SmallFlaps
    <3>2. SeamsIn(hidden', ring')
      BY <1>2, <2>2, <3>1, MoreHidden
    <3>3. ring # <<>> => lost' = lost + n /\ 0 <= lost /\ lost \in Int
                         /\ ring[Len(ring)] < now'
      <4>1. ring # <<>> => 0 <= lost
        BY <1>2 DEF LastSampleInv
      <4>2. QED
        <5>1. SUFFICES ASSUME ring # <<>>
                       PROVE  lost' = lost + n /\ 0 <= lost /\ lost \in Int
                              /\ ring[Len(ring)] < now'
          OBVIOUS
        <5>2. lost = now - ring[Len(ring)] - 1 /\ lost' = now' - ring[Len(ring)] - 1
          BY <3>1 DEF lost
        <5>3. ring[Len(ring)] \in Nat /\ 0 <= lost
          BY <1>1, <4>1, <5>1
        <5>4. QED
          <6>1. PICK x \in Nat : x = ring[Len(ring)]
            BY <5>3
          <6>2. lost = now - x - 1 /\ lost' = (now + n) - x - 1 /\ 0 <= now - x - 1
            BY <2>1, <5>2, <5>3, <6>1
          <6>3. /\ (now + n) - x - 1 = (now - x - 1) + n /\ now - x - 1 \in Int
                /\ x < now + n
            BY <1>1, <2>1, <6>2
          <6>4. QED
            BY <2>1, <5>3, <6>1, <6>2, <6>3
    <3>4. ring # <<>> => \/ \E f \in SmallFlaps : lost' <= MaxSkew + f + drift'
                         \/ \E h \in hidden' : ring[Len(ring)] < h /\ h <= now'
      <4>1. CASE (Skewed \/ anchor_sample = received)
        <5>1. now' \in hidden'
          BY <2>1, <3>1, <4>1 DEF HiddenBy
        <5>2. now' <= now'
          BY <1>1, <2>1
        <5>3. QED
          BY <3>3, <5>1, <5>2
      <4>2. CASE ~(Skewed \/ anchor_sample = received)
        <5>1. drift <= MaxSkew /\ anchor_sample < received
          BY <1>1, <1>2, <4>2 DEF Skewed, drift
        <5>2. ring # <<>> => lost <= MaxSkew
          BY <1>1, <1>2, <3>3, <5>1 DEF LastSampleInv
        <5>3. ring # <<>> => lost' <= MaxSkew + n + drift'
          BY <1>1, <2>1, <2>2, <3>3, <5>2
        <5>4. QED
          BY <3>1, <5>3
      <4>3. QED
        BY <4>1, <4>2
    <3>5. ring' # <<>> => 0 <= lost'
      BY <2>1, <3>1, <3>3
    <3>6. QED
      <4>1. anchor_sample' <= received' /\ 0 <= drift' /\ ~(anchor_sample' < received')
        BY <1>1, <2>1, <2>2
      <4>2. LastSampleInv'
        BY <3>1, <3>4, <3>5, <4>1 DEF LastSampleInv
      <4>3. QED
        BY <2>1, <2>3, <3>2, <4>1, <4>2 DEF SeamInv, LastSampleInv
  <2>6. QED
    BY <2>4, <2>5
<1>6. ASSUME NEW n \in Chunks, Buffer(n)
      PROVE  SeamInv'
  <2> DEFINE samples == [i \in 1..n |-> now + (i - 1)]
  <2>1. /\ n \in Nat /\ 0 < n /\ now' = now + n /\ received' = received + n
        /\ UNCHANGED <<rows, hidden>>
    BY <1>6, Constants DEF Buffer
  <2>2. SeamsIn(hidden, <<>>) /\ <<>> \in Seq(Nat)
    BY EmptySeq DEF SeamsIn
  <2>7. samples \in Seq(Nat) /\ Len(samples) = n /\ \A i \in 1..n : samples[i] = now + (i - 1)
    BY <1>1, <2>1
  <2>3. \A kept \in Seq(Nat) : \A s : s = kept \o samples =>
           s # <<>> /\ s[Len(s)] = now + n - 1
    <3>1. SUFFICES ASSUME NEW kept \in Seq(Nat)
                   PROVE  /\ kept \o samples # <<>>
                          /\ (kept \o samples)[Len(kept \o samples)] = now + n - 1
      OBVIOUS
    <3>2. /\ Len(kept \o samples) = Len(kept) + n /\ Len(kept) \in Nat
          /\ \A i \in (Len(kept) + 1)..(Len(kept) + n) :
                (kept \o samples)[i] = now + (i - Len(kept) - 1)
      BY <1>1, <2>1, BufferedAudio
    <3> HIDE DEF samples
    <3>3. Len(kept) + n \in (Len(kept) + 1)..(Len(kept) + n)
      BY <2>1, <3>2
    <3>4. (kept \o samples)[Len(kept) + n] = now + ((Len(kept) + n) - Len(kept) - 1)
      BY <3>2, <3>3
    <3>5. now + ((Len(kept) + n) - Len(kept) - 1) = now + n - 1
      BY <1>1, <2>1, <3>2
    <3>6. Len(kept \o samples) # 0
      BY <2>1, <3>2
    <3>7. QED
      BY <3>2, <3>4, <3>5, <3>6, EmptySeq
  <2>4. CASE Skewed
    <3>1. ring' = samples /\ anchor' = now /\ anchor_sample' = received
      BY <1>6, <2>4 DEF Buffer
    <3>2. samples \in Seq(Nat) /\ samples = <<>> \o samples
      <4>1. samples \in Seq(Nat)
        BY <1>1, <2>1, BufferedAudio
      <4>2. QED
        BY <4>1, ConcatEmptySeq
    <3>3. SeamsIn(hidden, <<>> \o samples)
      BY <1>1, <2>1, <2>2, <2>7, SeamsOfBuffer
    <3> HIDE DEF samples
    <3>4. ring' # <<>> /\ ring'[Len(ring')] = now + n - 1
      BY <2>2, <2>3, <3>1, <3>2
    <3>5. lost' = 0 /\ drift' = 0
      BY <1>1, <2>1, <3>1, <3>4 DEF lost, drift
    <3>6. SeamsIn(hidden', ring')
      BY <2>1, <3>1, <3>2, <3>3
    <3>7. QED
      BY <1>1, <1>2, <2>1, <3>1, <3>4, <3>5, <3>6 DEF SeamInv
  <2>5. CASE ~Skewed
    <3>1. ring' = ring \o samples /\ anchor' = anchor /\ anchor_sample' = anchor_sample
      BY <1>6, <2>5 DEF Buffer
    <3>2. drift <= MaxSkew
      BY <1>1, <2>5 DEF Skewed, drift
    <3>3. ring # <<>> =>
             \/ ring[Len(ring)] < now /\ Unnoticed(now - ring[Len(ring)] - 1)
             \/ \E h \in hidden : ring[Len(ring)] < h /\ h <= now
      <4>1. SUFFICES ASSUME ring # <<>>, ~\E h \in hidden : ring[Len(ring)] < h /\ h <= now
                     PROVE  ring[Len(ring)] < now /\ Unnoticed(now - ring[Len(ring)] - 1)
        OBVIOUS
      <4>2. lost \in Int /\ 0 <= lost /\ lost = now - ring[Len(ring)] - 1
            /\ ring[Len(ring)] < now
        BY <1>1, <1>2, <4>1 DEF lost, LastSampleInv
      <4>3. \A f \in SmallFlaps : f \in Nat
        BY Constants DEF SmallFlaps
      <4>4. Unnoticed(lost)
        <5>1. CASE anchor_sample < received
          BY <1>1, <1>2, <3>2, <4>1, <4>2, <5>1 DEF LastSampleInv, Unnoticed
        <5>2. CASE anchor_sample = received
          <6>1. PICK f \in SmallFlaps : lost <= MaxSkew + f + drift
            BY <1>2, <4>1, <5>2 DEF LastSampleInv
          <6>2. lost <= 2 * MaxSkew + f
            BY <1>1, <3>2, <4>2, <4>3, <6>1
          <6>3. QED
            BY <6>2 DEF Unnoticed
        <5>3. QED
          BY <1>1, <1>2, <5>1, <5>2
      <4>5. QED
        BY <4>2, <4>4
    <3>4. SeamsIn(hidden, ring \o samples)
      BY <1>1, <1>2, <2>1, <2>7, <3>3, SeamsOfBuffer
    <3> HIDE DEF samples
    <3>5. ring' # <<>> /\ ring'[Len(ring')] = now + n - 1
      BY <1>1, <2>3, <3>1
    <3>6. lost' = 0 /\ drift' = drift
      BY <1>1, <2>1, <3>1, <3>5 DEF lost, drift
    <3>7. SeamsIn(hidden', ring')
      BY <2>1, <3>1, <3>4
    <3>8. anchor_sample' < received'
      BY <1>1, <1>2, <2>1, <3>1
    <3>9. QED
      <4>1. anchor_sample' <= received' /\ 0 <= drift' /\ ~(anchor_sample' = received')
        BY <1>1, <1>2, <2>1, <3>1, <3>6, <3>8
      <4>2. LastSampleInv'
        BY <1>1, <1>2, <3>6, <4>1 DEF LastSampleInv
      <4>3. QED
        BY <1>2, <2>1, <3>7, <4>1, <4>2 DEF SeamInv, LastSampleInv
  <2>6. QED
    BY <2>4, <2>5
<1>7. ASSUME WriteTurn
      PROVE  SeamInv'
  <2> DEFINE row == RowFor(Head(emitted))
  <2>1. /\ UNCHANGED <<clock_vars, ring, received>>
        /\ rows' = rows \/ rows' = Append(rows, row)
        /\ emitted \in Seq(Turn) /\ emitted # <<>>
    BY <1>7 DEF WriteTurn, Writing, ring_vars, TypeOK
  <2>2. Head(emitted) \in Turn
    BY <2>1, HeadTailProperties
  <2>3. /\ row \in Row
        /\ row.audio = Extract(Head(emitted).start, Head(emitted).end)
    BY <2>2, RowIsTyped
  <2>4. SeamsIn(hidden, row.audio)
    <3>1. /\ Head(emitted).start \in Nat /\ Head(emitted).end \in Nat
          /\ monus(Head(emitted).start, ring_base) \in Nat
      BY <2>2, TurnsHaveTimes, MonusIsNat DEF TypeOK
    <3>2. /\ row.audio \in Seq(Nat)
          /\ \A i \in 1..Len(row.audio) :
                /\ monus(Head(emitted).start, ring_base) + i \in 1..Len(ring)
                /\ row.audio[i] = ring[monus(Head(emitted).start, ring_base) + i]
      <4> DEFINE a == Head(emitted).start
                 b == Head(emitted).end
      <4>1. a \in Nat /\ b \in Nat /\ row.audio = Extract(a, b)
        BY <2>3, <3>1
      <4> HIDE DEF a, b, row
      <4>2. /\ Extract(a, b) \in Seq(Nat)
            /\ \A i \in 1..Len(Extract(a, b)) :
                  /\ monus(a, ring_base) + i \in 1..Len(ring)
                  /\ Extract(a, b)[i] = ring[monus(a, ring_base) + i]
        BY <4>1, ExtractedAudio
      <4>3. QED
        BY <4>1, <4>2 DEF a, b
    <3> HIDE DEF row
    <3>3. QED
      BY <1>1, <1>2, <3>1, <3>2, SeamsOfPart
  <2> HIDE DEF row
  <2>5. \A i \in 1..Len(rows') : SeamsIn(hidden, rows'[i].audio)
    <3>1. CASE rows' = rows
      BY <1>2, <3>1
    <3>2. CASE rows' = Append(rows, row)
      BY <1>1, <1>2, <2>3, <2>4, <3>2, Appended
    <3>3. QED
      BY <2>1, <3>1, <3>2
  <2>6. QED
    BY <2>1, <2>5 DEF SeamInv, clock_vars, drift, lost
<1>8. ASSUME Trim
      PROVE  SeamInv'
  <2> DEFINE drop == lesser(monus(KeepFrom, ring_base), Len(ring))
  <2>1. drop \in 0..Len(ring)
    BY KeepFromIsNat
  <2>2. ring' = SubSeq(ring, drop + 1, Len(ring)) /\ UNCHANGED <<clock_vars, received, rows>>
    BY <1>8 DEF Trim
  <2> HIDE DEF drop
  <2>3. /\ ring' \in Seq(Nat) /\ Len(ring') = Len(ring) - drop
        /\ \A i \in 1..Len(ring') : ring'[i] = ring[drop + i]
    BY <2>1, <2>2, TrimmedAudio
  <2>4. SeamsIn(hidden, ring')
    <3>1. drop \in Nat /\ \A i \in 1..Len(ring') : drop + i \in 1..Len(ring)
      BY <1>1, <2>1, <2>3
    <3>2. /\ ring \in Seq(Nat) /\ ring' \in Seq(Nat) /\ SeamsIn(hidden, ring)
          /\ \A i \in 1..Len(ring') : drop + i \in 1..Len(ring) /\ ring'[i] = ring[drop + i]
      BY <1>1, <1>2, <2>3, <3>1
    <3>3. QED
      BY <3>1, <3>2, SeamsOfPart
  <2>5. ring' # <<>> => ring # <<>> /\ ring'[Len(ring')] = ring[Len(ring)]
    <3>1. SUFFICES ASSUME ring' # <<>>
                   PROVE  ring # <<>> /\ ring'[Len(ring')] = ring[Len(ring)]
      OBVIOUS
    <3>2. Len(ring') \in 1..Len(ring') /\ Len(ring) # 0
      BY <1>1, <2>1, <2>3, <3>1, EmptySeq
    <3>3. drop + Len(ring') = Len(ring)
      BY <1>1, <2>1, <2>3
    <3>4. QED
      BY <2>3, <3>2, <3>3, EmptySeq
  <2>6. QED
    BY <1>2, <2>2, <2>4, <2>5 DEF SeamInv, LastSampleInv, clock_vars, drift, lost
<1>9. ASSUME Merging \/ FrameFails \/ WriteFails \/ SessionClosed \/ UNCHANGED vars
      PROVE  SeamInv'
  <2>1. Merging => UNCHANGED <<clock_vars, ring, received, rows>>
    BY MergingMerges DEF MergeStep, ring_vars
  <2>2. QED
    BY <1>3, <1>9, <2>1 DEF FrameFails, WriteFails, SessionClosed, vars, ring_vars
<1>10. QED
  BY <1>4, <1>5, <1>6, <1>7, <1>8, <1>9, NextCases

-----------------------------------------------------------------------------
LEMMA InvariantHoldsAtFirst ==
  Init => SegmentationInv /\ CapInv
<1> SUFFICES ASSUME Init
             PROVE  SegmentationInv /\ CapInv
  OBVIOUS
<1>1. /\ now = 0 /\ anchor = 0 /\ anchor_sample = 0 /\ received = 0 /\ ring_base = 0
      /\ ring = <<>> /\ emitted = <<>> /\ rows = <<>> /\ pending = NoTurn
      /\ Len(ring) = 0 /\ Len(emitted) = 0 /\ Len(rows) = 0
      /\ ~in_speech /\ in_speech \in BOOLEAN
      /\ speech_start = 0 /\ last_voiced_end = 0 /\ cursor = 0
      /\ fresh_from = 0 /\ spoken = {} /\ hidden = {} /\ pc = "idle"
  BY DEF Init
<1>2. TypeOK
  BY <1>1, EmptySeq DEF TypeOK
<1>3. CountersInv
  <2>1. mark = 0 /\ HeldFrom(0)
    BY <1>1 DEF mark, HeldFrom
  <2>2. QED
    BY <1>1, <2>1 DEF CountersInv, RingAligned
<1>4. TurnsFit /\ ChainInv /\ SpokenInv /\ CapInv
  BY <1>1 DEF TurnsFit, ChainInv, SpokenInv, CapInv, AllIn, Chain
<1>5. SeamInv
  <2>1. SeamsIn(hidden, ring) /\ drift = 0
    BY <1>1 DEF SeamsIn, drift
  <2>2. QED
    BY <1>1, <2>1 DEF SeamInv
<1>6. QED
  BY <1>2, <1>3, <1>4, <1>5 DEF SegmentationInv

LEMMA InvariantIsInductive ==
  SegmentationInv /\ [Next]_vars => SegmentationInv'
<1> SUFFICES ASSUME SegmentationInv, [Next]_vars
             PROVE  SegmentationInv'
  OBVIOUS
<1>1. TypeOK /\ CountersInv /\ TurnsFit /\ ChainInv /\ SpokenInv /\ SeamInv
  BY DEF SegmentationInv
<1>2. TypeOK'
  BY <1>1, TypeStep
<1>3. CountersInv' /\ SeamInv'
  BY <1>1, <1>2, CountersStep, SeamStep
<1>4. TurnsFit' /\ ChainInv' /\ SpokenInv'
  <2>1. CASE Merging
    BY <1>1, <1>2, <2>1, MergingKeepsTurns
  <2>2. CASE WriteTurn
    BY <1>1, <1>2, <2>2, WriteTurnKeepsTurns
  <2>3. CASE ~Merging /\ ~WriteTurn
    BY <1>1, <1>2, <2>3, OthersKeepTurns
  <2>4. QED
    BY <2>1, <2>2, <2>3
<1>5. QED
  BY <1>2, <1>3, <1>4 DEF SegmentationInv

(* One inductive invariant carries the counters, the open turns, their     *)
(* order, the speech owed and the seams of the ring through every buffer,  *)
(* frame, hole, flap, failed write and trim.                               *)
THEOREM SegmentationInvariant == Spec => []SegmentationInv
<1>1. QED
  BY InvariantHoldsAtFirst, InvariantIsInductive, PTL DEF Spec

(* The ring's base, its length and the sample counter never come apart     *)
(* (SessionPipeline's trim, discard_across_gap and extract).               *)
THEOREM TheRingStaysAligned == Spec => []RingAligned
<1>1. SegmentationInv => RingAligned
  BY DEF SegmentationInv, CountersInv
<1>2. QED
  BY <1>1, SegmentationInvariant, PTL

(* retain_from and trim never drop audio that an open turn will need.      *)
THEOREM OpenTurnsKeepTheirAudio == Spec => []OpenAudioIsKept
<1>1. SegmentationInv => OpenAudioIsKept
  <2>1. SUFFICES ASSUME SegmentationInv, NEW turn \in OpenTurns
                 PROVE  \/ ring_base <= turn.start
                        \/ ring_base = fresh_from /\ fresh_from <= turn.voiced_start
    BY DEF OpenAudioIsKept
  <2>2. CASE turn \in Fitting
    BY <2>2 DEF Fitting
  <2>3. CASE in_speech /\ turn = Span(speech_start, last_voiced_end, cursor)
    <3>1. turn.start = monus(speech_start, Pad) /\ turn.voiced_start = speech_start
      BY <2>3 DEF Span
    <3>2. HeldFrom(speech_start)
      BY <2>1, <2>3 DEF SegmentationInv, CountersInv, mark
    <3>3. QED
      BY <3>1, <3>2 DEF HeldFrom
  <2>4. turn \in Fitting \/ (in_speech /\ turn = Span(speech_start, last_voiced_end, cursor))
    BY <2>1 DEF OpenTurns, SegmentationInv, TurnsFit, AllIn
  <2>5. QED
    BY <2>2, <2>3, <2>4
<1>2. QED
  BY <1>1, SegmentationInvariant, PTL

(* No row joins audio from the two sides of a hole that maybe_reanchor     *)
(* would have noticed, whatever flaps on_gap absorbs.                      *)
THEOREM RowsAreSeamless == Spec => []NoSplice
<1>1. SegmentationInv => NoSplice
  BY DEF SegmentationInv, SeamInv, SeamsIn, NoSplice, Seamless, Joint
<1>2. QED
  BY <1>1, SegmentationInvariant, PTL

(* No word is written twice: the turns come in order and share no voiced   *)
(* sample, also across a cut at the cap.                                   *)
THEOREM NoWordIsWrittenTwice == Spec => []TurnsInOrder
<1>1. SegmentationInv => TurnsInOrder
  BY DEF SegmentationInv, ChainInv, Chain, TurnsInOrder
<1>2. QED
  BY <1>1, SegmentationInvariant, PTL

(* No speech is lost but what the code gives up on purpose.                *)
THEOREM NoSpeechIsLost == Spec => []SpeechIsKept
<1>1. SegmentationInv => SpeechIsKept
  <2>1. SUFFICES ASSUME SegmentationInv, NEW f \in spoken
                 PROVE  \/ \E i \in 1..Len(rows) :
                              rows[i].turn.voiced_start <= f /\ f < rows[i].turn.voiced_end
                        \/ \E turn \in OpenTurns :
                              turn.voiced_start <= f /\ f < turn.voiced_end
    BY DEF SpeechIsKept
  <2>2. CASE f \in Segment
    <3> DEFINE span == Span(speech_start, last_voiced_end, cursor)
    <3>1. span.voiced_start <= f /\ f < span.voiced_end /\ in_speech
      BY <2>2 DEF Segment, Span
    <3>2. span \in OpenTurns
      BY <3>1 DEF OpenTurns
    <3>3. QED
      BY <3>1, <3>2
  <2>3. CASE Covered(rows, emitted, pending, f)
    <3>1. /\ \A i \in 1..Len(emitted) : emitted[i] \in OpenTurns
          /\ pending # NoTurn => pending \in OpenTurns
      BY DEF OpenTurns
    <3>2. QED
      BY <2>3, <3>1 DEF Covered, Covers
  <2>4. QED
    BY <2>1, <2>2, <2>3 DEF SegmentationInv, SpokenInv
<1>2. QED
  BY <1>1, SegmentationInvariant, PTL

(* No turn is longer than a maximal segment and the frame that reached it, *)
(* merged or not, provided that a frame (32 ms) is shorter than the cap.   *)
THEOREM NoTurnOutgrowsTheCap ==
  ASSUME Frame < MaxSegment
  PROVE  Spec => []TurnsAreCapped
<1>1. SegmentationInv /\ CapInv /\ [Next]_vars => CapInv'
  <2>1. SUFFICES ASSUME SegmentationInv, CapInv, [Next]_vars
                 PROVE  CapInv'
    OBVIOUS
  <2>2. TypeOK /\ CountersInv /\ TypeOK'
    BY <2>1, InvariantIsInductive DEF SegmentationInv
  <2>3. QED
    BY <2>1, <2>2, CapStep
<1>2. CapInv => TurnsAreCapped
  BY DEF CapInv, Capping, TurnsAreCapped
<1>3. QED
  BY <1>1, <1>2, InvariantHoldsAtFirst, SegmentationInvariant, PTL DEF Spec
=============================================================================
