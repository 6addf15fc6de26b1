-------------------------- MODULE TurnSegmentation --------------------------
(***************************************************************************)
(* How one session's audio becomes turns: the VAD segmenter (crates/       *)
(* recalld/src/vad.rs), the turn merger (turns.rs) and the audio ring and  *)
(* clock anchor of SessionPipeline (pipeline.rs), as on_audio, on_gap and  *)
(* on_session_end drive them.                                              *)
(*                                                                         *)
(* Samples are numbered per session in the order they arrive.  `now' is    *)
(* the capture clock, in samples, so a hole in the audio is a step of the  *)
(* clock that no sample stands for.  The ring holds, for each sample kept, *)
(* the moment it was captured: the module can then say what audio a row    *)
(* really holds, and compare it with what the row claims.  The neural      *)
(* model is left out: it may find speech in any frame or in none.          *)
(***************************************************************************)
EXTENDS Integers, Sequences

CONSTANTS
    Frame,       \* FRAME_SAMPLES
    MinSpeech, MinSilence, Pad, MaxSegment,  \* [vad], in samples
    MergeGap,    \* [vad].turn_merge_gap_ms, in samples
    MaxSkew,     \* the 100 ms a buffer's stamp may be off, in samples
    Chunks,      \* sizes of the buffers PipeWire delivers
    Holes,       \* lengths of the holes that may open in the audio
    Flaps,       \* lengths of the flaps capture may absorb
    MaxTime,     \* bound: how far the capture clock runs
    NoTurn

ASSUME SegmentationAssumption ==
    /\ Frame \in Nat \ {0}
    /\ {MinSpeech, MinSilence, Pad, MaxSegment, MergeGap, MaxSkew, MaxTime} \subseteq Nat
    /\ MaxSegment > 0 /\ MaxSegment >= MinSpeech
    /\ Chunks \subseteq Nat \ {0}
    /\ Holes \subseteq Nat \ {0}
    /\ Flaps \subseteq Nat \ {0}
    /\ NoTurn \notin [start : Nat, end : Nat, voiced_start : Nat, voiced_end : Nat]

VARIABLES
    now,             \* the capture clock
    anchor,          \* Anchor: the moment sample anchor_sample stands for
    anchor_sample,
    received,        \* samples ever accepted for this session
    ring, ring_base, \* the audio kept; ring[1] is sample ring_base
    in_speech, speech_start, last_voiced_end, cursor,  \* Segmenter
    pending,         \* TurnMerger.pending
    emitted,         \* turns on_audio or on_session_end has yet to write
    pc,              \* "idle", "buffer" (in on_audio), "ending", "ended"
    rows,            \* the rows written, with the audio each one holds
    fresh_from,      \* history: the sample the last discard resumed at
    spoken,          \* history: voiced frames a row is still owed for
    hidden           \* history: when audio went on after a flap that hid a hole

segmenter_vars == <<in_speech, speech_start, last_voiced_end, cursor>>
clock_vars == <<now, anchor, anchor_sample, hidden>>
ring_vars == <<received, ring, ring_base>>
vars == <<clock_vars, ring_vars, segmenter_vars, pending, emitted, pc, rows,
          fresh_from, spoken>>

Turn == [start : Nat, end : Nat, voiced_start : Nat, voiced_end : Nat]
Row == [turn : Turn, t_start : Int, t_end : Int, audio : Seq(Nat), since : Nat]

monus(a, b) == IF a >= b THEN a - b ELSE 0
lesser(a, b) == IF a <= b THEN a ELSE b

TypeOK ==
    /\ now \in Nat /\ anchor \in Nat /\ anchor_sample \in Nat
    /\ received \in Nat /\ ring \in Seq(Nat) /\ ring_base \in Nat
    /\ in_speech \in BOOLEAN
    /\ speech_start \in Nat /\ last_voiced_end \in Nat /\ cursor \in Nat
    /\ pending \in Turn \union {NoTurn}
    /\ emitted \in Seq(Turn)
    /\ pc \in {"idle", "buffer", "ending", "ended"}
    /\ rows \in Seq(Row)
    /\ fresh_from \in Nat
    /\ spoken \subseteq Nat /\ hidden \subseteq Nat

(* SessionPipeline::new, on the session's first buffer.                    *)
Init ==
    /\ now = 0 /\ anchor = 0 /\ anchor_sample = 0
    /\ received = 0 /\ ring = <<>> /\ ring_base = 0
    /\ in_speech = FALSE /\ speech_start = 0 /\ last_voiced_end = 0 /\ cursor = 0
    /\ pending = NoTurn /\ emitted = <<>>
    /\ pc = "idle" /\ rows = <<>>
    /\ fresh_from = 0 /\ spoken = {} /\ hidden = {}

-----------------------------------------------------------------------------
(* Definitions whose name ends in _Mutant are deliberate mistakes; see      *)
(* EventQueue.                                                             *)
(* discard_across_gap: segmenter, open turn and ring go together; the      *)
(* clock, the sample counter and what is already written stay.             *)
DiscardAcrossGap ==
    /\ in_speech' = FALSE /\ speech_start' = 0 /\ last_voiced_end' = 0
    /\ cursor' = received
    /\ pending' = NoTurn
    /\ ring_base' = received
    /\ fresh_from' = received
    /\ spoken' = {}

(* Audio is lost on the way: an eviction from the queue, or an xrun.       *)
Hole(n) ==
    /\ pc = "idle" /\ received > 0
    /\ now + n <= MaxTime
    /\ now' = now + n
    /\ UNCHANGED <<anchor, anchor_sample, hidden, ring_vars, segmenter_vars,
                   pending, emitted, pc, rows, fresh_from, spoken>>

Skewed_Mutant == now - (anchor + (received - anchor_sample)) > MergeGap

(* maybe_reanchor: the buffer's stamp against the sample counter.          *)
Skewed == now - (anchor + (received - anchor_sample)) > MaxSkew

\* A flap too short to discard the open turn moves the anchor past whatever was lost
\* since the last buffer, a hole or another flap: the next buffer's stamp will not show it.
HiddenBy(n) ==
    IF n < MinSilence /\ (Skewed \/ anchor_sample = received)
    THEN hidden \union {now + n} ELSE hidden

AbsorbFlap_Mutant(n) ==
    /\ pc = "idle" /\ received > 0
    /\ now + n <= MaxTime
    /\ now' = now + n
    /\ anchor' = now + n
    /\ anchor_sample' = received
    /\ hidden' = HiddenBy(n)
    /\ IF n >= MinSilence THEN DiscardAcrossGap
       ELSE UNCHANGED <<segmenter_vars, pending, ring_base, fresh_from, spoken>>
    /\ UNCHANGED <<received, ring, emitted, pc, rows>>

(* on_gap: the node came back n samples later into the same session.       *)
AbsorbFlap(n) ==
    /\ pc = "idle" /\ received > 0
    /\ now + n <= MaxTime
    /\ now' = now + n
    /\ anchor' = now + n
    /\ anchor_sample' = received
    /\ hidden' = HiddenBy(n)
    /\ IF n >= MinSilence
       THEN DiscardAcrossGap /\ ring' = <<>>
       ELSE UNCHANGED <<segmenter_vars, pending, ring, ring_base, fresh_from, spoken>>
    /\ UNCHANGED <<received, emitted, pc, rows>>

(* on_audio takes a buffer of n samples captured at `now'.                 *)
Buffer(n) ==
    /\ pc = "idle"
    /\ now + n <= MaxTime
    /\ LET samples == [i \in 1..n |-> now + (i - 1)]
       IN IF Skewed
          THEN /\ DiscardAcrossGap
               /\ anchor' = now
               /\ anchor_sample' = received
               /\ ring' = samples
          ELSE /\ ring' = ring \o samples
               /\ UNCHANGED <<anchor, anchor_sample, segmenter_vars, pending,
                              ring_base, fresh_from, spoken>>
    /\ now' = now + n
    /\ received' = received + n
    /\ pc' = "buffer"
    /\ UNCHANGED <<hidden, emitted, rows>>

-----------------------------------------------------------------------------
(* Segmenter::emit, with the cursor the frame has advanced it to.          *)
LongEnough(voiced_start, voiced_end) ==
    monus(voiced_end, voiced_start) >= MinSpeech

Span(voiced_start, voiced_end, at) ==
    [start |-> monus(voiced_start, Pad), end |-> lesser(voiced_end + Pad, at),
     voiced_start |-> voiced_start, voiced_end |-> voiced_end]

Joins_Mutant(span) ==
    /\ pending # NoTurn
    /\ monus(span.voiced_start, pending.voiced_end) <= MergeGap

(* TurnMerger::push: a span joins the open turn, or replaces it.           *)
Joins(span) ==
    /\ pending # NoTurn
    /\ monus(span.voiced_start, pending.voiced_end) <= MergeGap
    /\ monus(span.voiced_end, pending.voiced_start) <= MaxSegment

Joined(span) ==
    [start |-> pending.start, end |-> span.end,
     voiced_start |-> pending.voiced_start, voiced_end |-> span.voiced_end]

Pushed(span) == IF Joins(span) THEN Joined(span) ELSE span

ReleasedByPush_Mutant(span) == <<>>

ReleasedByPush(span) ==
    IF pending = NoTurn \/ Joins(span) THEN <<>> ELSE <<pending>>

(* TurnMerger::poll: the merge window has passed.                          *)
Overdue(turn, at) == turn # NoTurn /\ monus(at, turn.voiced_end) > MergeGap

Poll(turn, released, at) ==
    IF Overdue(turn, at)
    THEN /\ emitted' = emitted \o Append(released, turn)
         /\ pending' = NoTurn
    ELSE /\ emitted' = emitted \o released
         /\ pending' = turn

frame_end == cursor + Frame
Scoring == pc = "buffer" /\ frame_end <= received

Quiet(voiced) ==
    ~voiced /\ monus(frame_end, last_voiced_end) >= MinSilence
Capped == monus(frame_end, speech_start) >= MaxSegment

heard(voiced) == IF voiced THEN {cursor} ELSE {}

(* push_frame, not in speech: a voiced frame opens a segment.              *)
FrameWhenIdle(voiced) ==
    /\ Scoring /\ ~in_speech
    /\ cursor' = frame_end
    /\ IF voiced
       THEN /\ in_speech' = TRUE
            /\ speech_start' = cursor
            /\ last_voiced_end' = frame_end
       ELSE UNCHANGED <<in_speech, speech_start, last_voiced_end>>
    /\ Poll(pending, <<>>, frame_end)
    /\ spoken' = spoken \union heard(voiced)
    /\ UNCHANGED <<clock_vars, ring_vars, pc, rows, fresh_from>>

(* ...in speech, and the segment stays open.                               *)
FrameInSpeech(voiced) ==
    /\ Scoring /\ in_speech
    /\ ~Capped /\ ~Quiet(voiced)
    /\ cursor' = frame_end
    /\ last_voiced_end' = IF voiced THEN frame_end ELSE last_voiced_end
    /\ Poll(pending, <<>>, frame_end)
    /\ spoken' = spoken \union heard(voiced)
    /\ UNCHANGED <<clock_vars, ring_vars, in_speech, speech_start, pc, rows, fresh_from>>

(* A closed span goes through the merger; one too short is dropped.        *)
Offer(voiced_start, voiced_end, at) ==
    IF LongEnough(voiced_start, voiced_end)
    THEN LET span == Span(voiced_start, voiced_end, at)
         IN Poll(Pushed(span), ReleasedByPush(span), at)
    ELSE Poll(pending, <<>>, at)

Owed(voiced_start, voiced_end, frames) ==
    IF LongEnough(voiced_start, voiced_end)
    THEN frames
    ELSE {f \in frames : ~(voiced_start <= f /\ f < voiced_end)}

FrameAtCap_Mutant(voiced) ==
    /\ Scoring /\ in_speech /\ Capped
    /\ cursor' = frame_end
    /\ Offer(speech_start, frame_end, frame_end)
    /\ in_speech' = voiced
    /\ speech_start' = IF voiced THEN cursor ELSE speech_start
    /\ last_voiced_end' = IF voiced THEN frame_end ELSE last_voiced_end
    /\ spoken' = Owed(speech_start, frame_end, spoken \union heard(voiced))
    /\ UNCHANGED <<clock_vars, ring_vars, pc, rows, fresh_from>>

(* ...the segment reaches the cap: it is cut at this frame's end, voiced   *)
(* or not, and goes on from there while somebody is still talking.         *)
FrameAtCap(voiced) ==
    /\ Scoring /\ in_speech /\ Capped
    /\ cursor' = frame_end
    /\ Offer(speech_start, frame_end, frame_end)
    /\ in_speech' = voiced
    /\ speech_start' = IF voiced THEN frame_end ELSE speech_start
    /\ last_voiced_end' = IF voiced THEN frame_end ELSE last_voiced_end
    /\ spoken' = Owed(speech_start, frame_end, spoken \union heard(voiced))
    /\ UNCHANGED <<clock_vars, ring_vars, pc, rows, fresh_from>>

(* ...or enough silence has followed the last voiced frame.                *)
FrameCloses ==
    /\ Scoring /\ in_speech
    /\ ~Capped /\ Quiet(FALSE)
    /\ cursor' = frame_end
    /\ Offer(speech_start, last_voiced_end, frame_end)
    /\ in_speech' = FALSE
    /\ spoken' = Owed(speech_start, last_voiced_end, spoken)
    /\ UNCHANGED <<clock_vars, ring_vars, speech_start, last_voiced_end, pc, rows,
                   fresh_from>>

-----------------------------------------------------------------------------
(* extract: the ring from `start' to `end', or what is left of it.         *)
Extract(start, end) ==
    SubSeq(ring, monus(start, ring_base) + 1, lesser(monus(end, ring_base), Len(ring)))

utc_of_sample(sample) == anchor + (sample - anchor_sample)

(* write_piece: the row's times are counted from the turn's start over the *)
(* samples extracted.                                                      *)
RowFor(turn) ==
    LET audio == Extract(turn.start, turn.end)
    IN [turn |-> turn, t_start |-> utc_of_sample(turn.start),
        t_end |-> utc_of_sample(turn.start + Len(audio)),
        audio |-> audio, since |-> fresh_from]

Writing ==
    /\ pc \in {"buffer", "ending"}
    /\ pc = "buffer" => frame_end > received
    /\ emitted # <<>>

(* write_segment: a turn whose audio is gone is dropped without a row.     *)
WriteTurn ==
    /\ Writing
    /\ emitted' = Tail(emitted)
    /\ rows' = IF RowFor(Head(emitted)).audio = <<>> THEN rows
               ELSE Append(rows, RowFor(Head(emitted)))
    /\ UNCHANGED <<clock_vars, ring_vars, segmenter_vars, pending, pc,
                   fresh_from, spoken>>

(* The clip or its row could not be written: the handler returns, and the  *)
(* other turns it had in hand go with it.  The ring is not trimmed.        *)
WriteFails ==
    /\ Writing
    /\ emitted' = <<>>
    /\ pc' = IF pc = "buffer" THEN "idle" ELSE "ended"
    /\ spoken' = {f \in spoken : \A i \in 1..Len(emitted) :
                     f < emitted[i].voiced_start \/ emitted[i].voiced_end <= f}
    /\ UNCHANGED <<clock_vars, ring_vars, segmenter_vars, pending, rows, fresh_from>>

(* The model could not score a frame: on_audio returns in the same way,    *)
(* and the frame is offered again with the next buffer.                    *)
FrameFails ==
    /\ Scoring
    /\ emitted' = <<>>
    /\ pc' = "idle"
    /\ spoken' = {f \in spoken : \A i \in 1..Len(emitted) :
                     f < emitted[i].voiced_start \/ emitted[i].voiced_end <= f}
    /\ UNCHANGED <<clock_vars, ring_vars, segmenter_vars, pending, rows, fresh_from>>

RetainFrom == IF in_speech THEN monus(speech_start, Pad)
              ELSE monus(cursor, Pad + Frame)

KeepFrom_Mutant == RetainFrom

KeepFrom ==
    IF pending = NoTurn THEN RetainFrom ELSE lesser(RetainFrom, pending.start)

(* The buffer is done with: trim the ring.                                 *)
Trim ==
    /\ pc = "buffer" /\ frame_end > received /\ emitted = <<>>
    /\ LET drop == lesser(monus(KeepFrom, ring_base), Len(ring))
       IN ring' = SubSeq(ring, drop + 1, Len(ring))
    /\ ring_base' = IF KeepFrom > ring_base THEN KeepFrom ELSE ring_base
    /\ pc' = "idle"
    /\ UNCHANGED <<clock_vars, received, segmenter_vars, pending, emitted, rows,
                   fresh_from, spoken>>

(* on_session_end: the open segment, then the open turn, are flushed.      *)
EndSession ==
    /\ pc = "idle" /\ received > 0
    /\ pc' = "ending"
    /\ LET spanned == in_speech /\ LongEnough(speech_start, last_voiced_end)
           span == Span(speech_start, last_voiced_end, cursor)
           last == IF spanned THEN Pushed(span) ELSE pending
       IN emitted' = (IF spanned THEN ReleasedByPush(span) ELSE <<>>)
                        \o (IF last = NoTurn THEN <<>> ELSE <<last>>)
    /\ pending' = NoTurn
    /\ in_speech' = FALSE
    /\ spoken' = IF in_speech THEN Owed(speech_start, last_voiced_end, spoken)
                 ELSE spoken
    /\ UNCHANGED <<clock_vars, ring_vars, speech_start, last_voiced_end, cursor,
                   rows, fresh_from>>

SessionClosed ==
    /\ pc = "ending" /\ emitted = <<>>
    /\ pc' = "ended"
    /\ UNCHANGED <<clock_vars, ring_vars, segmenter_vars, pending, emitted, rows,
                   fresh_from, spoken>>

Next ==
    \/ \E n \in Holes : Hole(n)
    \/ \E n \in Flaps : AbsorbFlap(n)
    \/ \E n \in Chunks : Buffer(n)
    \/ \E voiced \in BOOLEAN :
          FrameWhenIdle(voiced) \/ FrameInSpeech(voiced) \/ FrameAtCap(voiced)
    \/ FrameCloses
    \/ FrameFails
    \/ WriteTurn
    \/ WriteFails
    \/ Trim
    \/ EndSession
    \/ SessionClosed

Spec == Init /\ [][Next]_vars

-----------------------------------------------------------------------------
(* The ring and the counters agree: after any mixture of discards, trims   *)
(* and failed writes, ring_base + Len(ring) is still the number of samples *)
(* received and the next frame to score is in the ring (on_audio's "VAD    *)
(* cursor fell behind the audio ring" is never logged).                    *)
RingAligned ==
    /\ ring_base + Len(ring) = received
    /\ ring_base <= cursor /\ cursor <= received

OpenTurns ==
    {emitted[i] : i \in 1..Len(emitted)}
        \union (IF pending = NoTurn THEN {} ELSE {pending})
        \union (IF in_speech
                THEN {Span(speech_start, last_voiced_end, cursor)} ELSE {})

(* trim never throws away audio that a turn still open will need: what     *)
(* retain_from calls "never needed again" is not needed.  Only a discard   *)
(* may cut the padding in front of a turn.                                 *)
OpenAudioIsKept ==
    \A turn \in OpenTurns :
        \/ ring_base <= turn.start
        \/ ring_base = fresh_from /\ fresh_from <= turn.voiced_start

(* No row is a splice.  Two neighbouring samples of a row were captured    *)
(* one after the other, but for a hole too small to notice, or for one     *)
(* flap shorter than the silence that ends a segment with such a hole on   *)
(* either side of it (audit finding #21).  A hole, or a flap, that such a  *)
(* flap hid from the anchor is set apart.                                  *)
SmallFlaps == {n \in Flaps : n < MinSilence}

Unnoticed(lost) == lost <= MaxSkew \/ \E n \in SmallFlaps : lost <= 2 * MaxSkew + n

Joint(earlier, later) ==
    \/ earlier < later /\ Unnoticed(later - earlier - 1)
    \/ \E h \in hidden : earlier < h /\ h <= later

Seamless(audio) == \A j \in 2..Len(audio) : Joint(audio[j - 1], audio[j])

NoSplice == \A i \in 1..Len(rows) : Seamless(rows[i].audio)

(* Turns come out in the order they were spoken and never share a voiced   *)
(* sample, so no word is written twice.                                    *)
TurnsInOrder ==
    \A i, j \in 1..Len(rows) :
        i < j => rows[i].turn.voiced_end <= rows[j].turn.voiced_start

(* Merging stops at the cap: no turn's voiced extent is longer than one    *)
(* maximal segment.                                                        *)
TurnsAreCapped ==
    \A i \in 1..Len(rows) :
        rows[i].turn.voiced_end - rows[i].turn.voiced_start < MaxSegment + Frame

(* Speech is kept: every voiced frame is in a row, or in a turn or segment *)
(* still open, unless its burst was shorter than min_speech, a hole        *)
(* discarded it or its row could not be written.                           *)
SpeechIsKept ==
    \A f \in spoken :
        \/ \E i \in 1..Len(rows) :
              rows[i].turn.voiced_start <= f /\ f < rows[i].turn.voiced_end
        \/ \E turn \in OpenTurns : turn.voiced_start <= f /\ f < turn.voiced_end
=============================================================================
