------------------------ MODULE ConversationThreads ------------------------
(***************************************************************************)
(* Which conversation a turn belongs to: the threading rule                *)
(* (crates/recalld/src/threads.rs) over the rows the store keeps           *)
(* (Store::open_threads, store.rs).                                        *)
(*                                                                         *)
(* A row is a turn as stored, by its id; a thread is a conversation, by    *)
(* its id, with the session that opened it and when its last turn ended.   *)
(***************************************************************************)
EXTENDS Integers, FiniteSets, FiniteSetsExt

CONSTANTS
    Bridging,         \* sessions whose turns join a conversation of any session
    Nobody,           \* the voice of a turn nobody was matched to
    Gap,              \* the longest silence within a conversation
    RecentSpeakers    \* how many voices a conversation remembers as recent

NewThread == 0

(* SQLite numbers a new row one past the highest it has.                   *)
NextId(table) == 1 + Max({0} \union DOMAIN table)

LabelledTurns(rows, t) ==
    {r \in DOMAIN rows : /\ rows[r].thread = t /\ rows[r].live
                         /\ rows[r].voice # Nobody}

VoicesOf(rows, t) == {rows[r].voice : r \in LabelledTurns(rows, t)}

(* Once somebody in it has taken a second turn.                            *)
Established(rows, t) ==
    Cardinality(LabelledTurns(rows, t)) > Cardinality(VoicesOf(rows, t))

Later(rows, r, q) ==
    \/ rows[r].start > rows[q].start
    \/ rows[r].start = rows[q].start /\ r > q

LastTurn(rows, t, v) ==
    CHOOSE r \in LabelledTurns(rows, t) :
        /\ rows[r].voice = v
        /\ \A q \in LabelledTurns(rows, t) :
              rows[q].voice = v /\ q # r => Later(rows, r, q)

(* The voices that spoke last in a conversation.                           *)
Recent(rows, t) ==
    {v \in VoicesOf(rows, t) :
        Cardinality({w \in VoicesOf(rows, t) :
                        Later(rows, LastTurn(rows, t, w), LastTurn(rows, t, v))})
          < RecentSpeakers}

(* The conversations a turn can still continue.                            *)
OpenThreads(threads, turn) ==
    {t \in DOMAIN threads :
        /\ turn.session \in Bridging \/ threads[t].session = turn.session
        /\ turn.start - threads[t].ended <= Gap}

Nearest(threads, open) ==
    CHOOSE t \in open : \A u \in open :
        \/ threads[t].ended > threads[u].ended
        \/ threads[t].ended = threads[u].ended /\ t >= u

(* A turn nobody was matched to follows the clock; a voice continues the   *)
(* conversation it is part of; a new one joins the nearest, unless that    *)
(* has found its rhythm.                                                   *)
Place(rows, threads, turn) ==
    LET open == OpenThreads(threads, turn)
        own == {t \in open : turn.voice \in Recent(rows, t)}
        candidates ==
            IF turn.voice = Nobody THEN open
            ELSE IF own # {} THEN own
            ELSE {t \in {u \in open : u = Nearest(threads, open)} :
                     ~Established(rows, t)}
    IN  IF candidates = {} THEN NewThread ELSE Nearest(threads, candidates)
=============================================================================
