---------------------------- MODULE MemoryGraph ----------------------------
(***************************************************************************)
(* The memory graph: what is inferred from the transcript, and by whom.    *)
(* A stored turn is put in a conversation (threads.rs) and read for a      *)
(* promise by rules (commitment.rs); a background worker has a model read  *)
(* whole conversations (enrich.rs); a person decides what is true, deletes *)
(* lines and deletes people (service.rs, store.rs).                        *)
(*                                                                         *)
(* Every action is one hold of the store's lock.  The worker gathers a     *)
(* conversation under the lock, has it judged without the lock, and        *)
(* commits under it again: the other actions may fall in between.          *)
(* A promise is filed under the row it was said in.  Its wording, dates    *)
(* and confidence are left out, and so are voices that were merged.        *)
(***************************************************************************)
EXTENDS ConversationThreads, Sequences, Functions

CONSTANTS
    Sessions, Voices,
    MinSegments,     \* the shortest conversation worth the model
    Batch,           \* conversations a pass of the worker takes on
    Width, Overlap,  \* turns in a window of the model, and shared by two
    MaxWindows,      \* windows of one conversation the model reads
    MaxTurns,        \* bound: turns stored
    MaxTime,         \* bound: the clock
    MaxLength,       \* bound: how long a turn is
    MaxUpsets        \* bound: model calls that fail, gates that close

Nothing == "nothing"
Unread == "unread"

ASSUME GraphAssumption ==
    /\ Bridging \subseteq Sessions /\ {Nobody, Nothing, Unread} \intersect Voices = {}
    /\ {Gap, MaxTurns, MaxTime, MaxLength, MaxUpsets, Overlap} \subseteq Nat
    /\ {RecentSpeakers, MinSegments, Batch, Width, MaxWindows} \subseteq Nat \ {0}

VARIABLES
    rows, threads,   \* the transcript and its conversations
    promises,        \* commitments, by the row they were said in
    bank,            \* the voices known
    paused,
    worker,          \* the enrichment worker
    heard,           \* when the last stored turn of a session ended
    stored,          \* turns stored so far
    upsets

library == <<rows, threads, promises, bank>>
vars == <<library, paused, worker, heard, stored, upsets>>

States == {"candidate", "decided"}  \* confirmed, done and dismissed alike
Ids == 1..MaxTurns
Parties == Voices \union {Nobody}

Threads == [session : Sessions, started : 0..MaxTime, ended : 0..MaxTime,
            walked : BOOLEAN]
Rows == [session : Sessions, voice : Parties, start : 0..MaxTime,
         end : 0..MaxTime, thread : Ids, live : BOOLEAN]
Promises == [who : Voices, to : Parties, state : States,
             source : {"rules", "llm"}]
Lines == [row : Ids, voice : Parties]

Idle == [at |-> "idle"]
Workers == {Idle}
    \union [at : {"batch"}, queue : Seq(Ids)]
    \union [at : {"judging"}, queue : Seq(Ids), thread : Ids, lines : Seq(Lines)]

TypeOK ==
    /\ rows \in [DOMAIN rows -> Rows] /\ DOMAIN rows \subseteq Ids
    /\ threads \in [DOMAIN threads -> Threads] /\ DOMAIN threads \subseteq Ids
    /\ promises \in [DOMAIN promises -> Promises] /\ DOMAIN promises \subseteq Ids
    /\ bank \subseteq Voices /\ paused \in BOOLEAN
    /\ worker \in Workers
    /\ heard \in [Sessions -> 0..MaxTime]
    /\ stored \in 0..MaxTurns /\ upsets \in 0..MaxUpsets

Init ==
    /\ rows = <<>> /\ threads = <<>> /\ promises = <<>>
    /\ bank = Voices /\ paused = FALSE /\ worker = Idle
    /\ heard = [s \in Sessions |-> 0] /\ stored = 0 /\ upsets = 0

-----------------------------------------------------------------------------
(* The store.                                                              *)

Live == {r \in DOMAIN rows : rows[r].live}
LiveRows(t) == {r \in Live : rows[r].thread = t}

(* A promise that may be rewritten: the rules made it, no person has       *)
(* touched it, and it is the model that writes.                            *)
Outranks(source, p) ==
    source = "llm" /\ p.source = "rules" /\ p.state = "candidate"

(* Store::upsert_commitment; a new row, a rewritten row, or none.          *)
Filed(table, r, who, to, source) ==
    IF r \in DOMAIN table /\ ~Outranks(source, table[r]) THEN table
    ELSE [q \in DOMAIN table \union {r} |->
            IF q # r THEN table[q]
            ELSE [who |-> who, to |-> to, source |-> source,
                  state |-> IF r \in DOMAIN table THEN table[r].state
                            ELSE "candidate"]]

Without(table, ids) == [r \in DOMAIN table \ ids |-> table[r]]

(* Store::prune_empty_threads.                                             *)
Pruned(table, transcript) ==
    Without(table, {t \in DOMAIN table : ~\E r \in DOMAIN transcript :
                        transcript[r].thread = t /\ transcript[r].live})

(* A turn is stored, threaded and read by the rules.  The turns of a       *)
(* session follow each other, and turns are stored as they end.  A silence *)
(* longer than the gap is as long as any other.                            *)
StoreTurn(turn, guess) ==
    LET place == Place(rows, threads, turn)
        t == IF place = NewThread THEN NextId(threads) ELSE place
        r == NextId(rows)
        opened == [session |-> turn.session, started |-> turn.start,
                   ended |-> turn.end, walked |-> FALSE]
        others == {rows[q].voice : q \in LiveRows(t)} \ {Nobody, turn.voice}
    IN
    /\ \A s \in Sessions : heard[s] <= turn.end
    /\ stored' = stored + 1
    /\ heard' = [heard EXCEPT ![turn.session] = turn.end]
    /\ rows' = [q \in DOMAIN rows \union {r} |->
                  IF q # r THEN rows[q]
                  ELSE [session |-> turn.session, voice |-> turn.voice,
                        start |-> turn.start, end |-> turn.end,
                        thread |-> t, live |-> TRUE]]
    /\ threads' = [u \in DOMAIN threads \union {t} |->
                     IF u # t THEN threads[u]
                     ELSE IF place = NewThread THEN opened
                     ELSE [threads[t] EXCEPT !.ended = Max({@, turn.end})]]
    /\ promises' =
          IF guess /\ turn.voice # Nobody /\ others # {}
          THEN Filed(promises, r, turn.voice,
                     IF Cardinality(others) = 1 THEN CHOOSE v \in others : TRUE
                     ELSE Nobody, "rules")
          ELSE promises
    /\ UNCHANGED <<bank, paused, worker, upsets>>

(* commitments.set_state, which asks only whether there is such a promise: *)
(* one whose line is hidden can be decided too.                            *)
Decide(r, state) ==
    /\ r \in DOMAIN promises
    /\ promises' = [promises EXCEPT ![r].state = state]
    /\ UNCHANGED <<rows, threads, bank, paused, worker, heard, stored, upsets>>

(* delete.run: a batch of lines is hidden; conversations left empty go     *)
(* afterwards, under another hold of the lock.                             *)
DeleteLines(batch) ==
    /\ batch # {}
    /\ rows' = [r \in DOMAIN rows |->
                  IF r \in batch THEN [rows[r] EXCEPT !.live = FALSE]
                  ELSE rows[r]]
    /\ UNCHANGED <<threads, promises, bank, paused, worker, heard, stored,
                   upsets>>

Prune ==
    /\ \E t \in DOMAIN threads : LiveRows(t) = {}
    /\ threads' = Pruned(threads, rows)
    /\ UNCHANGED <<rows, promises, bank, paused, worker, heard, stored, upsets>>

(* Store::delete_speaker: the voice's lines are hidden and every promise   *)
(* by it, to it or said in its lines goes at once.  Unless its voiceprint  *)
(* is kept, the voice itself goes too, and its lines lose their label.     *)
DeleteVoice(v, keep_voiceprint) ==
    LET said == {r \in DOMAIN rows : rows[r].voice = v}
        owed == {r \in DOMAIN promises : v \in {promises[r].who, promises[r].to}}
        hidden == [r \in DOMAIN rows |->
                     IF r \notin said THEN rows[r]
                     ELSE [rows[r] EXCEPT
                             !.live = FALSE,
                             !.voice = IF keep_voiceprint THEN v ELSE Nobody]]
    IN
    /\ v \in bank
    /\ rows' = hidden
    /\ promises' = Without(promises, said \union owed)
    /\ bank' = IF keep_voiceprint THEN bank ELSE bank \ {v}
    /\ threads' = Pruned(threads, hidden)
    /\ UNCHANGED <<paused, worker, heard, stored, upsets>>

Judged == IF worker.at = "judging" THEN {l.row : l \in Range(worker.lines)}
          ELSE {}

(* The retention sweep makes deletes final: Store::purge_segments.  A line *)
(* is hidden for at least a day before that, and the model judges for      *)
(* minutes, so no line is purged while it is being judged.                 *)
Purge(batch) ==
    LET left == Without(rows, batch) IN
    /\ batch # {}
    /\ rows' = left
    /\ promises' = Without(promises, batch)
    /\ threads' = Without(threads, {t \in DOMAIN threads :
                                      ~\E r \in DOMAIN left : left[r].thread = t})
    /\ UNCHANGED <<bank, paused, worker, heard, stored, upsets>>

Pause ==
    /\ paused' = ~paused
    /\ UNCHANGED <<library, worker, heard, stored, upsets>>

-----------------------------------------------------------------------------
(* The worker.                                                             *)

Waiting_Mutant == {t \in DOMAIN threads : Cardinality(LiveRows(t)) >= MinSegments}

(* Conversations nobody has looked at yet.                                 *)
Waiting ==
    {t \in DOMAIN threads : /\ ~threads[t].walked
                            /\ Cardinality(LiveRows(t)) >= MinSegments}

Newer(t, u) ==
    \/ threads[t].ended > threads[u].ended
    \/ threads[t].ended = threads[u].ended /\ t < u

(* Store::unenriched_threads: the newest first.                            *)
NewestFirst(ids) ==
    CHOOSE q \in [1..Cardinality(ids) -> ids] :
        \A i, j \in DOMAIN q : i < j => Newer(q[i], q[j])

TakeBatch ==
    LET ids == NewestFirst(Waiting) IN
    /\ worker.at = "idle" /\ ~paused /\ ids # <<>>
    /\ worker' = [at |-> "batch",
                  queue |-> SubSeq(ids, 1, Min({Batch, Len(ids)}))]
    /\ UNCHANGED <<library, paused, heard, stored, upsets>>

(* Between two conversations the worker stands down if capture is paused,  *)
(* or if it is switched off or audio is waiting to be transcribed.         *)
StandDown ==
    /\ worker.at = "batch" /\ worker.queue # <<>>
    /\ \/ paused /\ UNCHANGED upsets
       \/ ~paused /\ upsets < MaxUpsets /\ upsets' = upsets + 1
    /\ worker' = Idle
    /\ UNCHANGED <<library, paused, heard, stored>>

LinesOf(t) ==
    LET said == CHOOSE q \in [1..Cardinality(LiveRows(t)) -> LiveRows(t)] :
                    \A i, j \in DOMAIN q : i < j => Later(rows, q[j], q[i])
    IN  [i \in DOMAIN said |-> [row |-> said[i], voice |-> rows[said[i]].voice]]

Walked(t) ==
    [u \in DOMAIN threads |->
        IF u = t THEN [threads[t] EXCEPT !.walked = TRUE] ELSE threads[u]]

(* The lines of the next conversation, under the lock.  One that has none  *)
(* any more is marked and passed over.                                     *)
Gather ==
    LET t == Head(worker.queue) IN
    /\ worker.at = "batch" /\ worker.queue # <<>> /\ ~paused
    /\ \/ /\ LiveRows(t) # {}
          /\ worker' = [at |-> "judging", queue |-> Tail(worker.queue),
                        thread |-> t, lines |-> LinesOf(t)]
          /\ UNCHANGED threads
       \/ /\ LiveRows(t) = {}
          /\ threads' = Walked(t)
          /\ worker' = [worker EXCEPT !.queue = Tail(@)]
    /\ UNCHANGED <<rows, promises, bank, paused, heard, stored, upsets>>

(* What the model reads: windows that overlap, up to a number.             *)
Stride == Max({1, Width - Overlap})
Windows(lines) ==
    LET last == Min({MaxWindows, (Len(lines) + Stride - 1) \div Stride})
    IN  [i \in 1..last |->
            SubSeq(lines, 1 + (i - 1) * Stride,
                   Min({Len(lines), (i - 1) * Stride + Width}))]

Roster(window) == {l.voice : l \in Range(window)} \ {Nobody}

(* With nobody to owe anything, the model is not asked.                    *)
Verdicts_Mutant(window) == {Unread, Nothing} \union Roster(window)
Verdicts(window) ==
    IF Cardinality(Roster(window)) < 2 THEN {Unread}
    ELSE {Unread, Nothing} \union Roster(window)

(* The promise is filed under the last thing its speaker said.             *)
Found(window, who) ==
    LET others == Roster(window) \ {who} IN
    [row |-> window[Max({i \in DOMAIN window : window[i].voice = who})].row,
     who |-> who,
     to |-> IF Cardinality(others) = 1 THEN CHOOSE v \in others : TRUE
            ELSE Nobody]

(* What the database's foreign keys ask of a promise.                      *)
Referable_Mutant(found) == worker.thread \in DOMAIN threads
Referable(found) ==
    /\ worker.thread \in DOMAIN threads
    /\ {found.who, found.to} \subseteq bank \union {Nobody}

(* One promise of the plan: the one there may stay; a failure ends the     *)
(* filing.                                                                 *)
FileOne(done, found) ==
    IF ~done.ok THEN done
    ELSE IF /\ found.row \in DOMAIN done.table
            /\ ~Outranks("llm", done.table[found.row])
         THEN done
    ELSE IF ~Referable(found) THEN [ok |-> FALSE, table |-> done.table]
    ELSE [ok |-> TRUE,
          table |-> Filed(done.table, found.row, found.who, found.to, "llm")]

(* The promises found, in the order of their windows.                      *)
FileFound(windows, verdicts) ==
    LET done[i \in 0..Len(windows)] ==
            IF i = 0 THEN [ok |-> TRUE, table |-> promises]
            ELSE IF verdicts[i] \in Voices
                 THEN FileOne(done[i - 1], Found(windows[i], verdicts[i]))
            ELSE done[i - 1]
    IN  done[Len(windows)]

(* What the model refused takes the rules' guess with it, unless a person  *)
(* has decided it.                                                         *)
Retractable_Mutant(p) == p.source = "rules"
Retractable(p) == p.source = "rules" /\ p.state = "candidate"

NextConversation == [at |-> "batch", queue |-> worker.queue]

(* commit: the promises found, the guesses refused, then the label.  A     *)
(* failure part of the way leaves what was filed and the conversation      *)
(* unmarked.                                                               *)
Commit(verdicts) ==
    LET windows == Windows(worker.lines)
        filed == FileFound(windows, verdicts)
        refused == UNION {{l.row : l \in Range(windows[i])} :
                            i \in {j \in DOMAIN windows : verdicts[j] = Nothing}}
    IN
    /\ IF filed.ok
       THEN /\ promises' = Without(filed.table,
                             {r \in refused \intersect DOMAIN filed.table :
                                 Retractable(filed.table[r])})
            /\ threads' = Walked(worker.thread)
       ELSE /\ promises' = filed.table
            /\ UNCHANGED threads

JudgeFails ==
    /\ worker.at = "judging"
    /\ upsets < MaxUpsets /\ upsets' = upsets + 1
    /\ worker' = NextConversation
    /\ UNCHANGED <<library, paused, heard, stored>>

EndBatch ==
    /\ worker.at = "batch" /\ worker.queue = <<>>
    /\ worker' = Idle
    /\ UNCHANGED <<library, paused, heard, stored, upsets>>

-----------------------------------------------------------------------------
(* All that the model may say of the windows of the conversation in hand.   *)
Judgements ==
    LET windows == Windows(worker.lines)
    IN  {v \in [DOMAIN windows -> {Unread, Nothing} \union Voices] :
            \A i \in DOMAIN windows : v[i] \in Verdicts(windows[i])}

NothingRead == [i \in DOMAIN Windows(worker.lines) |-> Unread]

Judges(answers) ==
    /\ worker.at = "judging"
    /\ \E verdicts \in answers : Commit(verdicts)
    /\ worker' = NextConversation
    /\ UNCHANGED <<rows, bank, paused, heard, stored, upsets>>

Worker(answers) ==
    TakeBatch \/ StandDown \/ Gather \/ Judges(answers) \/ JudgeFails \/ EndBatch

Capture ==
    /\ ~paused /\ stored < MaxTurns
    /\ \E session \in Sessions, voice \in bank \union {Nobody}, guess \in BOOLEAN :
          \E start \in heard[session]..Min({MaxTime, Max(Range(heard)) + Gap + 1}) :
             \E end \in (start + 1)..Min({MaxTime, start + MaxLength}) :
                StoreTurn([session |-> session, voice |-> voice,
                           start |-> start, end |-> end], guess)

Person ==
    \/ \E r \in DOMAIN promises, state \in States : Decide(r, state)
    \/ \E batch \in SUBSET Live : DeleteLines(batch)
    \/ \E v \in Voices, keep \in BOOLEAN : DeleteVoice(v, keep)
    \/ Pause

Sweep == Prune \/ \E batch \in SUBSET (DOMAIN rows \ (Live \union Judged)) : Purge(batch)

Next == Capture \/ Worker(Judgements) \/ Person \/ Sweep

(* The worker's loop runs on; nobody has to speak, decide or delete.  What *)
(* the model says is left open: the loop is enabled whatever it says.      *)
Spec == Init /\ [][Next]_vars /\ WF_vars(Worker({NothingRead}))

-----------------------------------------------------------------------------
(* What a person has decided stays decided: whatever the worker found or   *)
(* was refused in the meantime, none of its steps rewrites or removes a    *)
(* promise somebody confirmed or dismissed (upsert_commitment and          *)
(* retract_rule_candidate, called from a plan made before the click).      *)
PersonDecides ==
    [][worker' # worker =>
        \A r \in DOMAIN promises : promises[r].state # "candidate" =>
            r \in DOMAIN promises' /\ promises'[r] = promises[r]]_vars

(* A voice deleted with its voiceprint is gone from every promise, those a *)
(* judgement under way still names included.                               *)
RemovedVoicesAreGone ==
    \A r \in DOMAIN promises :
        {promises[r].who, promises[r].to} \subseteq bank \union {Nobody}

(* The worker drops a guess of the rules only if the model read it: the    *)
(* line was in a window with somebody to owe, as it stood when it was      *)
(* gathered.                                                               *)
RefusalsWereRead ==
    [][worker' # worker =>
        \A r \in DOMAIN promises \ DOMAIN promises' :
            \E w \in Range(Windows(worker.lines)) :
                /\ r \in {l.row : l \in Range(w)}
                /\ Cardinality(Roster(w)) > 1]_vars

(* If capture is not paused for good, every conversation long enough is    *)
(* walked, or deleted, however deletes and failures interfere.             *)
EveryConversationIsWalked ==
    <>[]~paused =>
        <>[](\A t \in DOMAIN threads :
                threads[t].walked \/ Cardinality(LiveRows(t)) < MinSegments)

=============================================================================
