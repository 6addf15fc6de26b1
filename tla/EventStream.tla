---------------------------- MODULE EventStream ----------------------------
(***************************************************************************)
(* The event stream from the daemon's bus to what the desktop application  *)
(* shows: the bus (crates/recalld/src/bus.rs), a connection's reader and   *)
(* writer (server.rs), events.since (service.rs), the reconnecting client  *)
(* (gui/src/main/client.js) and the renderer's reload of its model         *)
(* (gui/src/renderer/lib/store.js).                                        *)
(*                                                                         *)
(* One client, subscribed to every topic.  Each publication is either of a *)
(* fact, which is in the database by then and kept in the replay ring, or  *)
(* of a moment (a partial turn), which is neither.  An event is named by   *)
(* the run of the daemon that counted it and its number.                   *)
(* The outbox stands for the bounded channel and the socket behind it: a   *)
(* client that is cut off may still read what was already on its way, or   *)
(* lose the rest of it.  The renderer's six queries of a reload are one    *)
(* here; that its answer waits for the slowest of the six is a step.       *)
(***************************************************************************)
EXTENDS Integers, Sequences

CONSTANTS
    ReplayCap,    \* events the replay ring keeps
    OutboxCap,    \* lines a client's outbox holds
    MaxSeq,       \* bound: events a run of the daemon publishes
    MaxBoots,     \* bound: runs of the daemon
    MaxFailures   \* bound: requests that time out, fail or come too early

ASSUME StreamAssumption ==
    /\ {ReplayCap, OutboxCap, MaxBoots} \subseteq Nat \ {0}
    /\ {MaxSeq, MaxFailures} \subseteq Nat

VARIABLES
    boot, seq, ring, \* the daemon's run, its counter, its replay ring
    facts,           \* what the database holds, by the event that told of it
    greeted, subscribed, dead, outbox, \* the connection, as the daemon has it
    calls, reply,    \* requests on their way, and the one being answered
    status,          \* where the client is in connecting
    last_seq,        \* the highest number the client has applied, or NoSeq
    welcome,         \* the welcome of this connection
    queued,          \* live events held while catching up
    view,            \* the facts on screen
    load,            \* the reloads under way
    retry,           \* a reload that failed is to be tried again
    failures,
    counted_by,      \* history: the run that counted last_seq
    lost             \* history: facts that left the screen, or never reached
                     \* it, with nothing under way to bring them back

bus_vars == <<boot, seq, ring, facts>>
link_vars == <<greeted, subscribed, dead, outbox, calls, reply>>
client_vars == <<status, last_seq, welcome, queued, counted_by>>
view_vars == <<view, load, retry, lost>>
vars == <<bus_vars, link_vars, client_vars, view_vars, failures>>

NoSeq == -1
NoLine == [kind |-> "none"]
Boots == 1..MaxBoots
Events == [boot : Boots, seq : 1..MaxSeq, lasting : BOOLEAN]
Facts == {e \in Events : e.lasting}
Welcomes == [boot : Boots, seq : 0..MaxSeq]
Loads == {"resync", "again"}

Calls == [kind : {"hello", "subscribe"}]
           \union [kind : {"since"}, seq : 0..MaxSeq]
           \union [kind : {"query"}, load : Loads]
Lines == [kind : {"event"}, event : Events]
           \union [kind : {"welcome"}, welcome : Welcomes]
           \union [kind : {"subscribed", "resync", "refused"}]
           \union [kind : {"replay"}, boot : Boots, events : Seq(Events)]
           \union [kind : {"answer"}, load : Loads, snapshot : SUBSET Facts]
           \union [kind : {"failed"}, load : Loads]

Idle == [stage |-> "idle"]
LoadStates == {Idle, [stage |-> "asked"]}
                \union [stage : {"held"}, snapshot : SUBSET Facts]

TypeOK ==
    /\ boot \in Boots /\ seq \in 0..MaxSeq
    /\ ring \in Seq(Facts) /\ facts \subseteq Facts
    /\ greeted \in BOOLEAN /\ subscribed \in BOOLEAN /\ dead \in BOOLEAN
    /\ outbox \in Seq(Lines) /\ Len(outbox) <= OutboxCap
    /\ calls \in Seq(Calls) /\ reply \in Lines \union {NoLine}
    /\ status \in {"offline", "connecting", "greeting", "subscribing",
                   "asking", "live"}
    /\ last_seq \in {NoSeq} \union 0..MaxSeq
    /\ welcome \in Welcomes
    /\ queued \in Seq(Events)
    /\ view \subseteq Facts /\ lost \subseteq Facts
    /\ load \in [Loads -> LoadStates] /\ retry \in BOOLEAN
    /\ failures \in 0..MaxFailures
    /\ counted_by \in Boots

Init ==
    /\ boot = 1 /\ seq = 0 /\ ring = <<>> /\ facts = {}
    /\ greeted = FALSE /\ subscribed = FALSE /\ dead = TRUE
    /\ outbox = <<>> /\ calls = <<>> /\ reply = NoLine
    /\ status = "offline" /\ last_seq = NoSeq
    /\ welcome = [boot |-> 1, seq |-> 0]
    /\ queued = <<>> /\ view = {}
    /\ load = [l \in Loads |-> Idle] /\ retry = FALSE
    /\ failures = 0
    /\ counted_by = 1 /\ lost = {}

-----------------------------------------------------------------------------
(* The daemon.                                                             *)

(* Client.send, had it skipped the line that does not fit.                 *)
Send_Mutant(line) ==
    /\ outbox' = IF Len(outbox) < OutboxCap THEN Append(outbox, line) ELSE outbox
    /\ dead' = dead

(* Client.send: a line that does not fit ends the connection.              *)
Send(line) ==
    IF Len(outbox) < OutboxCap
    THEN outbox' = Append(outbox, line) /\ dead' = dead
    ELSE outbox' = outbox /\ dead' = TRUE

FanOut(e) ==
    IF subscribed /\ ~dead THEN Send([kind |-> "event", event |-> e])
    ELSE UNCHANGED <<outbox, dead>>

(* Bus.publish, of a fact the caller has stored.                           *)
Publish ==
    LET e == [boot |-> boot, seq |-> seq + 1, lasting |-> TRUE] IN
    /\ seq < MaxSeq
    /\ seq' = e.seq
    /\ facts' = facts \union {e}
    /\ LET longer == Append(ring, e)
       IN  ring' = IF Len(longer) > ReplayCap THEN Tail(longer) ELSE longer
    /\ FanOut(e)
    /\ UNCHANGED <<boot, greeted, subscribed, calls, reply, client_vars,
                   view_vars, failures>>

(* Bus.publish_ephemeral: numbered and sent, never kept.                   *)
PublishEphemeral ==
    LET e == [boot |-> boot, seq |-> seq + 1, lasting |-> FALSE] IN
    /\ seq < MaxSeq
    /\ seq' = e.seq
    /\ FanOut(e)
    /\ UNCHANGED <<boot, ring, facts, greeted, subscribed, calls, reply,
                   client_vars, view_vars, failures>>

(* The events of a list numbered beyond n, in their order.                 *)
Beyond(events, n) ==
    LET kept[i \in 0..Len(events)] ==
          IF i = 0 THEN <<>>
          ELSE IF events[i].seq > n THEN Append(kept[i - 1], events[i])
          ELSE kept[i - 1]
    IN  kept[Len(events)]

(* Bus.events_since.                                                       *)
FallenOut(since) == ring # <<>> /\ since + 1 < ring[1].seq

EventsSince(since) ==
    IF since > seq \/ FallenOut(since) THEN [kind |-> "resync"]
    ELSE [kind |-> "replay", boot |-> boot,
          events |-> Beyond(ring, since)]

(* One request read and handled; its reply has not been sent.  A request   *)
(* before the hello is refused and the connection closed.                  *)
Handle ==
    /\ ~dead /\ calls # <<>> /\ reply = NoLine
    /\ calls' = Tail(calls)
    /\ LET call == Head(calls) IN
       \/ /\ call.kind = "hello"
          /\ greeted' = TRUE
          /\ reply' = [kind |-> "welcome",
                       welcome |-> [boot |-> boot, seq |-> seq]]
          /\ UNCHANGED <<subscribed, dead, failures>>
       \/ /\ call.kind # "hello" /\ ~greeted
          /\ dead' = TRUE
          /\ UNCHANGED <<greeted, subscribed, reply, failures>>
       \/ /\ call.kind = "subscribe" /\ greeted
          /\ subscribed' = TRUE
          /\ reply' = [kind |-> "subscribed"]
          /\ UNCHANGED <<greeted, dead, failures>>
       \/ /\ call.kind = "since" /\ greeted
          /\ reply' = EventsSince(call.seq)
          /\ UNCHANGED <<greeted, subscribed, dead, failures>>
       \/ /\ call.kind = "query" /\ greeted
          /\ \/ /\ reply' = [kind |-> "answer", load |-> call.load,
                             snapshot |-> facts]
                /\ UNCHANGED failures
             \/ /\ failures < MaxFailures /\ failures' = failures + 1
                /\ reply' = [kind |-> "failed", load |-> call.load]
          /\ UNCHANGED <<greeted, subscribed, dead>>
    /\ UNCHANGED <<bus_vars, outbox, client_vars, view_vars>>

(* The reply goes behind whatever was published meanwhile.                 *)
Answer ==
    /\ reply # NoLine /\ ~dead
    /\ reply' = NoLine
    /\ Send(reply)
    /\ UNCHANGED <<bus_vars, greeted, subscribed, calls, client_vars,
                   view_vars, failures>>

(* The daemon dies or stops and is started again: the database remains,    *)
(* the counter and the ring do not.                                        *)
Restart ==
    /\ boot < MaxBoots
    /\ boot' = boot + 1 /\ seq' = 0 /\ ring' = <<>>
    /\ dead' = TRUE
    /\ calls' = <<>> /\ reply' = NoLine
    /\ UNCHANGED <<facts, greeted, subscribed, outbox, client_vars, view_vars,
                   failures>>

-----------------------------------------------------------------------------
(* The renderer.                                                           *)

(* A reload is over: what was answered overwrites the model, and what      *)
(* failed is tried again.  `shown` is the screen as it is at that moment.  *)
Reloaded(shown, l) ==
    IF load[l].stage = "held" THEN load[l].snapshot ELSE shown

(* reloadAll, started by a resync or by the retry timer: it cancels the    *)
(* timer and sends its queries.                                            *)
Ask(l, pending) == Append(pending, [kind |-> "query", load |-> l])

(* All six queries have settled.                                           *)
FinishReload(l) ==
    /\ load[l].stage = "held"
    /\ view' = Reloaded(view, l)
    /\ lost' = (lost \union view) \ view'
    /\ load' = [load EXCEPT ![l] = Idle]
    /\ UNCHANGED <<bus_vars, link_vars, client_vars, retry, failures>>

(* The retry timer.  While the socket is still connecting the query is     *)
(* written ahead of the hello.                                             *)
RetryReload ==
    /\ retry /\ load["again"] = Idle
    /\ \/ /\ status \notin {"offline", "connecting"}
          /\ UNCHANGED failures
       \/ /\ status = "connecting"
          /\ failures < MaxFailures /\ failures' = failures + 1
    /\ retry' = FALSE
    /\ load' = [load EXCEPT !["again"] = [stage |-> "asked"]]
    /\ calls' = Ask("again", calls)
    /\ UNCHANGED <<bus_vars, greeted, subscribed, dead, outbox, reply,
                   client_vars, view, lost>>

-----------------------------------------------------------------------------
(* The client.                                                             *)

(* _applyEvent, for each event in turn, on the position and the screen.    *)
ApplyEvent(at, e) ==
    IF e.seq <= at.seq THEN at
    ELSE [seq |-> e.seq, boot |-> e.boot,
          view |-> IF e.lasting THEN at.view \union {e} ELSE at.view]

Apply(at, events) ==
    LET now[i \in 0..Len(events)] ==
          IF i = 0 THEN at ELSE ApplyEvent(now[i - 1], events[i])
    IN  now[Len(events)]

Here == [seq |-> last_seq, boot |-> counted_by, view |-> view]
Rebased == [seq |-> welcome.seq, boot |-> welcome.boot, view |-> view]

(* _rebaseSeq keeps the queued events beyond the new position.             *)
StillAhead == Beyond(queued, welcome.seq)

Move(at) ==
    /\ last_seq' = at.seq /\ counted_by' = at.boot /\ view' = at.view
    /\ lost' = lost \ at.view

Connect ==
    /\ status = "offline"
    /\ status' = "connecting"
    /\ greeted' = FALSE /\ subscribed' = FALSE /\ dead' = FALSE
    /\ outbox' = <<>> /\ calls' = <<>> /\ reply' = NoLine
    /\ UNCHANGED <<bus_vars, last_seq, welcome, queued, counted_by, view_vars,
                   failures>>

SayHello ==
    /\ status = "connecting"
    /\ status' = "greeting"
    /\ calls' = Append(calls, [kind |-> "hello"])
    /\ UNCHANGED <<bus_vars, greeted, subscribed, dead, outbox, reply,
                   last_seq, welcome, queued, counted_by, view_vars, failures>>

(* A line of the connection is read.                                       *)
Reads(kind) ==
    /\ status # "offline"
    /\ outbox # <<>> /\ Head(outbox).kind = kind
    /\ outbox' = Tail(outbox)
    /\ UNCHANGED <<bus_vars, greeted, subscribed, dead, reply>>

HearWelcome ==
    /\ Reads("welcome") /\ status = "greeting"
    /\ welcome' = Head(outbox).welcome
    /\ status' = "subscribing"
    /\ calls' = Append(calls, [kind |-> "subscribe"])
    /\ queued' = <<>>
    /\ UNCHANGED <<last_seq, counted_by, view_vars, failures>>

(* The stream cannot be resumed: rebase onto the welcome, apply what was   *)
(* held, and load everything anew.                                         *)
StartOver ==
    /\ Move(Apply(Rebased, StillAhead))
    /\ queued' = <<>>
    /\ status' = "live"
    /\ load' = [load EXCEPT !["resync"] = [stage |-> "asked"]]
    /\ calls' = Ask("resync", calls)
    /\ retry' = FALSE
    /\ UNCHANGED welcome

HearSubscribed ==
    /\ Reads("subscribed") /\ status = "subscribing"
    /\ \/ /\ last_seq = NoSeq \/ welcome.seq < last_seq
          /\ StartOver
       \/ /\ last_seq # NoSeq /\ welcome.seq >= last_seq
          /\ status' = "asking"
          /\ calls' = Append(calls, [kind |-> "since", seq |-> last_seq])
          /\ UNCHANGED <<last_seq, welcome, queued, counted_by, view_vars>>
    /\ UNCHANGED failures

(* Had the live events been applied ahead of the replay.                   *)
HearReplay_Mutant ==
    /\ Reads("replay") /\ status = "asking"
    /\ LET at == Apply(Apply(Here, queued), Head(outbox).events) IN
       /\ last_seq' = at.seq /\ counted_by' = Head(outbox).boot
       /\ view' = at.view
       /\ lost' = (IF counted_by = Head(outbox).boot THEN lost
                   ELSE lost \union {f \in facts : f.boot < Head(outbox).boot
                                                     \/ f.seq <= at.seq})
                  \ at.view
    /\ queued' = <<>> /\ status' = "live"
    /\ UNCHANGED <<calls, welcome, load, retry, failures>>

(* The replay, then the live events held meanwhile.  What the database had *)
(* and a position counted by another run stood for is passed over.         *)
HearReplay ==
    /\ Reads("replay") /\ status = "asking"
    /\ LET at == Apply(Apply(Here, Head(outbox).events), queued) IN
       /\ last_seq' = at.seq /\ counted_by' = Head(outbox).boot
       /\ view' = at.view
       /\ lost' = (IF counted_by = Head(outbox).boot THEN lost
                   ELSE lost \union {f \in facts : f.boot < Head(outbox).boot
                                                     \/ f.seq <= at.seq})
                  \ at.view
    /\ queued' = <<>> /\ status' = "live"
    /\ UNCHANGED <<calls, welcome, load, retry, failures>>

HearResync ==
    /\ Reads("resync") /\ status = "asking"
    /\ StartOver
    /\ UNCHANGED failures

(* events.since is not answered in time: as a refusal.                     *)
SinceTimesOut ==
    /\ status = "asking"
    /\ failures < MaxFailures /\ failures' = failures + 1
    /\ StartOver
    /\ UNCHANGED <<bus_vars, greeted, subscribed, dead, outbox, reply>>

HearLateReply ==
    /\ status # "asking"
    /\ Reads("replay") \/ Reads("resync")
    /\ UNCHANGED <<calls, client_vars, view_vars, failures>>

HearEvent ==
    /\ Reads("event")
    /\ \/ /\ status \in {"subscribing", "asking"}
          /\ queued' = Append(queued, Head(outbox).event)
          /\ UNCHANGED <<last_seq, counted_by, view, lost>>
       \/ /\ status = "live"
          /\ Move(Apply(Here, <<Head(outbox).event>>))
          /\ UNCHANGED queued
    /\ UNCHANGED <<calls, status, welcome, load, retry, failures>>

(* An answer is held until the slowest query of its reload has settled; a  *)
(* failed one leaves the model and sets the timer.                         *)
HearAnswer(l) ==
    /\ \/ /\ Reads("answer") /\ Head(outbox).load = l
          /\ load' = [load EXCEPT ![l] = [stage |-> "held",
                                          snapshot |-> Head(outbox).snapshot]]
          /\ UNCHANGED retry
       \/ /\ Reads("failed") /\ Head(outbox).load = l
          /\ load' = [load EXCEPT ![l] = Idle]
          /\ retry' = TRUE
    /\ UNCHANGED <<calls, client_vars, view, lost, failures>>

(* Had a hang-up forgotten the reloads it cuts short.                      *)
Hangup_Mutant ==
    LET shown == Reloaded(Reloaded(view, "resync"), "again") IN
    /\ status' = "offline" /\ queued' = <<>>
    /\ view' = shown
    /\ lost' = (lost \union view) \ shown
    /\ load' = [l \in Loads |-> Idle]
    /\ retry' = (retry /\ status # "asking")
    /\ IF status = "asking"
       THEN last_seq' = welcome.seq /\ counted_by' = welcome.boot
       ELSE UNCHANGED <<last_seq, counted_by>>
    /\ dead' = TRUE /\ outbox' = <<>> /\ calls' = <<>> /\ reply' = NoLine
    /\ UNCHANGED <<bus_vars, greeted, subscribed, welcome>>

(* The connection is gone.  Every request fails, so every reload under way *)
(* ends in a retry; one in the middle of catching up rebases and owes a    *)
(* reload.                                                                 *)
Hangup ==
    LET shown == Reloaded(Reloaded(view, "resync"), "again") IN
    /\ status' = "offline" /\ queued' = <<>>
    /\ view' = shown
    /\ lost' = (lost \union view) \ shown
    /\ load' = [l \in Loads |-> Idle]
    /\ retry' = (retry \/ status = "asking" \/ \E l \in Loads : load[l] # Idle)
    /\ IF status = "asking"
       THEN last_seq' = welcome.seq /\ counted_by' = welcome.boot
       ELSE UNCHANGED <<last_seq, counted_by>>
    /\ dead' = TRUE /\ outbox' = <<>> /\ calls' = <<>> /\ reply' = NoLine
    /\ UNCHANGED <<bus_vars, greeted, subscribed, welcome>>

NoticeClose ==
    /\ status # "offline" /\ dead
    /\ Hangup
    /\ UNCHANGED failures

(* No welcome, or no subscription, in time: the connection is dropped.     *)
GiveUp ==
    /\ status \in {"greeting", "subscribing"}
    /\ failures < MaxFailures /\ failures' = failures + 1
    /\ Hangup

-----------------------------------------------------------------------------
Daemon == Publish \/ PublishEphemeral \/ Handle \/ Answer \/ Restart
Hear == HearWelcome \/ HearSubscribed \/ HearReplay \/ HearResync
          \/ HearLateReply \/ HearEvent \/ \E l \in Loads : HearAnswer(l)
Client == Connect \/ SayHello \/ Hear \/ SinceTimesOut \/ NoticeClose \/ GiveUp
Renderer == RetryReload \/ \E l \in Loads : FinishReload(l)

Next == Daemon \/ Client \/ Renderer

(* The reader thread, the client's socket and timers, and the renderer's   *)
(* promises all run on; nobody has to publish, restart or fail.            *)
Fairness ==
    /\ WF_vars(Handle \/ Answer)
    /\ WF_vars(Connect \/ SayHello \/ Hear)
    /\ WF_vars(NoticeClose)
    /\ WF_vars(RetryReload)
    /\ \A l \in Loads : WF_vars(FinishReload(l))

Spec == Init /\ [][Next]_vars /\ Fairness

-----------------------------------------------------------------------------
Passed(f) == \/ f.boot < counted_by
             \/ f.boot = counted_by /\ f.seq <= last_seq
Reloading == retry \/ \E l \in Loads : load[l] # Idle

(* The position never claims more than the screen shows: in every state of *)
(* the client, connected or not, a fact at or below the position is on     *)
(* screen, unless a reload is owed, or it is one of those a reload         *)
(* overtook or another run's replay passed over.                           *)
PositionIsHonest ==
    last_seq # NoSeq =>
        \A f \in facts : Passed(f) => f \in view \union lost \/ Reloading

(* A client that has caught up is never skipped over: while it is          *)
(* connected, every later fact of the run is on its way, in order, or is   *)
(* on screen or about to be by a reload; a line that does not fit ends the *)
(* connection (Client.send, Bus.publish, the hand-over from the replay to  *)
(* the live stream).                                                       *)
NothingIsSkipped ==
    status = "live" /\ ~dead =>
        LET coming == {i \in DOMAIN outbox : outbox[i].kind = "event"} IN
        /\ \A f \in facts : f.boot = boot /\ f.seq > last_seq =>
              \/ \E i \in coming : outbox[i].event = f
              \/ f \in view \union lost \/ Reloading
        /\ \A i, j \in coming :
              i < j => outbox[i].event.seq < outbox[j].event.seq

(* However the connection breaks, the screen settles on the database, but  *)
(* for what a reload overtook or another run's replay passed over.         *)
ViewSettles == <>[](facts = view \union lost)

=============================================================================
