----------------------------- MODULE CaptureTaps -----------------------------
(***************************************************************************)
(* The application taps of the PipeWire thread (crates/recalld/src/        *)
(* capture.rs), the flap tracker they consult (flap.rs), the live rules    *)
(* they obey (control.rs, allowlist.rs) and the socket threads that change *)
(* those rules (service.rs sources.set).                                   *)
(*                                                                         *)
(* Everything the PipeWire loop calls runs on one thread, so each of its   *)
(* callbacks is one action.  The socket threads are not on that loop: a    *)
(* sources.set is four steps, interleaved with it.                         *)
(***************************************************************************)
EXTENDS Integers, FiniteSets

CONSTANTS
    Nodes,          \* Stream/Output/Audio nodes an application may create
    Keys, KeyOf,    \* match keys, and the key each node carries
    PidOf, NoPid,   \* the process id each node carries, or NoPid
    Sessions,       \* ids SQLite may give to session rows; bounds their number
    Graces,         \* values of flap_grace_ms, in ticks; 0 turns flaps off
    Clients,        \* socket threads
    InitialRules,   \* match keys with allowed = true in the configuration
    MaxRuleChanges, \* bound: how many sources.set calls arrive
    NoSession, NoFlap, NoKey

ASSUME TapsAssumption ==
    /\ KeyOf \in [Nodes -> Keys]
    /\ Graces \subseteq Nat
    /\ MaxRuleChanges \in Nat
    /\ InitialRules \subseteq Keys
    /\ NoSession \notin Sessions
    /\ NoKey \notin Keys
    /\ IsFiniteSet(Nodes) /\ IsFiniteSet(Keys)

VARIABLES
    grace,          \* FlapTracker.grace, from the configuration
    phase,          \* "starting", "loaded" (rules copied), "running" (timer armed)
    nodes,          \* Shared.nodes: application nodes on the graph
    captures,       \* Shared.captures: the session each node's stream feeds
    pending,        \* FlapTracker.pending: per key, the flap waiting to resume
    allowlist,      \* Shared.allowlist: this thread's copy of the allowed keys
    applied_rules,  \* the generation that copy was taken at
    rules,          \* Control.rules: the allowed keys, live
    rules_gen,      \* Control.rules_gen
    source_of,      \* sessions table: the key of each session begun, else NoKey
    open_rows,      \* sessions table: rows whose ended_at is still NULL
    ended,          \* sessions whose end was queued, or whose row was closed
    announced,      \* per key, `state' of the last source event published
    setter          \* per client, where it is inside sources.set

capture_vars == <<grace, phase, nodes, captures, pending, allowlist, applied_rules>>
rule_vars == <<rules, rules_gen>>
session_vars == <<source_of, open_rows, ended>>
vars == <<grace, phase, nodes, captures, pending, allowlist, applied_rules, rules,
          rules_gen, source_of, open_rows, ended, announced, setter>>

Phases == {"starting", "loaded", "running"}
States == {"none", "seen", "capturing", "stopped", "flapping", "gone"}

Flap == [session : Sessions, pid : {PidOf[n] : n \in Nodes}, age : 0..(grace + 1)]

Idle == [pc |-> "idle", key |-> NoKey, allowed |-> FALSE, state |-> "none"]

Setter == {Idle} \union [pc : {"insert", "bump", "read", "publish"},
                        key : Keys, allowed : BOOLEAN, state : States]

Opened == {s \in Sessions : source_of[s] # NoKey}
Unused == {s \in Sessions : source_of[s] = NoKey}
Captured == {n \in Nodes : captures[n] # NoSession}
Flapping == {k \in Keys : pending[k] # NoFlap}

(* Control::allowlist then Allowlist::decide: only an explicit rule with   *)
(* allowed = true captures; Deny and Unknown differ in a log line.         *)
Allowed(k, ruleset) == k \in ruleset

(* A missing pid on either side matches anything.                          *)
same_instance(a, b) == a = NoPid \/ b = NoPid \/ a = b

TypeOK ==
    /\ grace \in Graces
    /\ phase \in Phases
    /\ nodes \subseteq Nodes
    /\ captures \in [Nodes -> Sessions \union {NoSession}]
    /\ pending \in [Keys -> Flap \union {NoFlap}]
    /\ allowlist \subseteq Keys
    /\ rules \subseteq Keys
    /\ applied_rules \in Nat
    /\ rules_gen \in Nat
    /\ source_of \in [Sessions -> Keys \union {NoKey}]
    /\ open_rows \subseteq Sessions
    /\ ended \subseteq Sessions
    /\ announced \in [Keys -> States]
    /\ setter \in [Clients -> Setter]

Init ==
    /\ grace \in Graces
    /\ phase = "starting"
    /\ nodes = {}
    /\ captures = [n \in Nodes |-> NoSession]
    /\ pending = [k \in Keys |-> NoFlap]
    /\ allowlist = {}
    /\ applied_rules = 0
    /\ rules = InitialRules
    /\ rules_gen = 0
    /\ source_of = [s \in Sessions |-> NoKey]
    /\ open_rows = {}
    /\ ended = {}
    /\ announced = [k \in Keys |-> "none"]
    /\ setter = [c \in Clients |-> Idle]

-----------------------------------------------------------------------------
(* Start-up: `Shared' is built with a copy of the rules; the generation the *)
(* timer will compare against is read later, when the timer is made.       *)
LoadRules ==
    /\ phase = "starting"
    /\ phase' = "loaded"
    /\ allowlist' = rules
    /\ UNCHANGED <<grace, nodes, captures, pending, applied_rules, rule_vars,
                   session_vars, announced, setter>>

ArmTimer ==
    /\ phase = "loaded"
    /\ phase' = "running"
    /\ applied_rules' = rules_gen
    /\ UNCHANGED <<grace, nodes, captures, pending, allowlist, rule_vars,
                   session_vars, announced, setter>>

-----------------------------------------------------------------------------
(* A node appears.  note_source records it first; if that write fails the  *)
(* node stays known and nothing else happens.                              *)
OnNodeUnrecorded(n) ==
    /\ phase = "running"
    /\ n \notin nodes
    /\ nodes' = nodes \union {n}
    /\ UNCHANGED <<grace, phase, captures, pending, allowlist, applied_rules,
                   rule_vars, session_vars, announced, setter>>

(* on_reappear's three answers.  A flap older than the grace window is     *)
(* dropped from the table; one of another instance is left in it.          *)
Matches(n) ==
    /\ pending[KeyOf[n]] # NoFlap
    /\ same_instance(pending[KeyOf[n]].pid, PidOf[n])
Resumes(n) == Matches(n) /\ pending[KeyOf[n]].age <= grace

(* Definitions whose name ends in _Mutant are deliberate mistakes; see      *)
(* EventQueue.                                                             *)
PendingAfterReappear_Mutant(n) ==
    pending

PendingAfterReappear(n) ==
    IF Matches(n) THEN [pending EXCEPT ![KeyOf[n]] = NoFlap] ELSE pending

OnNodeResumed_Mutant(n) ==
    /\ phase = "running"
    /\ n \notin nodes
    /\ nodes' = nodes \union {n}
    /\ \E k \in Flapping :
          /\ same_instance(pending[k].pid, PidOf[n])
          /\ pending' = [pending EXCEPT ![k] = NoFlap]
          /\ captures' = [captures EXCEPT ![n] = pending[k].session]
    /\ announced' = [announced EXCEPT ![KeyOf[n]] = "capturing"]
    /\ UNCHANGED <<grace, phase, allowlist, applied_rules, rule_vars, session_vars,
                   setter>>

OnNodeResumed_Mutant2(n) ==
    /\ phase = "running"
    /\ n \notin nodes
    /\ Resumes(n)
    /\ nodes' = nodes \union {n}
    /\ pending' = PendingAfterReappear(n)
    /\ captures' = [captures EXCEPT ![n] = pending[KeyOf[n]].session]
    /\ announced' = [announced EXCEPT ![KeyOf[n]] = "seen"]
    /\ UNCHANGED <<grace, phase, allowlist, applied_rules, rule_vars, session_vars,
                   setter>>

(* Resume::Same: the stream is attached to the session the flap left open. *)
OnNodeResumed(n) ==
    /\ phase = "running"
    /\ n \notin nodes
    /\ Resumes(n)
    /\ nodes' = nodes \union {n}
    /\ pending' = PendingAfterReappear(n)
    /\ captures' = [captures EXCEPT ![n] = pending[KeyOf[n]].session]
    /\ announced' = [announced EXCEPT ![KeyOf[n]] = "capturing"]
    /\ UNCHANGED <<grace, phase, allowlist, applied_rules, rule_vars, session_vars,
                   setter>>

(* ...and if the stream will not come up the session is closed for good.   *)
OnNodeResumeFailed(n) ==
    /\ phase = "running"
    /\ n \notin nodes
    /\ Resumes(n)
    /\ nodes' = nodes \union {n}
    /\ pending' = PendingAfterReappear(n)
    /\ open_rows' = open_rows \ {pending[KeyOf[n]].session}
    /\ ended' = ended \union {pending[KeyOf[n]].session}
    /\ announced' = [announced EXCEPT ![KeyOf[n]] = "gone"]
    /\ UNCHANGED <<grace, phase, captures, allowlist, applied_rules, rule_vars,
                   source_of, setter>>

(* Resume::Fresh and not allowed, or allowed but the session row could not *)
(* be opened: the node is only seen.                                       *)
OnNodeNotCaptured(n) ==
    /\ phase = "running"
    /\ n \notin nodes
    /\ ~Resumes(n)
    /\ nodes' = nodes \union {n}
    /\ pending' = PendingAfterReappear(n)
    /\ announced' = [announced EXCEPT ![KeyOf[n]] = "seen"]
    /\ UNCHANGED <<grace, phase, captures, allowlist, applied_rules, rule_vars,
                   session_vars, setter>>

OnNodeAttached_Mutant(n, s, up) ==
    /\ phase = "running"
    /\ n \notin nodes
    /\ ~Resumes(n)
    /\ s \in Unused
    /\ nodes' = nodes \union {n}
    /\ pending' = PendingAfterReappear(n)
    /\ source_of' = [source_of EXCEPT ![s] = KeyOf[n]]
    /\ IF up
       THEN /\ captures' = [captures EXCEPT ![n] = s]
            /\ open_rows' = open_rows \union {s}
            /\ announced' = [announced EXCEPT ![KeyOf[n]] = "capturing"]
            /\ UNCHANGED ended
       ELSE /\ ended' = ended \union {s}
            /\ announced' = [announced EXCEPT ![KeyOf[n]] = "seen"]
            /\ UNCHANGED <<captures, open_rows>>
    /\ UNCHANGED <<grace, phase, allowlist, applied_rules, rule_vars, setter>>

(* Resume::Fresh and allowed: attach opens a row, then the stream; a row   *)
(* whose stream did not come up is closed at once.                         *)
OnNodeAttached(n, s, up) ==
    /\ phase = "running"
    /\ n \notin nodes
    /\ ~Resumes(n)
    /\ Allowed(KeyOf[n], allowlist)
    /\ s \in Unused
    /\ nodes' = nodes \union {n}
    /\ pending' = PendingAfterReappear(n)
    /\ source_of' = [source_of EXCEPT ![s] = KeyOf[n]]
    /\ IF up
       THEN /\ captures' = [captures EXCEPT ![n] = s]
            /\ open_rows' = open_rows \union {s}
            /\ announced' = [announced EXCEPT ![KeyOf[n]] = "capturing"]
            /\ UNCHANGED ended
       ELSE /\ ended' = ended \union {s}
            /\ announced' = [announced EXCEPT ![KeyOf[n]] = "seen"]
            /\ UNCHANGED <<captures, open_rows>>
    /\ UNCHANGED <<grace, phase, allowlist, applied_rules, rule_vars, setter>>

-----------------------------------------------------------------------------
(* A node leaves the graph.                                                *)
OnUncapturedRemoved(n) ==
    /\ phase = "running"
    /\ n \in nodes \ Captured
    /\ nodes' = nodes \ {n}
    /\ announced' = [announced EXCEPT ![KeyOf[n]] = "gone"]
    /\ UNCHANGED <<grace, phase, captures, pending, allowlist, applied_rules,
                   rule_vars, session_vars, setter>>

OnCapturedFlaps_Mutant(n) ==
    /\ phase = "running"
    /\ n \in nodes \intersect Captured
    /\ grace > 0
    /\ nodes' = nodes \ {n}
    /\ captures' = [captures EXCEPT ![n] = NoSession]
    /\ pending' = [pending EXCEPT ![KeyOf[n]] =
                     [session |-> captures[n], pid |-> PidOf[n], age |-> 0]]
    /\ announced' = [announced EXCEPT ![KeyOf[n]] = "flapping"]
    /\ ended' = ended \union {captures[n]}
    /\ UNCHANGED <<grace, phase, allowlist, applied_rules, rule_vars, source_of,
                   open_rows, setter>>

(* start_flap writes the key's one slot, whatever it held.                 *)
OnCapturedFlaps(n) ==
    /\ phase = "running"
    /\ n \in nodes \intersect Captured
    /\ grace > 0
    /\ nodes' = nodes \ {n}
    /\ captures' = [captures EXCEPT ![n] = NoSession]
    /\ pending' = [pending EXCEPT ![KeyOf[n]] =
                     [session |-> captures[n], pid |-> PidOf[n], age |-> 0]]
    /\ announced' = [announced EXCEPT ![KeyOf[n]] = "flapping"]
    /\ UNCHANGED <<grace, phase, allowlist, applied_rules, rule_vars, session_vars,
                   setter>>

OnCapturedGone(n) ==
    /\ phase = "running"
    /\ n \in nodes \intersect Captured
    /\ grace = 0
    /\ nodes' = nodes \ {n}
    /\ captures' = [captures EXCEPT ![n] = NoSession]
    /\ ended' = ended \union {captures[n]}
    /\ announced' = [announced EXCEPT ![KeyOf[n]] = "gone"]
    /\ UNCHANGED <<grace, phase, pending, allowlist, applied_rules, rule_vars,
                   source_of, open_rows, setter>>

-----------------------------------------------------------------------------
(* The 250 ms timer: a new generation is applied (detach what is denied,   *)
(* then attach what is allowed), then flaps past the window are closed.    *)
(* `rows' are the sessions begun for nodes newly allowed and `up' the ones *)
(* whose stream came up; a node without a row is one whose insert failed.  *)
RulesChanged == rules_gen # applied_rules

Denied_Mutant == {}

Denied == {n \in nodes \intersect Captured :
              RulesChanged /\ ~Allowed(KeyOf[n], rules)}
Wanted == {n \in nodes \ Captured : RulesChanged /\ Allowed(KeyOf[n], rules)}
Expired == {k \in Flapping : pending[k].age > grace}

Injections(S, T) ==
    {f \in [S -> T] : \A a, b \in S : f[a] = f[b] => a = b}

AnnouncedAfterTimer(k, up) ==
    IF k \in Expired THEN "gone"
    ELSE IF \E n \in up : KeyOf[n] = k THEN "capturing"
    ELSE IF \E n \in Denied : KeyOf[n] = k THEN "stopped"
    ELSE announced[k]

ReconcileAndExpire(begun, row, up) ==
    /\ captures' = [n \in Nodes |-> IF n \in Denied THEN NoSession
                                   ELSE IF n \in up THEN row[n] ELSE captures[n]]
    /\ source_of' = [s \in Sessions |->
                       IF \E n \in begun : row[n] = s
                       THEN KeyOf[CHOOSE n \in begun : row[n] = s]
                       ELSE source_of[s]]
    /\ open_rows' = open_rows \union {row[n] : n \in up}
    /\ ended' = ended \union {captures[n] : n \in Denied}
                      \union {row[n] : n \in begun \ up}
                      \union {pending[k].session : k \in Expired}
    /\ announced' = [k \in Keys |-> AnnouncedAfterTimer(k, up)]

Timer ==
    /\ phase = "running"
    /\ allowlist' = IF RulesChanged THEN rules ELSE allowlist
    /\ applied_rules' = rules_gen
    /\ \E begun \in SUBSET Wanted : \E row \in Injections(begun, Unused) :
          \E up \in SUBSET begun : ReconcileAndExpire(begun, row, up)
    /\ pending' = [k \in Keys |-> IF k \in Expired THEN NoFlap ELSE pending[k]]
    /\ UNCHANGED <<grace, phase, nodes, rule_vars, setter>>

(* Time passes for the flaps; the timer may be late by any amount.         *)
Tick ==
    /\ phase = "running"
    /\ \E k \in Flapping : pending[k].age <= grace
    /\ pending' = [k \in Keys |->
                     IF k \in Flapping /\ pending[k].age <= grace
                     THEN [pending[k] EXCEPT !.age = @ + 1] ELSE pending[k]]
    /\ UNCHANGED <<grace, phase, nodes, captures, allowlist, applied_rules, rule_vars,
                   session_vars, announced, setter>>

(* The inference thread drains a session's end event and closes its row.   *)
PipelineEndsSession(s) ==
    /\ s \in ended \intersect open_rows
    /\ open_rows' = open_rows \ {s}
    /\ UNCHANGED <<capture_vars, rule_vars, source_of, ended, announced, setter>>

-----------------------------------------------------------------------------
(* sources.set on a socket thread: Control::set_rule inserts, then bumps   *)
(* the generation; later the row is read back and announced.               *)
SetRuleCalled(c, k, allowed) ==
    /\ setter[c].pc = "idle"
    /\ rules_gen + Cardinality({d \in Clients : setter[d].pc \in {"insert", "bump"}})
         < MaxRuleChanges
    /\ setter' = [setter EXCEPT ![c] = [pc |-> "insert", key |-> k,
                                        allowed |-> allowed, state |-> "none"]]
    /\ UNCHANGED <<capture_vars, rule_vars, session_vars, announced>>

SetRuleInserts(c) ==
    /\ setter[c].pc = "insert"
    /\ rules' = IF setter[c].allowed THEN rules \union {setter[c].key}
                ELSE rules \ {setter[c].key}
    /\ setter' = [setter EXCEPT ![c].pc = "bump"]
    /\ UNCHANGED <<capture_vars, rules_gen, session_vars, announced>>

SetRuleBumps(c) ==
    /\ setter[c].pc = "bump"
    /\ rules_gen' = rules_gen + 1
    /\ setter' = [setter EXCEPT ![c].pc = "read"]
    /\ UNCHANGED <<capture_vars, rules, session_vars, announced>>

(* source_row counts the source's open session rows.                       *)
SourceRowRead(c) ==
    /\ setter[c].pc = "read"
    /\ setter' = [setter EXCEPT ![c].pc = "publish",
                    ![c].state = IF \E s \in open_rows :
                                       source_of[s] = setter[c].key
                                 THEN "capturing" ELSE "seen"]
    /\ UNCHANGED <<capture_vars, rule_vars, session_vars, announced>>

SourcePublished(c) ==
    /\ setter[c].pc = "publish"
    /\ announced' = [announced EXCEPT ![setter[c].key] = setter[c].state]
    /\ setter' = [setter EXCEPT ![c] = Idle]
    /\ UNCHANGED <<capture_vars, rule_vars, session_vars>>

Next ==
    \/ LoadRules
    \/ ArmTimer
    \/ \E n \in Nodes :
          \/ OnNodeUnrecorded(n)
          \/ OnNodeResumed(n)
          \/ OnNodeResumeFailed(n)
          \/ OnNodeNotCaptured(n)
          \/ \E s \in Sessions : \E up \in BOOLEAN : OnNodeAttached(n, s, up)
          \/ OnUncapturedRemoved(n)
          \/ OnCapturedFlaps(n)
          \/ OnCapturedGone(n)
    \/ Timer
    \/ Tick
    \/ \E s \in Sessions : PipelineEndsSession(s)
    \/ \E c \in Clients :
          \/ \E k \in Keys : \E allowed \in BOOLEAN : SetRuleCalled(c, k, allowed)
          \/ SetRuleInserts(c)
          \/ SetRuleBumps(c)
          \/ SourceRowRead(c)
          \/ SourcePublished(c)

Spec == Init /\ [][Next]_vars

-----------------------------------------------------------------------------
(* No session is fed by two streams, waits under two keys, or is fed while *)
(* it waits: one conversation never collects two sources' audio.           *)
OneFeedPerSession ==
    /\ \A m, n \in Captured : captures[m] = captures[n] => m = n
    /\ \A j, k \in Flapping : pending[j].session = pending[k].session => j = k
    /\ \A n \in Captured : \A k \in Flapping : captures[n] # pending[k].session

(* A session that is fed, or may yet resume, has not been ended: no audio  *)
(* and no gap is queued behind its own end event, and its row is open.     *)
FedSessionsAreOpen ==
    LET held == {captures[n] : n \in Captured}
                  \union {pending[k].session : k \in Flapping}
    IN  held \subseteq (Opened \intersect open_rows) \ ended

(* A session row's source is the source whose stream feeds it.             *)
SessionsKeepTheirSource ==
    /\ \A n \in Captured : source_of[captures[n]] = KeyOf[n]
    /\ \A k \in Flapping : source_of[pending[k].session] = k

(* Default-deny: a capture exists only for a key this thread's rules allow. *)
CapturesObeyAllowlist == \A n \in Captured : Allowed(KeyOf[n], allowlist)

(* A session is begun only for a key the rules in force allow, whatever    *)
(* flaps, failures and rule changes surround it.                           *)
SessionsBeginOnlyIfAllowed ==
    [][\A s \in Sessions : source_of'[s] # source_of[s] =>
          /\ source_of[s] = NoKey
          /\ Allowed(source_of'[s], allowlist')]_vars

(* Every session begun and not ended is still fed or may still resume:     *)
(* none is left open with nothing that will ever close it.                 *)
NoSessionLeaked ==
    \A s \in Opened \ ended :
        \/ \E n \in Captured : captures[n] = s
        \/ \E k \in Flapping : pending[k].session = s

(* With flap tolerance off neither can go wrong: nothing is captured that  *)
(* the applied rules deny, and no session is forgotten, whatever leaves,   *)
(* fails to attach or is denied.                                           *)
StrictWithoutFlaps == grace = 0 => CapturesObeyAllowlist /\ NoSessionLeaked

(* The light a client shows, from the last source event, is on exactly     *)
(* while a stream of the source is open, through flaps, failures and       *)
(* returns: for a source with one stream, until a rule is set.             *)
CapturingLightTrue ==
    rules_gen = 0 =>
        \A n \in Nodes : (\A m \in Nodes : KeyOf[m] = KeyOf[n] => m = n) =>
            (announced[KeyOf[n]] = "capturing" <=> n \in Captured)
=============================================================================
