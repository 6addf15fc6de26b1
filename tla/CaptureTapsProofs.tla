------------------------- MODULE CaptureTapsProofs -------------------------
(***************************************************************************)
(* What the taps of the capture loop guarantee.  CaptureTaps, for every    *)
(* set of nodes, keys, sessions and clients and every grace: the inductive *)
(* invariant says that a captured node is on the graph, that what is open  *)
(* or ended was begun, and the three facts that make sessions safe; the    *)
(* last two lean on each other: a new session is one nobody feeds because  *)
(* whatever is fed was begun.  MicTap, at the end, for any devices,        *)
(* requests and failures.                                                  *)
(***************************************************************************)
EXTENDS CaptureTaps, MicTap, TLAPS

Waiting(k) == pending[k] # NoFlap
Feeds(n) == captures[n] # NoSession

CapturedOnGraph == Captured \subseteq nodes
OnlyBegunRows == open_rows \union ended \subseteq Opened

SessionsSafe == OneFeedPerSession /\ FedSessionsAreOpen /\ SessionsKeepTheirSource

TapsInv == TypeOK /\ CapturedOnGraph /\ OnlyBegunRows /\ SessionsSafe

-----------------------------------------------------------------------------
(* What same_instance and the age leave of a key's slot when a node comes. *)
LEMMA SlotAfterReappear ==
    ASSUME TypeOK, NEW n \in Nodes
    PROVE  /\ PendingAfterReappear(n) \in [Keys -> Flap \union {NoFlap}]
           /\ \A k \in Keys : PendingAfterReappear(n)[k] \in {pending[k], NoFlap}
           /\ Matches(n) => PendingAfterReappear(n)[KeyOf[n]] = NoFlap
           /\ KeyOf[n] \in Keys
<1>1. KeyOf[n] \in Keys
  BY TapsAssumption
<1>2. pending \in [Keys -> Flap \union {NoFlap}]
  BY DEF TypeOK
<1>3. CASE Matches(n)
  <2>1. PendingAfterReappear(n) = [pending EXCEPT ![KeyOf[n]] = NoFlap]
    BY <1>3 DEF PendingAfterReappear
  <2> QED
    BY <1>1, <1>2, <2>1
<1>4. CASE ~Matches(n)
  <2>1. PendingAfterReappear(n) = pending
    BY <1>4 DEF PendingAfterReappear
  <2> QED
    BY <1>1, <1>2, <1>4, <2>1
<1> QED
  BY <1>3, <1>4

(* A flap waiting to resume holds a session and is of a known shape.       *)
LEMMA FlapShape ==
    ASSUME TypeOK, NEW k \in Keys, pending[k] # NoFlap
    PROVE  /\ pending[k] \in Flap /\ pending[k].session \in Sessions
           /\ pending[k].age \in 0 .. (grace + 1)
<1>1. pending[k] \in Flap
  BY DEF TypeOK
<1> QED
  BY <1>1 DEF Flap

(* Typing is kept by every step.                                           *)
LEMMA TypeIsKept ==
    ASSUME TypeOK, [Next]_vars
    PROVE  TypeOK'
<1> USE TapsAssumption
<1>1. CASE LoadRules
  BY <1>1 DEF LoadRules, TypeOK, Phases, rule_vars, session_vars, Flap
<1>2. CASE ArmTimer
  BY <1>2 DEF ArmTimer, TypeOK, Phases, rule_vars, session_vars, Flap
<1>3. ASSUME NEW n \in Nodes, OnNodeUnrecorded(n) PROVE TypeOK'
  BY <1>3 DEF OnNodeUnrecorded, TypeOK, rule_vars, session_vars, Flap
<1>4. ASSUME NEW n \in Nodes, OnNodeResumed(n) PROVE TypeOK'
  <2>1. pending' \in [Keys -> Flap \union {NoFlap}] /\ KeyOf[n] \in Keys
    BY <1>4, SlotAfterReappear DEF OnNodeResumed
  <2>2. pending[KeyOf[n]].session \in Sessions
    BY <1>4, <2>1, FlapShape DEF OnNodeResumed, Resumes, Matches
  <2>3. captures' \in [Nodes -> Sessions \union {NoSession}]
    BY <1>4, <2>2 DEF OnNodeResumed, TypeOK
  <2>4. announced' \in [Keys -> States]
    BY <1>4, <2>1 DEF OnNodeResumed, TypeOK, States
  <2> QED
    BY <1>4, <2>1, <2>3, <2>4 DEF OnNodeResumed, TypeOK, rule_vars, session_vars, Flap
<1>5. ASSUME NEW n \in Nodes, OnNodeResumeFailed(n) PROVE TypeOK'
  <2>1. pending' \in [Keys -> Flap \union {NoFlap}] /\ KeyOf[n] \in Keys
    BY <1>5, SlotAfterReappear DEF OnNodeResumeFailed
  <2>2. pending[KeyOf[n]].session \in Sessions
    BY <1>5, <2>1, FlapShape DEF OnNodeResumeFailed, Resumes, Matches
  <2>3. announced' \in [Keys -> States]
    BY <1>5, <2>1 DEF OnNodeResumeFailed, TypeOK, States
  <2> QED
    BY <1>5, <2>1, <2>2, <2>3 DEF OnNodeResumeFailed, TypeOK, rule_vars, session_vars, Flap
<1>6. ASSUME NEW n \in Nodes, OnNodeNotCaptured(n) PROVE TypeOK'
  <2>1. pending' \in [Keys -> Flap \union {NoFlap}] /\ KeyOf[n] \in Keys
    BY <1>6, SlotAfterReappear DEF OnNodeNotCaptured
  <2>2. announced' \in [Keys -> States]
    BY <1>6, <2>1 DEF OnNodeNotCaptured, TypeOK, States
  <2> QED
    BY <1>6, <2>1, <2>2 DEF OnNodeNotCaptured, TypeOK, rule_vars, session_vars, Flap
<1>7. ASSUME NEW n \in Nodes, NEW s \in Sessions, NEW up \in BOOLEAN,
             OnNodeAttached(n, s, up)
      PROVE  TypeOK'
  <2>1. pending' \in [Keys -> Flap \union {NoFlap}] /\ KeyOf[n] \in Keys
    BY <1>7, SlotAfterReappear DEF OnNodeAttached
  <2>2. announced' \in [Keys -> States] /\ captures' \in [Nodes -> Sessions \union {NoSession}]
    BY <1>7, <2>1 DEF OnNodeAttached, TypeOK, States
  <2>3. /\ source_of' \in [Sessions -> Keys \union {NoKey}]
        /\ open_rows' \subseteq Sessions /\ ended' \subseteq Sessions
    BY <1>7, <2>1 DEF OnNodeAttached, TypeOK
  <2> QED
    BY <1>7, <2>1, <2>2, <2>3 DEF OnNodeAttached, TypeOK, rule_vars, Flap
<1>8. ASSUME NEW n \in Nodes, OnUncapturedRemoved(n) PROVE TypeOK'
  BY <1>8 DEF OnUncapturedRemoved, TypeOK, rule_vars, session_vars, Flap, States
<1>9. ASSUME NEW n \in Nodes, OnCapturedFlaps(n) PROVE TypeOK'
  <2>1. KeyOf[n] \in Keys /\ captures[n] \in Sessions
    BY <1>9 DEF OnCapturedFlaps, TypeOK, Captured
  <2>2. [session |-> captures[n], pid |-> PidOf[n], age |-> 0] \in Flap
    BY <1>9, <2>1 DEF Flap, TypeOK
  <2>3. pending' \in [Keys -> Flap \union {NoFlap}]
    BY <1>9, <2>1, <2>2 DEF OnCapturedFlaps, TypeOK
  <2>4. announced' \in [Keys -> States] /\ captures' \in [Nodes -> Sessions \union {NoSession}]
    BY <1>9, <2>1 DEF OnCapturedFlaps, TypeOK, States
  <2> QED
    BY <1>9, <2>3, <2>4 DEF OnCapturedFlaps, TypeOK, rule_vars, session_vars, Flap
<1>10. ASSUME NEW n \in Nodes, OnCapturedGone(n) PROVE TypeOK'
  <2>1. KeyOf[n] \in Keys /\ captures[n] \in Sessions
    BY <1>10 DEF OnCapturedGone, TypeOK, Captured
  <2>2. announced' \in [Keys -> States] /\ captures' \in [Nodes -> Sessions \union {NoSession}]
    BY <1>10, <2>1 DEF OnCapturedGone, TypeOK, States
  <2> QED
    BY <1>10, <2>1, <2>2 DEF OnCapturedGone, TypeOK, rule_vars, Flap
<1>11. CASE Timer
  <2> PICK chosen \in SUBSET Wanted : \E row \in Injections(chosen, Unused) :
            \E up \in SUBSET chosen : ReconcileAndExpire(chosen, row, up)
    BY <1>11 DEF Timer
  <2> PICK row \in Injections(chosen, Unused) :
            \E up \in SUBSET chosen : ReconcileAndExpire(chosen, row, up)
    OBVIOUS
  <2> PICK up \in SUBSET chosen : ReconcileAndExpire(chosen, row, up)
    OBVIOUS
  <2>2. /\ chosen \subseteq Nodes /\ up \subseteq chosen
        /\ \A n \in chosen : row[n] \in Sessions
    BY DEF Injections, Unused, Wanted, TypeOK
  <2>3. captures' \in [Nodes -> Sessions \union {NoSession}]
    BY <2>2 DEF ReconcileAndExpire, TypeOK
  <2>4. source_of' \in [Sessions -> Keys \union {NoKey}]
    <3>1. ASSUME NEW s \in Sessions, \E n \in chosen : row[n] = s
          PROVE  KeyOf[CHOOSE n \in chosen : row[n] = s] \in Keys
      <4>1. (CHOOSE n \in chosen : row[n] = s) \in chosen
        BY <3>1
      <4> QED
        BY <4>1, <2>2
    <3> QED
      BY <3>1 DEF ReconcileAndExpire, TypeOK
  <2>5. \A n \in Denied : captures[n] \in Sessions
    BY DEF Denied, Captured, TypeOK
  <2>6. \A k \in Expired : pending[k].session \in Sessions
    BY FlapShape DEF Expired, Flapping
  <2>7. open_rows' \subseteq Sessions /\ ended' \subseteq Sessions
    <3>1. ended' = ended \union {captures[n] : n \in Denied}
                        \union {row[n] : n \in chosen \ up}
                        \union {pending[k].session : k \in Expired}
      BY DEF ReconcileAndExpire
    <3>2. ended \subseteq Sessions /\ open_rows \subseteq Sessions
      BY DEF TypeOK
    <3>3. ended' \subseteq Sessions
      BY <2>2, <2>5, <2>6, <3>1, <3>2
    <3>4. open_rows' \subseteq Sessions
      BY <2>2, <3>2 DEF ReconcileAndExpire
    <3> QED BY <3>3, <3>4
  <2>8. announced' \in [Keys -> States]
    BY DEF ReconcileAndExpire, TypeOK, AnnouncedAfterTimer, States
  <2>9. pending' \in [Keys -> Flap \union {NoFlap}]
    BY <1>11 DEF Timer, TypeOK
  <2>10. allowlist' \subseteq Keys /\ applied_rules' \in Nat
    BY <1>11 DEF Timer, TypeOK
  <2> QED
    BY <1>11, <2>3, <2>4, <2>7, <2>8, <2>9, <2>10 DEF Timer, TypeOK, rule_vars, Flap
<1>12. CASE Tick
  <2>1. ASSUME NEW k \in Keys PROVE pending'[k] \in Flap \union {NoFlap}
    <3>1. CASE k \in Flapping /\ pending[k].age <= grace
      <4>1. pending'[k] = [pending[k] EXCEPT !.age = @ + 1]
        BY <1>12, <3>1 DEF Tick
      <4>2. pending[k] \in Flap /\ pending[k].age \in 0 .. (grace + 1) /\ grace \in Nat
        BY <3>1, FlapShape DEF Flapping, TypeOK
      <4>3. pending[k].age + 1 \in 0 .. (grace + 1)
        BY <3>1, <4>2
      <4> QED
        BY <4>1, <4>2, <4>3 DEF Flap
    <3>2. CASE ~(k \in Flapping /\ pending[k].age <= grace)
      BY <1>12, <3>2 DEF Tick, TypeOK
    <3> QED
      BY <3>1, <3>2
  <2>2. pending' \in [Keys -> Flap \union {NoFlap}]
    BY <1>12, <2>1 DEF Tick
  <2> QED
    BY <1>12, <2>2 DEF Tick, TypeOK, rule_vars, session_vars, Flap
<1>13. ASSUME NEW s \in Sessions, PipelineEndsSession(s) PROVE TypeOK'
  BY <1>13 DEF PipelineEndsSession, TypeOK, rule_vars, capture_vars, Flap
<1>14. ASSUME NEW c \in Clients, NEW k \in Keys, NEW allowed \in BOOLEAN,
              SetRuleCalled(c, k, allowed)
       PROVE  TypeOK'
  <2>1. [pc |-> "insert", key |-> k, allowed |-> allowed, state |-> "none"] \in Setter
    BY DEF Setter, States
  <2>2. setter' \in [Clients -> Setter]
    BY <1>14, <2>1 DEF SetRuleCalled, TypeOK
  <2> QED
    BY <1>14, <2>2 DEF SetRuleCalled, TypeOK, rule_vars, session_vars, capture_vars, Flap
<1>15. ASSUME NEW c \in Clients, SetRuleInserts(c) PROVE TypeOK'
  <2>1. setter[c] \in [pc : {"insert", "bump", "read", "publish"},
                      key : Keys, allowed : BOOLEAN, state : States]
    BY <1>15 DEF SetRuleInserts, TypeOK, Setter, Idle
  <2>2. [setter[c] EXCEPT !.pc = "bump"] \in Setter
    BY <2>1 DEF Setter
  <2>3. setter' \in [Clients -> Setter]
    BY <1>15, <2>2 DEF SetRuleInserts, TypeOK
  <2>4. rules' \subseteq Keys
    BY <1>15, <2>1 DEF SetRuleInserts, TypeOK
  <2> QED
    BY <1>15, <2>3, <2>4 DEF SetRuleInserts, TypeOK, session_vars, capture_vars, Flap
<1>16. ASSUME NEW c \in Clients, SetRuleBumps(c) PROVE TypeOK'
  <2>1. setter[c] \in [pc : {"insert", "bump", "read", "publish"},
                      key : Keys, allowed : BOOLEAN, state : States]
    BY <1>16 DEF SetRuleBumps, TypeOK, Setter, Idle
  <2>2. [setter[c] EXCEPT !.pc = "read"] \in Setter
    BY <2>1 DEF Setter
  <2>3. setter' \in [Clients -> Setter]
    BY <1>16, <2>2 DEF SetRuleBumps, TypeOK
  <2> QED
    BY <1>16, <2>3 DEF SetRuleBumps, TypeOK, session_vars, capture_vars, Flap
<1>17. ASSUME NEW c \in Clients, SourceRowRead(c) PROVE TypeOK'
  <2> DEFINE seen == IF \E s \in open_rows : source_of[s] = setter[c].key
                    THEN "capturing" ELSE "seen"
  <2>1. setter[c] \in [pc : {"insert", "bump", "read", "publish"},
                      key : Keys, allowed : BOOLEAN, state : States]
    BY <1>17 DEF SourceRowRead, TypeOK, Setter, Idle
  <2>2. seen \in States
    BY DEF States
  <2>3. setter' = [setter EXCEPT ![c] = [[setter[c] EXCEPT !.pc = "publish"]
                                          EXCEPT !.state = seen]]
    BY <1>17, <2>1 DEF SourceRowRead, TypeOK
  <2>4. [[setter[c] EXCEPT !.pc = "publish"] EXCEPT !.state = seen] \in Setter
    BY <2>1, <2>2 DEF Setter
  <2>5. setter' \in [Clients -> Setter]
    BY <2>3, <2>4 DEF TypeOK
  <2> QED
    BY <1>17, <2>5 DEF SourceRowRead, TypeOK, session_vars, rule_vars, capture_vars, Flap
<1>18. ASSUME NEW c \in Clients, SourcePublished(c) PROVE TypeOK'
  <2>1. setter[c] \in [pc : {"insert", "bump", "read", "publish"},
                      key : Keys, allowed : BOOLEAN, state : States]
    BY <1>18 DEF SourcePublished, TypeOK, Setter, Idle
  <2>2. setter' \in [Clients -> Setter]
    BY <1>18 DEF SourcePublished, TypeOK, Setter
  <2>3. announced' \in [Keys -> States]
    BY <1>18, <2>1 DEF SourcePublished, TypeOK
  <2> QED
    BY <1>18, <2>2, <2>3 DEF SourcePublished, TypeOK, session_vars, rule_vars, capture_vars, Flap
<1>19. CASE UNCHANGED vars
  BY <1>19 DEF vars, TypeOK, Flap
<1> QED
  BY <1>1, <1>2, <1>3, <1>4, <1>5, <1>6, <1>7, <1>8, <1>9, <1>10, <1>11, <1>12,
     <1>13, <1>14, <1>15, <1>16, <1>17, <1>18, <1>19 DEF Next

-----------------------------------------------------------------------------
(* Steps that open, feed and end nothing: what is fed stays fed by the     *)
(* same node, and a waiting session keeps waiting under its key or is let  *)
(* go of.                                                                  *)
LEMMA QuietSteps ==
    ASSUME TypeOK, TypeOK', SessionsSafe,
           captures' = captures, source_of' = source_of,
           open_rows \subseteq open_rows' \union ended, ended' = ended,
           \A k \in Keys : pending'[k] # NoFlap =>
              pending[k] # NoFlap /\ pending'[k].session = pending[k].session
    PROVE  SessionsSafe'
<1>1. Captured' = Captured /\ Flapping' \subseteq Flapping
  BY DEF Captured, Flapping
<1>2. \A k \in Flapping' : pending'[k].session = pending[k].session
  BY DEF Flapping
<1>3. OneFeedPerSession'
  BY <1>1, <1>2 DEF OneFeedPerSession, SessionsSafe
<1>4. FedSessionsAreOpen'
  BY <1>1, <1>2 DEF FedSessionsAreOpen, SessionsSafe, Opened
<1>5. SessionsKeepTheirSource'
  BY <1>1, <1>2 DEF SessionsKeepTheirSource, SessionsSafe
<1> QED
  BY <1>3, <1>4, <1>5 DEF SessionsSafe

(* A flap that resumes hands its session to the node, and to no other.     *)
LEMMA ResumeIsSafe ==
    ASSUME TapsInv, TypeOK', NEW n \in Nodes, OnNodeResumed(n)
    PROVE  SessionsSafe'
<1> DEFINE k == KeyOf[n]
           s == pending[k].session
<1>1. /\ k \in Keys /\ pending[k] # NoFlap /\ k \in Flapping
      /\ pending'[k] = NoFlap
      /\ \A j \in Keys : pending'[j] \in {pending[j], NoFlap}
  BY SlotAfterReappear DEF TapsInv, OnNodeResumed, Resumes, Matches, Flapping
<1>2. s \in Sessions /\ s # NoSession
  BY <1>1, FlapShape, TapsAssumption DEF TapsInv
<1>3. captures' = [captures EXCEPT ![n] = s] /\ n \notin Captured
  BY DEF OnNodeResumed, TapsInv, CapturedOnGraph
<1>4. Captured' = Captured \union {n}
  BY <1>2, <1>3 DEF Captured, TapsInv, TypeOK
<1>5. Flapping' \subseteq Flapping \ {k} /\ \A j \in Flapping' : pending'[j] = pending[j]
  BY <1>1 DEF Flapping
<1>6. \A m \in Captured : captures'[m] = captures[m] /\ captures'[n] = s
  BY <1>3 DEF TapsInv, TypeOK, Captured
<1>6a. captures'[n] = s
  BY <1>3 DEF TapsInv, TypeOK
<1>7. UNCHANGED <<source_of, open_rows, ended>>
  BY DEF OnNodeResumed, session_vars
<1>8. OneFeedPerSession'
  BY <1>1, <1>3, <1>4, <1>5, <1>6, <1>6a DEF OneFeedPerSession, TapsInv, SessionsSafe
<1>9. FedSessionsAreOpen'
  BY <1>1, <1>4, <1>5, <1>6, <1>6a, <1>7 DEF FedSessionsAreOpen, TapsInv, SessionsSafe, Opened
<1>10. SessionsKeepTheirSource'
  BY <1>1, <1>4, <1>5, <1>6, <1>6a, <1>7 DEF SessionsKeepTheirSource, TapsInv, SessionsSafe
<1> QED
  BY <1>8, <1>9, <1>10 DEF SessionsSafe

(* A resume whose stream does not come up ends the session it let go of.   *)
LEMMA FailedResumeIsSafe ==
    ASSUME TapsInv, TypeOK', NEW n \in Nodes, OnNodeResumeFailed(n)
    PROVE  SessionsSafe'
<1> DEFINE k == KeyOf[n]
           s == pending[k].session
<1>1. /\ k \in Keys /\ k \in Flapping /\ pending'[k] = NoFlap
      /\ \A j \in Keys : pending'[j] \in {pending[j], NoFlap}
  BY SlotAfterReappear DEF TapsInv, OnNodeResumeFailed, Resumes, Matches, Flapping
<1>2. Captured' = Captured /\ captures' = captures
  BY DEF OnNodeResumeFailed, Captured
<1>3. Flapping' \subseteq Flapping \ {k} /\ \A j \in Flapping' : pending'[j] = pending[j]
  BY <1>1 DEF Flapping
<1>4. source_of' = source_of /\ open_rows' = open_rows \ {s} /\ ended' = ended \union {s}
  BY DEF OnNodeResumeFailed
<1>5. /\ \A m \in Captured : captures[m] # s
      /\ \A j \in Flapping \ {k} : pending[j].session # s
  BY <1>1 DEF TapsInv, SessionsSafe, OneFeedPerSession
<1>6. OneFeedPerSession'
  BY <1>2, <1>3 DEF OneFeedPerSession, TapsInv, SessionsSafe
<1>7. FedSessionsAreOpen'
  BY <1>2, <1>3, <1>4, <1>5 DEF FedSessionsAreOpen, TapsInv, SessionsSafe, Opened
<1>8. SessionsKeepTheirSource'
  BY <1>2, <1>3, <1>4 DEF SessionsKeepTheirSource, TapsInv, SessionsSafe
<1> QED
  BY <1>6, <1>7, <1>8 DEF SessionsSafe

(* A fresh attachment feeds a session nobody has used before.              *)
LEMMA AttachIsSafe ==
    ASSUME TapsInv, TypeOK', NEW n \in Nodes, NEW s \in Sessions, NEW up \in BOOLEAN,
           OnNodeAttached(n, s, up)
    PROVE  SessionsSafe'
<1>1. /\ KeyOf[n] \in Keys /\ KeyOf[n] # NoKey
      /\ \A j \in Keys : pending'[j] \in {pending[j], NoFlap}
  BY SlotAfterReappear, TapsAssumption DEF TapsInv, OnNodeAttached
<1>2. s \notin Opened /\ s \notin ended /\ s # NoSession
  BY TapsAssumption DEF OnNodeAttached, Unused, Opened, TapsInv, OnlyBegunRows
<1>3. Flapping' \subseteq Flapping /\ \A j \in Flapping' : pending'[j] = pending[j]
  BY <1>1 DEF Flapping
<1>4. /\ \A m \in Captured : captures[m] \in Opened /\ captures[m] # s
      /\ \A j \in Flapping : pending[j].session \in Opened /\ pending[j].session # s
  BY <1>2 DEF TapsInv, SessionsSafe, FedSessionsAreOpen
<1>5. /\ source_of'[s] = KeyOf[n]
      /\ \A t \in Sessions : t # s => source_of'[t] = source_of[t]
      /\ Opened' = Opened \union {s}
  <2>1. source_of' = [source_of EXCEPT ![s] = KeyOf[n]]
    BY DEF OnNodeAttached
  <2> QED
    BY <1>1, <2>1 DEF Opened, TapsInv, TypeOK
<1>6. n \notin Captured
  BY DEF OnNodeAttached, TapsInv, CapturedOnGraph
<1>7. CASE up
  <2>1. /\ captures' = [captures EXCEPT ![n] = s]
        /\ open_rows' = open_rows \union {s} /\ ended' = ended
    BY <1>7 DEF OnNodeAttached
  <2>2. Captured' = Captured \union {n}
    BY <1>2, <2>1 DEF Captured, TapsInv, TypeOK
  <2>3. captures'[n] = s /\ \A m \in Captured : captures'[m] = captures[m]
    BY <1>6, <2>1 DEF TapsInv, TypeOK, Captured
  <2>4. OneFeedPerSession'
    BY <1>3, <1>4, <2>2, <2>3 DEF OneFeedPerSession, TapsInv, SessionsSafe
  <2>5. FedSessionsAreOpen'
    BY <1>2, <1>3, <1>5, <2>1, <2>2, <2>3 DEF FedSessionsAreOpen, TapsInv, SessionsSafe
  <2>6. SessionsKeepTheirSource'
    BY <1>3, <1>4, <1>5, <2>2, <2>3 DEF SessionsKeepTheirSource, TapsInv, SessionsSafe, Opened
  <2> QED
    BY <2>4, <2>5, <2>6 DEF SessionsSafe
<1>8. CASE ~up
  <2>1. captures' = captures /\ open_rows' = open_rows /\ ended' = ended \union {s}
    BY <1>8 DEF OnNodeAttached
  <2>2. Captured' = Captured
    BY <2>1 DEF Captured
  <2>3. OneFeedPerSession'
    BY <1>3, <2>1, <2>2 DEF OneFeedPerSession, TapsInv, SessionsSafe
  <2>4. FedSessionsAreOpen'
    BY <1>3, <1>4, <1>5, <2>1, <2>2 DEF FedSessionsAreOpen, TapsInv, SessionsSafe
  <2>5. SessionsKeepTheirSource'
    BY <1>3, <1>4, <1>5, <2>1, <2>2 DEF SessionsKeepTheirSource, TapsInv, SessionsSafe, Opened
  <2> QED
    BY <2>3, <2>4, <2>5 DEF SessionsSafe
<1> QED
  BY <1>7, <1>8

(* A flap keeps the session with its key, in a slot that may have held     *)
(* another; a removal without flaps ends it.                               *)
LEMMA RemovalIsSafe ==
    ASSUME TapsInv, TypeOK', NEW n \in Nodes, OnCapturedFlaps(n) \/ OnCapturedGone(n)
    PROVE  SessionsSafe'
<1> DEFINE k == KeyOf[n]
           s == captures[n]
<1>1. k \in Keys /\ n \in Captured /\ s \in Sessions
  BY TapsAssumption DEF OnCapturedFlaps, OnCapturedGone, TapsInv, TypeOK, Captured
<1>2. captures' = [captures EXCEPT ![n] = NoSession] /\ source_of' = source_of /\ open_rows' = open_rows
  BY DEF OnCapturedFlaps, OnCapturedGone, session_vars
<1>3. Captured' = Captured \ {n} /\ \A m \in Captured' : captures'[m] = captures[m]
  BY <1>2 DEF Captured, TapsInv, TypeOK
<1>4. /\ \A m \in Captured' : captures[m] # s
      /\ \A j \in Flapping : pending[j].session # s
  BY <1>1, <1>3 DEF TapsInv, SessionsSafe, OneFeedPerSession
<1>5. CASE OnCapturedFlaps(n)
  <2>1. /\ pending' = [pending EXCEPT ![k] = [session |-> s, pid |-> PidOf[n], age |-> 0]]
        /\ ended' = ended
    BY <1>5 DEF OnCapturedFlaps, session_vars
  <2>2. /\ pending'[k].session = s
        /\ \A j \in Keys : j # k => pending'[j] = pending[j]
    BY <1>1, <2>1 DEF TapsInv, TypeOK
  <2>3. \A j \in Flapping' : j # k => j \in Flapping /\ pending'[j] = pending[j]
    BY <2>2 DEF Flapping
  <2>4. OneFeedPerSession'
    BY <1>3, <1>4, <2>2, <2>3 DEF OneFeedPerSession, TapsInv, SessionsSafe
  <2>5. FedSessionsAreOpen'
    BY <1>1, <1>2, <1>3, <2>1, <2>2, <2>3
       DEF FedSessionsAreOpen, TapsInv, SessionsSafe, Opened
  <2>6. SessionsKeepTheirSource'
    BY <1>1, <1>2, <1>3, <2>2, <2>3 DEF SessionsKeepTheirSource, TapsInv, SessionsSafe
  <2> QED
    BY <2>4, <2>5, <2>6 DEF SessionsSafe
<1>6. CASE OnCapturedGone(n)
  <2>1. pending' = pending /\ ended' = ended \union {s}
    BY <1>6 DEF OnCapturedGone
  <2>2. Flapping' = Flapping
    BY <2>1 DEF Flapping
  <2>3. OneFeedPerSession'
    BY <1>3, <2>1, <2>2 DEF OneFeedPerSession, TapsInv, SessionsSafe
  <2>4. FedSessionsAreOpen'
    BY <1>2, <1>3, <1>4, <2>1, <2>2 DEF FedSessionsAreOpen, TapsInv, SessionsSafe, Opened
  <2>5. SessionsKeepTheirSource'
    BY <1>2, <1>3, <2>1, <2>2 DEF SessionsKeepTheirSource, TapsInv, SessionsSafe
  <2> QED
    BY <2>3, <2>4, <2>5 DEF SessionsSafe
<1> QED
  BY <1>5, <1>6

(* One run of the timer: denied captures end, allowed nodes get sessions   *)
(* of their own, stale flaps end.                                          *)
LEMMA TimerIsSafe ==
    ASSUME TapsInv, TypeOK', Timer
    PROVE  SessionsSafe'
<1> PICK chosen \in SUBSET Wanted : \E row \in Injections(chosen, Unused) :
          \E up \in SUBSET chosen : ReconcileAndExpire(chosen, row, up)
  BY DEF Timer
<1> PICK row \in Injections(chosen, Unused) :
          \E up \in SUBSET chosen : ReconcileAndExpire(chosen, row, up)
  OBVIOUS
<1> PICK up \in SUBSET chosen : ReconcileAndExpire(chosen, row, up)
  OBVIOUS
<1>1. /\ chosen \subseteq Nodes /\ chosen \cap Captured = {} /\ up \subseteq chosen
      /\ Denied \subseteq Captured
  BY DEF Wanted, Denied, TapsInv, TypeOK
<1>2. /\ \A n \in chosen : row[n] \in Unused /\ row[n] \in Sessions
      /\ \A m, n \in chosen : row[m] = row[n] => m = n
  BY DEF Injections, Unused
<1>3. /\ \A n \in chosen : row[n] \notin Opened /\ row[n] \notin ended /\ row[n] # NoSession
  BY <1>2, TapsAssumption DEF Unused, Opened, TapsInv, OnlyBegunRows
<1>4. captures' = [n \in Nodes |-> IF n \in Denied THEN NoSession
                                 ELSE IF n \in up THEN row[n] ELSE captures[n]]
  BY DEF ReconcileAndExpire
<1>5. /\ Captured' = (Captured \ Denied) \union up
      /\ \A n \in Captured \ Denied : captures'[n] = captures[n]
      /\ \A n \in up : captures'[n] = row[n]
  BY <1>1, <1>3, <1>4 DEF Captured
<1>6. Flapping' = Flapping \ Expired /\ \A k \in Flapping' : pending'[k] = pending[k]
  BY DEF Timer, Flapping, Expired
<1>7. /\ \A s \in Sessions : s \in Opened => source_of'[s] = source_of[s]
      /\ \A n \in chosen : source_of'[row[n]] = KeyOf[n]
      /\ Opened \subseteq Opened'
      /\ \A n \in chosen : row[n] \in Opened'
  <2>1. source_of' = [s \in Sessions |->
                       IF \E n \in chosen : row[n] = s
                       THEN KeyOf[CHOOSE n \in chosen : row[n] = s]
                       ELSE source_of[s]]
    BY DEF ReconcileAndExpire
  <2>2. \A s \in Sessions : s \in Opened => source_of'[s] = source_of[s]
    BY <1>3, <2>1
  <2>3. ASSUME NEW n \in chosen
        PROVE  source_of'[row[n]] = KeyOf[n] /\ KeyOf[n] \in Keys
    <3>1. (CHOOSE m \in chosen : row[m] = row[n]) = n
      BY <1>2
    <3> QED
      BY <1>1, <1>2, <2>1, <3>1, TapsAssumption
  <2> QED
    BY <1>2, <2>2, <2>3, TapsAssumption DEF Opened
<1>8. /\ open_rows' = open_rows \union {row[n] : n \in up}
      /\ ended' = ended \union {captures[n] : n \in Denied}
                        \union {row[n] : n \in chosen \ up}
                        \union {pending[k].session : k \in Expired}
  BY DEF ReconcileAndExpire
<1>9. /\ \A n \in Captured : captures[n] \in (Opened \intersect open_rows) \ ended
      /\ \A k \in Flapping : pending[k].session \in (Opened \intersect open_rows) \ ended
  BY DEF TapsInv, SessionsSafe, FedSessionsAreOpen
<1>10. OneFeedPerSession'
  <2>1. ASSUME NEW m \in Captured', NEW n \in Captured', captures'[m] = captures'[n]
        PROVE  m = n
    BY <1>2, <1>3, <1>5, <1>9, <2>1 DEF OneFeedPerSession, TapsInv, SessionsSafe
  <2>2. ASSUME NEW n \in Captured', NEW k \in Flapping'
        PROVE  captures'[n] # pending'[k].session
    BY <1>3, <1>5, <1>6, <1>9 DEF OneFeedPerSession, TapsInv, SessionsSafe
  <2>3. \A j, k \in Flapping' : pending'[j].session = pending'[k].session => j = k
    BY <1>6 DEF OneFeedPerSession, TapsInv, SessionsSafe
  <2> QED
    BY <2>1, <2>2, <2>3 DEF OneFeedPerSession
<1>11. FedSessionsAreOpen'
  <2>1. ASSUME NEW n \in Captured \ Denied
        PROVE  captures[n] \in (Opened' \intersect open_rows') \ ended'
    <3>1. /\ \A m \in Denied : captures[m] # captures[n]
          /\ \A k \in Expired : pending[k].session # captures[n]
      BY <1>1 DEF OneFeedPerSession, TapsInv, SessionsSafe, Expired
    <3>2. \A m \in chosen : row[m] # captures[n]
      BY <1>3, <1>9
    <3> QED
      BY <1>7, <1>8, <1>9, <3>1, <3>2
  <2>2. ASSUME NEW n \in up
        PROVE  row[n] \in (Opened' \intersect open_rows') \ ended'
    <3>1. /\ \A m \in Denied : captures[m] # row[n]
          /\ \A k \in Expired : pending[k].session # row[n]
      BY <1>1, <1>3, <1>9 DEF Expired
    <3>2. \A m \in chosen \ up : row[m] # row[n]
      BY <1>1, <1>2
    <3> QED
      BY <1>1, <1>3, <1>7, <1>8, <3>1, <3>2
  <2>3. ASSUME NEW k \in Flapping \ Expired
        PROVE  pending[k].session \in (Opened' \intersect open_rows') \ ended'
    <3>1. /\ \A m \in Denied : captures[m] # pending[k].session
          /\ \A j \in Expired : pending[j].session # pending[k].session
      BY <1>1 DEF OneFeedPerSession, TapsInv, SessionsSafe, Expired
    <3>2. \A m \in chosen : row[m] # pending[k].session
      BY <1>3, <1>9
    <3> QED
      BY <1>7, <1>8, <1>9, <3>1, <3>2
  <2> QED
    BY <1>5, <1>6, <2>1, <2>2, <2>3 DEF FedSessionsAreOpen
<1>12. SessionsKeepTheirSource'
  BY <1>1, <1>2, <1>5, <1>6, <1>7, <1>9 DEF SessionsKeepTheirSource, TapsInv, SessionsSafe, Opened
<1> QED
  BY <1>10, <1>11, <1>12 DEF SessionsSafe

(* The session facts are kept by every step.                               *)
LEMMA SafetyIsKept ==
    ASSUME TapsInv, [Next]_vars
    PROVE  SessionsSafe'
<1>0. TypeOK /\ TypeOK' /\ SessionsSafe
  BY TypeIsKept DEF TapsInv
<1>1. CASE LoadRules \/ ArmTimer
  BY <1>0, <1>1, QuietSteps DEF LoadRules, ArmTimer, session_vars
<1>2. ASSUME NEW n \in Nodes, OnNodeUnrecorded(n) \/ OnUncapturedRemoved(n)
      PROVE  SessionsSafe'
  BY <1>0, <1>2, QuietSteps DEF OnNodeUnrecorded, OnUncapturedRemoved, session_vars
<1>3. ASSUME NEW n \in Nodes, OnNodeNotCaptured(n)
      PROVE  SessionsSafe'
  <2>1. \A k \in Keys : pending'[k] \in {pending[k], NoFlap}
    BY <1>0, <1>3, SlotAfterReappear DEF OnNodeNotCaptured
  <2> QED
    BY <1>0, <1>3, <2>1, QuietSteps DEF OnNodeNotCaptured, session_vars
<1>4. ASSUME NEW n \in Nodes, OnNodeResumed(n) PROVE SessionsSafe'
  BY <1>0, <1>4, ResumeIsSafe
<1>5. ASSUME NEW n \in Nodes, OnNodeResumeFailed(n) PROVE SessionsSafe'
  BY <1>0, <1>5, FailedResumeIsSafe
<1>6. ASSUME NEW n \in Nodes, NEW s \in Sessions, NEW up \in BOOLEAN,
             OnNodeAttached(n, s, up)
      PROVE  SessionsSafe'
  BY <1>0, <1>6, AttachIsSafe
<1>7. ASSUME NEW n \in Nodes, OnCapturedFlaps(n) \/ OnCapturedGone(n)
      PROVE  SessionsSafe'
  BY <1>0, <1>7, RemovalIsSafe
<1>8. CASE Timer
  BY <1>0, <1>8, TimerIsSafe
<1>9. CASE Tick
  <2>1. ASSUME NEW k \in Keys, pending'[k] # NoFlap
        PROVE  pending[k] # NoFlap /\ pending'[k].session = pending[k].session
    <3>1. CASE k \in Flapping /\ pending[k].age <= grace
      <4>1. pending'[k] = [pending[k] EXCEPT !.age = @ + 1] /\ pending[k] \in Flap
        BY <1>0, <1>9, <3>1, FlapShape DEF Tick, Flapping
      <4> QED
        BY <3>1, <4>1 DEF Flap, Flapping
    <3>2. CASE ~(k \in Flapping /\ pending[k].age <= grace)
      <4>1. pending'[k] = pending[k]
        BY <1>9, <3>2 DEF Tick
      <4> QED
        BY <2>1, <4>1
    <3> QED
      BY <3>1, <3>2
  <2> QED
    BY <1>0, <1>9, <2>1, QuietSteps DEF Tick, session_vars
<1>10. ASSUME NEW s \in Sessions, PipelineEndsSession(s) PROVE SessionsSafe'
  BY <1>0, <1>10, QuietSteps DEF PipelineEndsSession, capture_vars
<1>11. ASSUME NEW c \in Clients,
              \/ \E k \in Keys, allowed \in BOOLEAN : SetRuleCalled(c, k, allowed)
              \/ SetRuleInserts(c) \/ SetRuleBumps(c) \/ SourceRowRead(c)
              \/ SourcePublished(c)
       PROVE  SessionsSafe'
  BY <1>0, <1>11, QuietSteps DEF SetRuleCalled, SetRuleInserts, SetRuleBumps,
     SourceRowRead, SourcePublished, capture_vars, session_vars
<1>12. CASE UNCHANGED vars
  BY <1>0, <1>12, QuietSteps DEF vars
<1> QED
  BY <1>1, <1>2, <1>3, <1>4, <1>5, <1>6, <1>7, <1>8, <1>9, <1>10, <1>11, <1>12 DEF Next

(* A stream is dropped with its node, and a node never had one before.     *)
LEMMA GraphIsKept ==
    ASSUME TapsInv, [Next]_vars
    PROVE  CapturedOnGraph'
<1> USE DEF CapturedOnGraph, Captured, TapsInv
<1>0. TypeOK /\ TypeOK'
  BY TypeIsKept
<1>1. ASSUME NEW n \in Nodes, NEW s \in Sessions \union {NoSession},
             captures' = [captures EXCEPT ![n] = s], nodes' = nodes \union {n}
      PROVE  CapturedOnGraph'
  BY <1>0, <1>1 DEF TypeOK
<1>2. ASSUME captures' = captures, nodes \subseteq nodes'
      PROVE  CapturedOnGraph'
  BY <1>2
<1>3. ASSUME NEW n \in Nodes, OnNodeResumed(n) PROVE CapturedOnGraph'
  <2>1. pending[KeyOf[n]].session \in Sessions
    BY <1>0, <1>3, FlapShape, TapsAssumption DEF OnNodeResumed, Resumes, Matches
  <2> QED
    BY <1>1, <1>3, <2>1 DEF OnNodeResumed
<1>4. ASSUME NEW n \in Nodes, NEW s \in Sessions, NEW up \in BOOLEAN,
             OnNodeAttached(n, s, up)
      PROVE  CapturedOnGraph'
  BY <1>1, <1>2, <1>4 DEF OnNodeAttached
<1>5. ASSUME NEW n \in Nodes, OnCapturedFlaps(n) \/ OnCapturedGone(n)
      PROVE  CapturedOnGraph'
  BY <1>0, <1>5 DEF OnCapturedFlaps, OnCapturedGone, TypeOK
<1>6. ASSUME NEW n \in Nodes, OnUncapturedRemoved(n) PROVE CapturedOnGraph'
  BY <1>6 DEF OnUncapturedRemoved
<1>7. CASE Timer
  BY <1>7 DEF Timer, ReconcileAndExpire, Wanted
<1>8. ASSUME NEW n \in Nodes,
             OnNodeUnrecorded(n) \/ OnNodeResumeFailed(n) \/ OnNodeNotCaptured(n)
      PROVE  CapturedOnGraph'
  BY <1>2, <1>8 DEF OnNodeUnrecorded, OnNodeResumeFailed, OnNodeNotCaptured
<1>9. CASE LoadRules \/ ArmTimer \/ Tick \/ (\E s \in Sessions : PipelineEndsSession(s))
             \/ UNCHANGED vars
  BY <1>2, <1>9 DEF LoadRules, ArmTimer, Tick, PipelineEndsSession, capture_vars, vars
<1>10. ASSUME NEW c \in Clients,
              \/ \E k \in Keys, allowed \in BOOLEAN : SetRuleCalled(c, k, allowed)
              \/ SetRuleInserts(c) \/ SetRuleBumps(c) \/ SourceRowRead(c)
              \/ SourcePublished(c)
       PROVE  CapturedOnGraph'
  BY <1>2, <1>10 DEF SetRuleCalled, SetRuleInserts, SetRuleBumps, SourceRowRead,
     SourcePublished, capture_vars
<1> QED
  BY <1>3, <1>4, <1>5, <1>6, <1>7, <1>8, <1>9, <1>10 DEF Next

(* What the timer does to the sessions table: rows are only ever begun.    *)
LEMMA TimerBegins ==
    ASSUME TypeOK, NEW chosen \in SUBSET Wanted, NEW row \in Injections(chosen, Unused),
           NEW up \in SUBSET chosen, ReconcileAndExpire(chosen, row, up)
    PROVE  /\ \A s \in Opened : source_of'[s] = source_of[s]
           /\ Opened' = Opened \union {row[n] : n \in chosen}
           /\ \A n \in chosen : row[n] \in Unused /\ source_of'[row[n]] = KeyOf[n]
<1>1. /\ chosen \subseteq Nodes /\ \A n \in chosen : row[n] \in Unused /\ row[n] \in Sessions
      /\ \A m, n \in chosen : row[m] = row[n] => m = n
  BY DEF Injections, Unused, Wanted, TypeOK
<1>2. source_of' = [s \in Sessions |->
                     IF \E n \in chosen : row[n] = s
                     THEN KeyOf[CHOOSE n \in chosen : row[n] = s]
                     ELSE source_of[s]]
  BY DEF ReconcileAndExpire
<1>3. \A s \in Opened : s \in Sessions /\ source_of'[s] = source_of[s]
  BY <1>1, <1>2 DEF Opened, Unused
<1>4. ASSUME NEW n \in chosen
      PROVE  source_of'[row[n]] = KeyOf[n] /\ KeyOf[n] # NoKey
  <2>1. (CHOOSE m \in chosen : row[m] = row[n]) = n
    BY <1>1
  <2> QED
    BY <1>1, <1>2, <2>1, TapsAssumption
<1>5. \A s \in Sessions : (\A n \in chosen : row[n] # s) => source_of'[s] = source_of[s]
  BY <1>2
<1>6. Opened' = Opened \union {row[n] : n \in chosen}
  BY <1>1, <1>3, <1>4, <1>5 DEF Opened
<1> QED
  BY <1>1, <1>3, <1>4, <1>6

(* Rows and ends are of sessions that were begun.                          *)
LEMMA RowsAreKept ==
    ASSUME TapsInv, [Next]_vars
    PROVE  OnlyBegunRows'
<1> USE DEF OnlyBegunRows, TapsInv
<1>0. \A n \in Captured : captures[n] \in Opened
  BY DEF SessionsSafe, FedSessionsAreOpen
<1>0a. \A k \in Flapping : pending[k].session \in Opened
  BY DEF SessionsSafe, FedSessionsAreOpen
<1>1. ASSUME source_of' = source_of, open_rows' \union ended' \subseteq Opened
      PROVE  OnlyBegunRows'
  BY <1>1 DEF Opened
<1>2. ASSUME UNCHANGED session_vars PROVE OnlyBegunRows'
  BY <1>2 DEF session_vars, Opened
<1>3. ASSUME NEW n \in Nodes, OnNodeResumeFailed(n) PROVE OnlyBegunRows'
  <2>1. KeyOf[n] \in Flapping
    BY <1>3, TapsAssumption DEF OnNodeResumeFailed, Resumes, Matches, Flapping
  <2> QED
    BY <1>0a, <1>1, <1>3, <2>1 DEF OnNodeResumeFailed
<1>4. ASSUME NEW n \in Nodes, NEW s \in Sessions, NEW up \in BOOLEAN,
             OnNodeAttached(n, s, up)
      PROVE  OnlyBegunRows'
  <2>1. source_of' = [source_of EXCEPT ![s] = KeyOf[n]] /\ KeyOf[n] # NoKey
    BY <1>4, TapsAssumption DEF OnNodeAttached
  <2>2. Opened \union {s} \subseteq Opened'
    BY <2>1 DEF Opened, TypeOK
  <2> QED
    BY <1>4, <2>2 DEF OnNodeAttached
<1>5. ASSUME NEW n \in Nodes, OnCapturedGone(n) PROVE OnlyBegunRows'
  BY <1>0, <1>1, <1>5 DEF OnCapturedGone
<1>6. CASE Timer
  <2> PICK chosen \in SUBSET Wanted : \E row \in Injections(chosen, Unused) :
            \E up \in SUBSET chosen : ReconcileAndExpire(chosen, row, up)
    BY <1>6 DEF Timer
  <2> PICK row \in Injections(chosen, Unused) :
            \E up \in SUBSET chosen : ReconcileAndExpire(chosen, row, up)
    OBVIOUS
  <2> PICK up \in SUBSET chosen : ReconcileAndExpire(chosen, row, up)
    OBVIOUS
  <2>1. Opened' = Opened \union {row[n] : n \in chosen}
    BY TimerBegins
  <2>2. Denied \subseteq Captured /\ Expired \subseteq Flapping
    BY DEF Denied, Expired
  <2>3. /\ open_rows' = open_rows \union {row[n] : n \in up}
        /\ ended' = ended \union {captures[n] : n \in Denied}
                          \union {row[n] : n \in chosen \ up}
                          \union {pending[k].session : k \in Expired}
    BY DEF ReconcileAndExpire
  <2> QED
    BY <1>0, <1>0a, <2>1, <2>2, <2>3
<1>7. ASSUME NEW s \in Sessions, PipelineEndsSession(s) PROVE OnlyBegunRows'
  BY <1>1, <1>7 DEF PipelineEndsSession
<1>8. ASSUME NEW n \in Nodes,
             \/ OnNodeUnrecorded(n) \/ OnNodeNotCaptured(n) \/ OnNodeResumed(n)
             \/ OnUncapturedRemoved(n) \/ OnCapturedFlaps(n)
      PROVE  OnlyBegunRows'
  BY <1>2, <1>8 DEF OnNodeUnrecorded, OnNodeNotCaptured, OnNodeResumed,
     OnUncapturedRemoved, OnCapturedFlaps
<1>9. CASE LoadRules \/ ArmTimer \/ Tick \/ UNCHANGED vars
  BY <1>2, <1>9 DEF LoadRules, ArmTimer, Tick, vars, session_vars
<1>10. ASSUME NEW c \in Clients,
              \/ \E k \in Keys, allowed \in BOOLEAN : SetRuleCalled(c, k, allowed)
              \/ SetRuleInserts(c) \/ SetRuleBumps(c) \/ SourceRowRead(c)
              \/ SourcePublished(c)
       PROVE  OnlyBegunRows'
  BY <1>2, <1>10 DEF SetRuleCalled, SetRuleInserts, SetRuleBumps, SourceRowRead,
     SourcePublished
<1> QED
  BY <1>3, <1>4, <1>5, <1>6, <1>7, <1>8, <1>9, <1>10 DEF Next

-----------------------------------------------------------------------------
(* The inductive invariant holds from the start and in every step.         *)
THEOREM TapsInvariant == Spec => []TapsInv
<1>1. Init => TapsInv
  <2> SUFFICES ASSUME Init PROVE TapsInv
    OBVIOUS
  <2>1. TypeOK
    BY TapsAssumption DEF Init, TypeOK, Phases, States, Setter
  <2>2. Captured = {} /\ Flapping = {}
    BY DEF Init, Captured, Flapping
  <2> QED
    BY <2>1, <2>2 DEF Init, TapsInv, CapturedOnGraph, OnlyBegunRows, SessionsSafe,
       OneFeedPerSession, FedSessionsAreOpen, SessionsKeepTheirSource
<1>2. TapsInv /\ [Next]_vars => TapsInv'
  <2> SUFFICES ASSUME TapsInv, [Next]_vars PROVE TapsInv'
    OBVIOUS
  <2>1. TypeOK'
    BY TypeIsKept DEF TapsInv
  <2> QED
    BY <2>1, SafetyIsKept, GraphIsKept, RowsAreKept DEF TapsInv
<1> QED
  BY <1>1, <1>2, PTL DEF Spec

(* Every variable keeps its type: CaptureTaps!TypeOK.                      *)
THEOREM TapsAreTyped == Spec => []TypeOK
<1>1. TapsInv => TypeOK
  BY DEF TapsInv
<1> QED
  BY <1>1, TapsInvariant, PTL

(* No session is fed by two streams, nor fed while it waits to resume:     *)
(* on_node_added, start_flap, on_reappear, apply_rules.                    *)
THEOREM SessionsAreFedOnce == Spec => []OneFeedPerSession
<1>1. TapsInv => OneFeedPerSession
  BY DEF TapsInv, SessionsSafe
<1> QED
  BY <1>1, TapsInvariant, PTL

(* What is fed or may resume is open and has not been ended: no audio and  *)
(* no gap ever follows a session's own end into the queue.                 *)
THEOREM FedSessionsStayOpen == Spec => []FedSessionsAreOpen
<1>1. TapsInv => FedSessionsAreOpen
  BY DEF TapsInv, SessionsSafe
<1> QED
  BY <1>1, TapsInvariant, PTL

(* A session's row names the source whose stream feeds it, through every   *)
(* flap and return.                                                        *)
THEOREM SourcesAreKept == Spec => []SessionsKeepTheirSource
<1>1. TapsInv => SessionsKeepTheirSource
  BY DEF TapsInv, SessionsSafe
<1> QED
  BY <1>1, TapsInvariant, PTL

-----------------------------------------------------------------------------
(* A row of the sessions table is begun once, for a source that the rules  *)
(* this thread works from allow at that moment: on_node_added and the      *)
(* timer's apply_rules.                                                    *)
THEOREM BegunOnlyIfAllowed == Spec => SessionsBeginOnlyIfAllowed
<1> DEFINE Begins == \A s \in Sessions : source_of'[s] # source_of[s] =>
                        source_of[s] = NoKey /\ Allowed(source_of'[s], allowlist')
<1>1. TapsInv /\ [Next]_vars =>
        [\A s \in Sessions : source_of'[s] # source_of[s] =>
           /\ source_of[s] = NoKey
           /\ Allowed(source_of'[s], allowlist')]_vars
  <2> SUFFICES ASSUME TapsInv, [Next]_vars PROVE Begins
    OBVIOUS
  <2> USE DEF TapsInv
  <2>1. ASSUME NEW n \in Nodes, NEW s \in Sessions, NEW up \in BOOLEAN,
               OnNodeAttached(n, s, up)
        PROVE  Begins
    <3>1. source_of' = [source_of EXCEPT ![s] = KeyOf[n]] /\ allowlist' = allowlist
      BY <2>1 DEF OnNodeAttached
    <3>2. Allowed(KeyOf[n], allowlist) /\ source_of[s] = NoKey
      BY <2>1 DEF OnNodeAttached, Unused
    <3> QED
      BY <3>1, <3>2 DEF TypeOK
  <2>2. CASE Timer
    <3> PICK chosen \in SUBSET Wanted : \E row \in Injections(chosen, Unused) :
              \E up \in SUBSET chosen : ReconcileAndExpire(chosen, row, up)
      BY <2>2 DEF Timer
    <3> PICK row \in Injections(chosen, Unused) :
              \E up \in SUBSET chosen : ReconcileAndExpire(chosen, row, up)
      OBVIOUS
    <3> PICK up \in SUBSET chosen : ReconcileAndExpire(chosen, row, up)
      OBVIOUS
    <3> SUFFICES ASSUME NEW s \in Sessions, source_of'[s] # source_of[s]
                 PROVE  source_of[s] = NoKey /\ Allowed(source_of'[s], allowlist')
      OBVIOUS
    <3>1. PICK n \in chosen : row[n] = s
      BY DEF ReconcileAndExpire
    <3>2. row[n] \in Unused /\ source_of'[s] = KeyOf[n]
      BY <3>1, TimerBegins
    <3>3. Allowed(KeyOf[n], rules) /\ allowlist' = rules
      BY <2>2 DEF Wanted, Timer
    <3> QED
      BY <3>1, <3>2, <3>3 DEF Unused
  <2>3. ASSUME source_of' = source_of PROVE Begins
    BY <2>3
  <2>4. ASSUME NEW n \in Nodes,
               \/ OnNodeUnrecorded(n) \/ OnNodeNotCaptured(n) \/ OnNodeResumed(n)
               \/ OnNodeResumeFailed(n) \/ OnUncapturedRemoved(n)
               \/ OnCapturedFlaps(n) \/ OnCapturedGone(n)
        PROVE  Begins
    BY <2>3, <2>4 DEF OnNodeUnrecorded, OnNodeNotCaptured, OnNodeResumed,
       OnNodeResumeFailed, OnUncapturedRemoved, OnCapturedFlaps, OnCapturedGone,
       session_vars
  <2>5. CASE LoadRules \/ ArmTimer \/ Tick \/ UNCHANGED vars
               \/ (\E s \in Sessions : PipelineEndsSession(s))
    BY <2>3, <2>5 DEF LoadRules, ArmTimer, Tick, PipelineEndsSession, vars, session_vars
  <2>6. ASSUME NEW c \in Clients,
               \/ \E k \in Keys, allowed \in BOOLEAN : SetRuleCalled(c, k, allowed)
               \/ SetRuleInserts(c) \/ SetRuleBumps(c) \/ SourceRowRead(c)
               \/ SourcePublished(c)
        PROVE  Begins
    BY <2>3, <2>6 DEF SetRuleCalled, SetRuleInserts, SetRuleBumps, SourceRowRead,
       SourcePublished, session_vars
  <2> QED
    BY <2>1, <2>2, <2>4, <2>5, <2>6 DEF Next
<1> QED
  BY <1>1, TapsInvariant, PTL DEF Spec, SessionsBeginOnlyIfAllowed

-----------------------------------------------------------------------------
(* Without flap tolerance nothing ever waits, so every open session is fed *)
(* and every stream is one the rules allow; nothing is captured before the *)
(* loop runs.                                                              *)
StrictInv ==
    /\ phase # "running" => Captured = {}
    /\ grace = 0 => Flapping = {} /\ CapturesObeyAllowlist /\ NoSessionLeaked

(* The timer drops every capture the rules deny and starts only captures   *)
(* they allow, and whatever it begins is fed or ended.                     *)
LEMMA TimerIsStrict ==
    ASSUME TapsInv, StrictInv, grace = 0, Timer
    PROVE  CapturesObeyAllowlist' /\ NoSessionLeaked'
<1> PICK chosen \in SUBSET Wanted : \E row \in Injections(chosen, Unused) :
          \E up \in SUBSET chosen : ReconcileAndExpire(chosen, row, up)
  BY DEF Timer
<1> PICK row \in Injections(chosen, Unused) :
          \E up \in SUBSET chosen : ReconcileAndExpire(chosen, row, up)
  OBVIOUS
<1> PICK up \in SUBSET chosen : ReconcileAndExpire(chosen, row, up)
  OBVIOUS
<1>1. /\ captures' = [n \in Nodes |-> IF n \in Denied THEN NoSession
                                     ELSE IF n \in up THEN row[n] ELSE captures[n]]
      /\ ended' = ended \union {captures[n] : n \in Denied}
                        \union {row[n] : n \in chosen \ up}
                        \union {pending[k].session : k \in Expired}
      /\ allowlist' = IF RulesChanged THEN rules ELSE allowlist
  BY DEF ReconcileAndExpire, Timer
<1>2. /\ chosen \subseteq Nodes /\ up \subseteq chosen /\ chosen \cap Captured = {}
      /\ chosen \cap Denied = {}
      /\ \A n \in chosen : row[n] \in Sessions /\ row[n] # NoSession
  BY TapsAssumption DEF TapsInv, TypeOK, Wanted, Denied, Injections, Unused
<1>3. CapturesObeyAllowlist'
  <2> SUFFICES ASSUME NEW n \in Nodes, captures'[n] # NoSession
               PROVE  Allowed(KeyOf[n], allowlist')
    BY DEF CapturesObeyAllowlist, Captured
  <2>1. CASE n \in up
    BY <1>1, <1>2, <2>1 DEF Wanted
  <2>2. CASE n \notin up
    <3>1. n \in Captured \ Denied /\ n \in nodes
      BY <1>1, <2>2 DEF Captured, TapsInv, CapturedOnGraph
    <3> QED
      BY <1>1, <3>1 DEF Denied, StrictInv, CapturesObeyAllowlist
  <2> QED
    BY <2>1, <2>2
<1>4. NoSessionLeaked'
  <2> SUFFICES ASSUME NEW s \in Opened' \ ended'
               PROVE  \E n \in Captured' : captures'[n] = s
    BY DEF NoSessionLeaked
  <2>1. Opened' = Opened \union {row[n] : n \in chosen}
    BY TimerBegins DEF TapsInv
  <2>2. CASE s \in Opened
    <3>1. PICK n \in Captured : captures[n] = s
      BY <1>1, <2>2 DEF StrictInv, NoSessionLeaked
    <3>2. n \notin Denied /\ n \notin up
      BY <1>1, <1>2, <3>1
    <3> QED
      BY <1>1, <3>1, <3>2 DEF Captured
  <2>3. CASE s \notin Opened
    <3>1. PICK n \in chosen : row[n] = s
      BY <2>1, <2>3
    <3>2. n \in up
      BY <1>1, <3>1
    <3> QED
      BY <1>1, <1>2, <3>1, <3>2 DEF Captured
  <2> QED
    BY <2>2, <2>3
<1> QED
  BY <1>3, <1>4

(* With flap tolerance off, each callback keeps the same two facts: a      *)
(* stream that leaves takes its session with it.                           *)
LEMMA StrictIsKept ==
    ASSUME TapsInv, StrictInv, [Next]_vars
    PROVE  StrictInv'
<1>0. grace' = grace
  BY DEF Next, vars, capture_vars, LoadRules, ArmTimer, OnNodeUnrecorded, OnNodeResumed,
     OnNodeResumeFailed, OnNodeNotCaptured, OnNodeAttached, OnUncapturedRemoved,
     OnCapturedFlaps, OnCapturedGone, Timer, Tick, PipelineEndsSession, SetRuleCalled,
     SetRuleInserts, SetRuleBumps, SourceRowRead, SourcePublished
<1>1. TypeOK /\ (grace = 0 => Flapping = {})
  BY DEF TapsInv, StrictInv
<1>2. ASSUME UNCHANGED <<captures, pending, source_of, ended>>,
             phase # "running" \/ UNCHANGED <<phase, allowlist>>
      PROVE  StrictInv'
  BY <1>0, <1>2 DEF StrictInv, Captured, Flapping, CapturesObeyAllowlist, NoSessionLeaked,
     Opened
<1>3. ASSUME phase' = "running", grace # 0
      PROVE  StrictInv'
  BY <1>0, <1>3 DEF StrictInv
<1>4. CASE LoadRules \/ ArmTimer
  BY <1>2, <1>4 DEF LoadRules, ArmTimer, session_vars, StrictInv
<1>5. ASSUME NEW n \in Nodes, OnNodeUnrecorded(n) \/ OnUncapturedRemoved(n)
      PROVE  StrictInv'
  BY <1>2, <1>5 DEF OnNodeUnrecorded, OnUncapturedRemoved, session_vars
<1>6. ASSUME NEW n \in Nodes, OnNodeResumed(n) \/ OnNodeResumeFailed(n)
      PROVE  StrictInv'
  <2>1. KeyOf[n] \in Flapping
    BY <1>1, <1>6, SlotAfterReappear
       DEF OnNodeResumed, OnNodeResumeFailed, Resumes, Matches, Flapping
  <2>2. phase' = "running"
    BY <1>6 DEF OnNodeResumed, OnNodeResumeFailed
  <2> QED
    BY <1>1, <1>3, <2>1, <2>2
<1>7. ASSUME NEW n \in Nodes, OnNodeNotCaptured(n)
      PROVE  StrictInv'
  <2>1. Flapping' \subseteq Flapping /\ phase' = phase
        /\ UNCHANGED <<captures, allowlist, source_of, ended>>
    BY <1>1, <1>7, SlotAfterReappear DEF OnNodeNotCaptured, Flapping, session_vars
  <2> QED
    BY <1>0, <2>1 DEF StrictInv, Captured, CapturesObeyAllowlist, NoSessionLeaked, Opened
<1>8. ASSUME NEW n \in Nodes, NEW s \in Sessions, NEW up \in BOOLEAN,
             OnNodeAttached(n, s, up)
      PROVE  StrictInv'
  <2>1. /\ phase' = "running" /\ Flapping' \subseteq Flapping
        /\ allowlist' = allowlist /\ Allowed(KeyOf[n], allowlist)
        /\ n \notin Captured /\ s # NoSession
        /\ source_of' = [source_of EXCEPT ![s] = KeyOf[n]]
    BY <1>1, <1>8, SlotAfterReappear, TapsAssumption
       DEF OnNodeAttached, Flapping, TapsInv, CapturedOnGraph
  <2>2. IF up THEN captures' = [captures EXCEPT ![n] = s] /\ ended' = ended
        ELSE captures' = captures /\ ended' = ended \union {s}
    BY <1>8 DEF OnNodeAttached
  <2>3. \A m \in Captured : m \in Captured' /\ captures'[m] = captures[m]
    BY <1>1, <2>1, <2>2 DEF Captured, TypeOK
  <2>4. \A m \in Captured' : m \in Captured \/ m = n
    BY <1>1, <2>1, <2>2 DEF Captured, TypeOK
  <2>5. Opened' \subseteq Opened \union {s}
    BY <1>1, <2>1 DEF Opened, TypeOK
  <2>6. s \in ended' \/ (n \in Captured' /\ captures'[n] = s)
    BY <1>1, <2>1, <2>2 DEF Captured, TypeOK
  <2>7. ended \subseteq ended'
    BY <2>2
  <2>8. ASSUME grace = 0 PROVE NoSessionLeaked'
    <3>1. \A r \in Opened \ ended : \E m \in Captured : captures[m] = r
      BY <1>1, <2>8 DEF StrictInv, NoSessionLeaked
    <3>2. \A r \in (Opened \union {s}) \ ended' : \E m \in Captured' : captures'[m] = r
      BY <2>3, <2>6, <2>7, <3>1
    <3> QED
      BY <2>5, <3>2 DEF NoSessionLeaked
  <2>9. ASSUME grace = 0 PROVE CapturesObeyAllowlist'
    BY <2>1, <2>4, <2>9 DEF StrictInv, CapturesObeyAllowlist
  <2> QED
    BY <1>0, <1>1, <2>1, <2>8, <2>9 DEF StrictInv
<1>9. ASSUME NEW n \in Nodes, OnCapturedFlaps(n) PROVE StrictInv'
  BY <1>3, <1>9 DEF OnCapturedFlaps
<1>10. ASSUME NEW n \in Nodes, OnCapturedGone(n) PROVE StrictInv'
  <2>1. /\ phase' = "running" /\ grace = 0
        /\ UNCHANGED <<pending, allowlist, source_of>>
        /\ captures' = [captures EXCEPT ![n] = NoSession]
        /\ ended' = ended \union {captures[n]}
    BY <1>10 DEF OnCapturedGone
  <2>2. Captured' = Captured \ {n} /\ \A m \in Captured' : captures'[m] = captures[m]
    BY <1>1, <2>1 DEF Captured, TypeOK
  <2>3. Flapping' = Flapping /\ Opened' = Opened
    BY <2>1 DEF Flapping, Opened
  <2>4. \A r \in Opened \ ended : \E m \in Captured : captures[m] = r
    BY <1>1, <2>1 DEF StrictInv, NoSessionLeaked
  <2>5. \A r \in Opened \ ended' : \E m \in Captured' : captures'[m] = r
    BY <2>1, <2>2, <2>4
  <2>6. NoSessionLeaked'
    BY <2>3, <2>5 DEF NoSessionLeaked
  <2>7. CapturesObeyAllowlist'
    BY <2>1, <2>2 DEF StrictInv, CapturesObeyAllowlist
  <2> QED
    BY <1>1, <2>1, <2>3, <2>6, <2>7 DEF StrictInv
<1>11. CASE Timer
  <2>1. phase' = "running" /\ Flapping' \subseteq Flapping
    BY <1>11 DEF Timer, Flapping
  <2> QED
    BY <1>0, <1>1, <1>11, <2>1, TimerIsStrict DEF StrictInv
<1>12. CASE Tick
  <2>1. Flapping # {} /\ phase' = "running"
    BY <1>12 DEF Tick
  <2> QED
    BY <1>1, <1>3, <2>1
<1>13. ASSUME NEW s \in Sessions, PipelineEndsSession(s) PROVE StrictInv'
  BY <1>2, <1>13 DEF PipelineEndsSession, capture_vars
<1>14. ASSUME NEW c \in Clients,
              \/ \E k \in Keys, allowed \in BOOLEAN : SetRuleCalled(c, k, allowed)
              \/ SetRuleInserts(c) \/ SetRuleBumps(c) \/ SourceRowRead(c)
              \/ SourcePublished(c)
       PROVE  StrictInv'
  BY <1>2, <1>14 DEF SetRuleCalled, SetRuleInserts, SetRuleBumps, SourceRowRead,
     SourcePublished, capture_vars, session_vars
<1>15. CASE UNCHANGED vars
  BY <1>2, <1>15 DEF vars
<1> QED
  BY <1>4, <1>5, <1>6, <1>7, <1>8, <1>9, <1>10, <1>11, <1>12, <1>13, <1>14, <1>15
     DEF Next

(* With flap_grace_ms = 0 nothing the applied rules deny is captured, and  *)
(* every session begun is fed until it is ended: on_node_removed closes,   *)
(* apply_rules detaches, attach closes the row its stream never fed.       *)
THEOREM StrictWithoutFlapsHolds == Spec => []StrictWithoutFlaps
<1>1. Init => StrictInv
  BY DEF Init, StrictInv, Captured, Flapping, CapturesObeyAllowlist, NoSessionLeaked, Opened
<1>2. TapsInv /\ StrictInv /\ [Next]_vars => StrictInv'
  BY StrictIsKept
<1>3. StrictInv => StrictWithoutFlaps
  BY DEF StrictInv, StrictWithoutFlaps
<1> QED
  BY <1>1, <1>2, <1>3, TapsInvariant, PTL DEF Spec

-----------------------------------------------------------------------------
(* The light, until a rule is set.  A source with one stream has nobody    *)
(* else to speak for it: what was last announced says whether the stream   *)
(* is open, and a flap is waiting only while it is not.  Nothing a socket  *)
(* thread or the timer's rule check does can reach it before the first     *)
(* generation, which is what the first two conjuncts are for.              *)
Alone(n) == \A m \in Nodes : KeyOf[m] = KeyOf[n] => m = n

LightIsRight(n) ==
    /\ announced[KeyOf[n]] = "capturing" <=> Feeds(n)
    /\ Feeds(n) => ~Waiting(KeyOf[n])
    /\ Waiting(KeyOf[n]) => pending[KeyOf[n]].pid = PidOf[n]

LightInv ==
    rules_gen = 0 =>
        /\ applied_rules = 0
        /\ \A c \in Clients : setter[c].pc \notin {"read", "publish"}
        /\ \A n \in Nodes : Alone(n) => LightIsRight(n)

(* A node that arrives alone takes its flap's place, or finds the slot     *)
(* empty: another instance's flap would be another node's.                 *)
LEMMA SlotIsFreed ==
    ASSUME TypeOK, NEW n \in Nodes, Alone(n), LightIsRight(n)
    PROVE  PendingAfterReappear(n)[KeyOf[n]] = NoFlap
<1>1. CASE Matches(n)
  BY <1>1, SlotAfterReappear
<1>2. CASE ~Matches(n)
  <2>1. PendingAfterReappear(n)[KeyOf[n]] = pending[KeyOf[n]]
    BY <1>2 DEF PendingAfterReappear
  <2> QED
    BY <1>2, <2>1 DEF Matches, LightIsRight, Waiting, same_instance
<1> QED
  BY <1>1, <1>2

(* What a lone stream's light depends on.                                  *)
LEMMA LightUntouched ==
    ASSUME NEW n \in Nodes, LightIsRight(n),
           announced'[KeyOf[n]] = announced[KeyOf[n]],
           captures'[n] = captures[n],
           pending'[KeyOf[n]] = pending[KeyOf[n]]
    PROVE  LightIsRight(n)'
BY DEF LightIsRight, Feeds, Waiting

(* A callback about node m: the other lone streams have other keys, and    *)
(* m's own light is settled by what is announced of it.                    *)
LEMMA NodeStepKeepsLights ==
    ASSUME TapsInv, NEW m \in Nodes, NEW st \in States,
           \A n \in Nodes : Alone(n) => LightIsRight(n),
           announced' = [announced EXCEPT ![KeyOf[m]] = st],
           \A n \in Nodes : n # m => captures'[n] = captures[n],
           \A k \in Keys : k # KeyOf[m] => pending'[k] = pending[k],
           Alone(m) => /\ st = "capturing" <=> captures'[m] # NoSession
                       /\ st = "capturing" => pending'[KeyOf[m]] = NoFlap
                       /\ pending'[KeyOf[m]] # NoFlap => pending'[KeyOf[m]].pid = PidOf[m]
    PROVE  \A n \in Nodes : Alone(n) => LightIsRight(n)'
<1>1. /\ announced \in [Keys -> States]
      /\ KeyOf[m] \in Keys
  BY TapsAssumption DEF TapsInv, TypeOK
<1>2. ASSUME NEW n \in Nodes, Alone(n), n # m
      PROVE  LightIsRight(n)'
  <2>1. KeyOf[n] # KeyOf[m] /\ KeyOf[n] \in Keys
    BY <1>2, TapsAssumption DEF Alone
  <2> QED
    BY <1>1, <1>2, <2>1, LightUntouched
<1>3. ASSUME Alone(m)
      PROVE  LightIsRight(m)'
  <2>1. announced'[KeyOf[m]] = st
    BY <1>1
  <2> QED
    BY <1>3, <2>1 DEF LightIsRight, Feeds, Waiting
<1> QED
  BY <1>2, <1>3

(* Each step keeps the lights right as long as no generation was bumped.   *)
LEMMA LightIsKept ==
    ASSUME TapsInv, LightInv, [Next]_vars
    PROVE  LightInv'
<1> SUFFICES ASSUME rules_gen' = 0
             PROVE  /\ applied_rules' = 0
                    /\ \A c \in Clients : setter'[c].pc \notin {"read", "publish"}
                    /\ \A n \in Nodes : Alone(n) => LightIsRight(n)'
  BY DEF LightInv, Alone
<1>1. /\ TypeOK /\ rules_gen \in Nat /\ setter \in [Clients -> Setter]
      /\ \A n \in Nodes : KeyOf[n] \in Keys
  BY TapsAssumption DEF TapsInv, TypeOK
<1>2. ASSUME NEW c \in Clients PROVE ~SetRuleBumps(c)
  BY <1>1 DEF SetRuleBumps
<1>3. rules_gen = 0
  BY <1>1, <1>2 DEF Next, vars, rule_vars, LoadRules, ArmTimer, OnNodeUnrecorded,
     OnNodeResumed, OnNodeResumeFailed, OnNodeNotCaptured, OnNodeAttached,
     OnUncapturedRemoved, OnCapturedFlaps, OnCapturedGone, Timer, Tick,
     PipelineEndsSession, SetRuleCalled, SetRuleInserts, SourceRowRead, SourcePublished
<1>4. /\ applied_rules = 0
      /\ \A c \in Clients : setter[c].pc \notin {"read", "publish"}
      /\ \A n \in Nodes : Alone(n) => LightIsRight(n)
  BY <1>3 DEF LightInv
<1>5. ASSUME UNCHANGED <<captures, pending, announced>>
      PROVE  \A n \in Nodes : Alone(n) => LightIsRight(n)'
  BY <1>4, <1>5 DEF LightIsRight, Feeds, Waiting
<1>6. CASE LoadRules \/ ArmTimer
  BY <1>3, <1>4, <1>5, <1>6 DEF LoadRules, ArmTimer, rule_vars, session_vars
<1>7. ASSUME NEW n \in Nodes, n \notin nodes
      PROVE  captures[n] = NoSession
  BY <1>7 DEF TapsInv, CapturedOnGraph, Captured
<1>8. ASSUME NEW n \in Nodes, Alone(n)
      PROVE  PendingAfterReappear(n)[KeyOf[n]] = NoFlap
  BY <1>1, <1>4, <1>8, SlotIsFreed
<1>9. ASSUME NEW n \in Nodes, NEW k \in Keys, k # KeyOf[n]
      PROVE  PendingAfterReappear(n)[k] = pending[k]
  BY <1>1, <1>9 DEF PendingAfterReappear, TypeOK
<1>10. ASSUME NEW n \in Nodes, OnNodeUnrecorded(n) PROVE
              /\ applied_rules' = 0 /\ setter' = setter
              /\ UNCHANGED <<captures, pending, announced>>
  BY <1>4, <1>10 DEF OnNodeUnrecorded
<1>11. ASSUME NEW n \in Nodes,
              \/ OnNodeResumed(n) \/ OnNodeResumeFailed(n) \/ OnNodeNotCaptured(n)
              \/ \E s \in Sessions, up \in BOOLEAN : OnNodeAttached(n, s, up)
       PROVE  /\ applied_rules' = 0 /\ setter' = setter
              /\ \A m \in Nodes : Alone(m) => LightIsRight(m)'
  <2>1. /\ UNCHANGED <<applied_rules, setter>> /\ n \notin nodes
        /\ pending' = PendingAfterReappear(n)
        /\ \E st \in States : announced' = [announced EXCEPT ![KeyOf[n]] = st]
        /\ \A m \in Nodes : m # n => captures'[m] = captures[m]
    BY <1>1, <1>11 DEF OnNodeResumed, OnNodeResumeFailed, OnNodeNotCaptured,
       OnNodeAttached, States, TypeOK
  <2>2. PICK st \in States :
           /\ announced' = [announced EXCEPT ![KeyOf[n]] = st]
           /\ st = "capturing" <=> captures'[n] # NoSession
    <3>1. captures[n] = NoSession
      BY <1>7, <2>1
    <3>2. CASE OnNodeResumed(n)
      <4>1. pending[KeyOf[n]].session \in Sessions
        BY <1>1, <3>2, FlapShape DEF OnNodeResumed, Resumes, Matches
      <4>2. captures'[n] # NoSession
        BY <1>1, <3>2, <4>1, TapsAssumption DEF OnNodeResumed, TypeOK
      <4> QED
        BY <3>2, <4>2 DEF OnNodeResumed, States
    <3>3. CASE OnNodeResumeFailed(n) \/ OnNodeNotCaptured(n)
      BY <3>1, <3>3 DEF OnNodeResumeFailed, OnNodeNotCaptured, States
    <3>4. ASSUME NEW s \in Sessions, NEW up \in BOOLEAN, OnNodeAttached(n, s, up)
          PROVE  \E st \in States :
                    /\ announced' = [announced EXCEPT ![KeyOf[n]] = st]
                    /\ st = "capturing" <=> captures'[n] # NoSession
      <4>1. s # NoSession
        BY TapsAssumption
      <4>2. CASE up
        <5>1. captures'[n] = s
          BY <1>1, <3>4, <4>2 DEF OnNodeAttached, TypeOK
        <5> QED
          BY <3>4, <4>1, <4>2, <5>1 DEF OnNodeAttached, States
      <4>3. CASE ~up
        BY <3>1, <3>4, <4>3 DEF OnNodeAttached, States
      <4> QED
        BY <4>2, <4>3
    <3> QED
      BY <1>11, <3>2, <3>3, <3>4
  <2>3. Alone(n) => pending'[KeyOf[n]] = NoFlap
    BY <1>8, <2>1
  <2>4. \A k \in Keys : k # KeyOf[n] => pending'[k] = pending[k]
    BY <1>9, <2>1
  <2>5. \A m \in Nodes : Alone(m) => LightIsRight(m)'
    BY <1>4, <2>1, <2>2, <2>3, <2>4, NodeStepKeepsLights
  <2> QED
    BY <1>4, <2>1, <2>5
<1>12. ASSUME NEW n \in Nodes, OnUncapturedRemoved(n)
       PROVE  /\ applied_rules' = 0 /\ setter' = setter
              /\ \A m \in Nodes : Alone(m) => LightIsRight(m)'
  <2>1. /\ captures[n] = NoSession /\ "gone" \in States
        /\ announced' = [announced EXCEPT ![KeyOf[n]] = "gone"]
        /\ UNCHANGED <<captures, pending, applied_rules, setter>>
    BY <1>12 DEF OnUncapturedRemoved, Captured, States
  <2>2. Alone(n) => (pending[KeyOf[n]] # NoFlap => pending[KeyOf[n]].pid = PidOf[n])
    BY <1>4 DEF LightIsRight, Waiting
  <2>3. \A m \in Nodes : Alone(m) => LightIsRight(m)'
    BY <1>4, <2>1, <2>2, NodeStepKeepsLights
  <2> QED
    BY <1>4, <2>1, <2>3
<1>13. ASSUME NEW n \in Nodes, OnCapturedFlaps(n)
       PROVE  /\ applied_rules' = 0 /\ setter' = setter
              /\ \A m \in Nodes : Alone(m) => LightIsRight(m)'
  <2>1. /\ "flapping" \in States
        /\ announced' = [announced EXCEPT ![KeyOf[n]] = "flapping"]
        /\ UNCHANGED <<applied_rules, setter>>
        /\ \A m \in Nodes : m # n => captures'[m] = captures[m]
        /\ captures'[n] = NoSession
        /\ \A k \in Keys : k # KeyOf[n] => pending'[k] = pending[k]
        /\ pending'[KeyOf[n]].pid = PidOf[n]
    BY <1>1, <1>13 DEF OnCapturedFlaps, States, TypeOK
  <2>2. \A m \in Nodes : Alone(m) => LightIsRight(m)'
    BY <1>4, <2>1, NodeStepKeepsLights
  <2> QED
    BY <1>4, <2>1, <2>2
<1>14. ASSUME NEW n \in Nodes, OnCapturedGone(n)
       PROVE  /\ applied_rules' = 0 /\ setter' = setter
              /\ \A m \in Nodes : Alone(m) => LightIsRight(m)'
  <2>1. /\ "gone" \in States
        /\ announced' = [announced EXCEPT ![KeyOf[n]] = "gone"]
        /\ UNCHANGED <<applied_rules, setter, pending>>
        /\ \A m \in Nodes : m # n => captures'[m] = captures[m]
        /\ captures'[n] = NoSession /\ captures[n] # NoSession
    BY <1>1, <1>14 DEF OnCapturedGone, Captured, States, TypeOK
  <2>2. Alone(n) => pending[KeyOf[n]] = NoFlap
    BY <1>4, <2>1 DEF LightIsRight, Feeds, Waiting
  <2>3. \A m \in Nodes : Alone(m) => LightIsRight(m)'
    BY <1>4, <2>1, <2>2, NodeStepKeepsLights
  <2> QED
    BY <1>4, <2>1, <2>3
<1>15. CASE Timer
  <2>1. /\ applied_rules' = rules_gen /\ setter' = setter
        /\ pending' = [k \in Keys |-> IF k \in Expired THEN NoFlap ELSE pending[k]]
    BY <1>15 DEF Timer
  <2>2. Wanted = {} /\ Denied = {}
    BY <1>3, <1>4 DEF Wanted, Denied, RulesChanged
  <2>3. /\ captures' = [n \in Nodes |-> captures[n]]
        /\ announced' = [k \in Keys |-> IF k \in Expired THEN "gone" ELSE announced[k]]
    BY <1>15, <2>2 DEF Timer, ReconcileAndExpire, AnnouncedAfterTimer
  <2>4. ASSUME NEW n \in Nodes, Alone(n)
        PROVE  LightIsRight(n)'
    <3>1. LightIsRight(n) /\ KeyOf[n] \in Keys /\ captures'[n] = captures[n]
      BY <1>1, <1>4, <2>3, <2>4
    <3>2. CASE KeyOf[n] \in Expired
      <4>1. Waiting(KeyOf[n])
        BY <3>2 DEF Expired, Flapping, Waiting
      <4>2. announced'[KeyOf[n]] = "gone" /\ pending'[KeyOf[n]] = NoFlap
        BY <2>1, <2>3, <3>1, <3>2
      <4> QED
        BY <3>1, <4>1, <4>2 DEF LightIsRight, Feeds, Waiting
    <3>3. CASE KeyOf[n] \notin Expired
      <4>1. announced'[KeyOf[n]] = announced[KeyOf[n]] /\ pending'[KeyOf[n]] = pending[KeyOf[n]]
        BY <2>1, <2>3, <3>1, <3>3
      <4> QED
        BY <3>1, <4>1, LightUntouched
    <3> QED
      BY <3>2, <3>3
  <2> QED
    BY <1>3, <1>4, <2>1, <2>4
<1>16. CASE Tick
  <2>1. /\ UNCHANGED <<captures, announced, applied_rules, setter>>
        /\ pending' = [k \in Keys |->
                         IF k \in Flapping /\ pending[k].age <= grace
                         THEN [pending[k] EXCEPT !.age = @ + 1] ELSE pending[k]]
    BY <1>16 DEF Tick
  <2>2. ASSUME NEW k \in Keys
        PROVE  /\ pending'[k] # NoFlap => pending[k] # NoFlap
               /\ pending'[k] # NoFlap => pending'[k].pid = pending[k].pid
    <3>1. CASE k \in Flapping
      <4>1. pending[k] \in Flap /\ pending[k] # NoFlap
        BY <1>1, <3>1, FlapShape DEF Flapping
      <4>2. [pending[k] EXCEPT !.age = @ + 1].pid = pending[k].pid
        BY <4>1 DEF Flap
      <4> QED
        BY <2>1, <4>1, <4>2
    <3>2. CASE k \notin Flapping
      BY <2>1, <3>2
    <3> QED
      BY <3>1, <3>2
  <2>3. ASSUME NEW n \in Nodes, Alone(n)
        PROVE  LightIsRight(n)'
    BY <1>1, <1>4, <2>1, <2>2, <2>3 DEF LightIsRight, Feeds, Waiting
  <2> QED
    BY <1>4, <2>1, <2>3
<1>17. ASSUME NEW s \in Sessions, PipelineEndsSession(s)
       PROVE  UNCHANGED <<captures, pending, announced, applied_rules, setter>>
  BY <1>17 DEF PipelineEndsSession, capture_vars
<1>18. ASSUME NEW c \in Clients,
              \/ \E k \in Keys, allowed \in BOOLEAN : SetRuleCalled(c, k, allowed)
              \/ SetRuleInserts(c) \/ SetRuleBumps(c) \/ SourceRowRead(c)
              \/ SourcePublished(c)
       PROVE  /\ UNCHANGED <<captures, pending, announced, applied_rules>>
              /\ \A d \in Clients : setter'[d].pc \notin {"read", "publish"}
  <2>1. SetRuleInserts(c) \/ \E k \in Keys, allowed \in BOOLEAN : SetRuleCalled(c, k, allowed)
    BY <1>2, <1>4, <1>18 DEF SourceRowRead, SourcePublished
  <2>2. UNCHANGED <<captures, pending, announced, applied_rules>>
    BY <2>1 DEF SetRuleInserts, SetRuleCalled, capture_vars
  <2>3. ASSUME NEW d \in Clients
        PROVE  setter'[d].pc \notin {"read", "publish"}
    <3>1. CASE d = c
      <4>1. CASE SetRuleInserts(c)
        <5>1. setter[c].pc = "insert" /\ setter[c] \in Setter
              /\ setter' = [setter EXCEPT ![c].pc = "bump"]
          BY <1>1, <4>1 DEF SetRuleInserts
        <5>2. [setter[c] EXCEPT !.pc = "bump"].pc = "bump"
          BY <5>1 DEF Setter, Idle
        <5> QED
          BY <1>1, <3>1, <5>1, <5>2
      <4>2. CASE \E k \in Keys, allowed \in BOOLEAN : SetRuleCalled(c, k, allowed)
        BY <1>1, <3>1, <4>2 DEF SetRuleCalled
      <4> QED
        BY <2>1, <4>1, <4>2
    <3>2. CASE d # c
      <4>1. setter'[d] = setter[d]
        BY <1>1, <2>1, <3>2 DEF SetRuleInserts, SetRuleCalled
      <4> QED
        BY <1>4, <4>1
    <3> QED
      BY <3>1, <3>2
  <2> QED
    BY <2>2, <2>3
<1>19. CASE UNCHANGED vars
  BY <1>4, <1>5, <1>19 DEF vars
<1> QED
  BY <1>4, <1>5, <1>6, <1>10, <1>11, <1>12, <1>13, <1>14, <1>15, <1>16, <1>17, <1>18,
     <1>19 DEF Next

(* The capturing light of a source with one stream is on exactly while its *)
(* stream is open, through flaps, failed attaches and returns, for every   *)
(* grace: what on_node, on_node_removed and the timer publish, until the   *)
(* first sources.set.                                                      *)
THEOREM LightIsTrue == Spec => []CapturingLightTrue
<1>1. Init => LightInv
  <2> SUFFICES ASSUME Init PROVE LightInv
    OBVIOUS
  <2>1. \A n \in Nodes : KeyOf[n] \in Keys
    BY TapsAssumption
  <2>2. \A n \in Nodes : LightIsRight(n)
    BY <2>1 DEF Init, LightIsRight, Feeds, Waiting
  <2> QED
    BY <2>2 DEF Init, LightInv, Idle
<1>2. TapsInv /\ LightInv /\ [Next]_vars => LightInv'
  BY LightIsKept
<1>3. LightInv => CapturingLightTrue
  BY DEF LightInv, CapturingLightTrue, Alone, LightIsRight, Feeds, Captured
<1> QED
  BY <1>1, <1>2, <1>3, TapsInvariant, PTL DEF Spec

-----------------------------------------------------------------------------
(* The microphone and room taps of the same loop.                         *)

(* What the proof needs of the types: a tap is closed or is open on a      *)
(* session with a number, rows are of taps, and sessions are counted.      *)
OpenTaps == [session : Nat \ {0}, target : Devices \union {None}, failed : BOOLEAN]

TapsTyped ==
    /\ tap \in [Taps -> {Closed} \union OpenTaps]
    /\ rows \subseteq [tap : Taps, session : Nat]
    /\ begun \in [Taps -> Nat]
    /\ default \in Devices \union {None}
    /\ cfg \in [Taps -> Switches]
    /\ control \in [Taps -> Switches]

DanglesInv == TapsTyped /\ NoMicSessionDangles

LEMMA OpenIsNotClosed == \A o \in OpenTaps : o # Closed /\ o.session \in Nat
  BY DEF OpenTaps, Closed

(* A tap that is closed or reopened leaves the end of its session behind,  *)
(* one that opens begins a row it is open on, and the others are as        *)
(* they were.                                                              *)
LEMMA SyncTapsKeepsRows ==
  ASSUME DanglesInv, SyncTaps,
         default' \in Devices \union {None}, cfg' \in [Taps -> Switches]
  PROVE  DanglesInv'
  <1> DEFINE plan == [t \in Taps |-> Plan(t)]
  <1> DEFINE stops == Stops(plan)
  <1> DEFINE tries == {t \in Taps : /\ plan[t] \in {"open", "reopen"}
                                         /\ ~backoff[t] /\ Resolves(t)}
  <1>1. PICK opens \in SUBSET tries :
          /\ begun' = [t \in Taps |-> IF t \in opens THEN begun[t] + 1 ELSE begun[t]]
          /\ tap' = [t \in Taps |->
                 IF t \in opens THEN [session |-> begun[t] + 1, target |-> Target(t),
                                      failed |-> FALSE]
                 ELSE IF t \in stops THEN Closed ELSE tap[t]]
          /\ ends' = ends \union Stopped(stops)
          /\ rows' = rows \union {[tap |-> t, session |-> begun[t] + 1] : t \in opens}
          /\ control' = control
    BY DEF SyncTaps
  <1>2. opens \subseteq Taps /\ stops \subseteq Taps
    BY DEF Stops
  <1>3. \A t \in opens : [session |-> begun[t] + 1, target |-> Target(t), failed |-> FALSE]
                            \in OpenTaps
    BY <1>2 DEF DanglesInv, TapsTyped, OpenTaps, Target, Switches, Taps
  <1>4. TapsTyped'
    BY <1>1, <1>2, <1>3 DEF DanglesInv, TapsTyped
  <1>5. ASSUME NEW s \in rows'
        PROVE  s \in ends' \/ (Active(s.tap)' /\ tap'[s.tap].session = s.session)
    <2>1. CASE s \in rows /\ s \in ends
      BY <2>1, <1>1
    <2>2. CASE s \in rows /\ s \notin ends
      <3>1. s.tap \in Taps /\ s.session \in Nat /\ s = [tap |-> s.tap, session |-> s.session]
        BY <2>2 DEF DanglesInv, TapsTyped
      <3>2. tap[s.tap] # Closed /\ tap[s.tap].session = s.session
        BY <2>2 DEF DanglesInv, NoMicSessionDangles, Active
      <3>3. CASE s.tap \in stops
        BY <3>1, <3>2, <3>3, <1>1 DEF Stopped
      <3>4. CASE s.tap \notin stops
        <4>1. plan[s.tap] # "open"
          BY <3>1, <3>2 DEF Plan
        <4>2. plan[s.tap] # "reopen"
          BY <3>1, <3>2, <3>4 DEF Stops
        <4>3. s.tap \notin opens
          BY <4>1, <4>2, <1>1
        <4> QED BY <4>3, <3>1, <3>2, <3>4, <1>1 DEF Active
      <3> QED BY <3>3, <3>4
    <2>3. CASE s \notin rows
      <3>1. PICK t \in opens : s = [tap |-> t, session |-> begun[t] + 1]
        BY <2>3, <1>1
      <3> QED BY <3>1, <1>1, <1>2, <1>3, OpenIsNotClosed DEF Active
    <2> QED BY <2>1, <2>2, <2>3
  <1> QED BY <1>4, <1>5 DEF DanglesInv, NoMicSessionDangles

LEMMA DanglesInit ==
  ASSUME MicInit
  PROVE  DanglesInv
  <1>1. control \in [Taps -> Switches] /\ cfg = control
    BY MicTapAssumption DEF MicInit, Switches
  <1>2. rows = {} /\ tap = [t \in Taps |-> Closed]
        /\ begun = [t \in Taps |-> 0] /\ default = None
    BY DEF MicInit
  <1> QED BY <1>1, <1>2 DEF DanglesInv, TapsTyped, NoMicSessionDangles

(* A stream that fails keeps its session, which stays open.                *)
LEMMA StreamFailsKeepsRows ==
  ASSUME DanglesInv, NEW t \in Taps, StreamFails(t)
  PROVE  DanglesInv'
  <1>1. tap[t] \in OpenTaps
    BY DEF StreamFails, Active, DanglesInv, TapsTyped
  <1>2. [tap[t] EXCEPT !.failed = TRUE] \in OpenTaps
    BY <1>1 DEF OpenTaps
  <1>3. tap' = [tap EXCEPT ![t] = [tap[t] EXCEPT !.failed = TRUE]]
    BY DEF StreamFails
  <1>4. \A u \in Taps : /\ tap[u] # Closed => tap'[u] # Closed
                            /\ tap'[u].session = tap[u].session
    BY <1>1, <1>2, <1>3, OpenIsNotClosed DEF DanglesInv, TapsTyped, OpenTaps
  <1>5. UNCHANGED <<rows, begun, default, cfg, control, ends>>
    BY DEF StreamFails, graph
  <1>6. TapsTyped'
    BY <1>2, <1>3, <1>5 DEF DanglesInv, TapsTyped
  <1>7. \A s \in rows : s.tap \in Taps
    BY DEF DanglesInv, TapsTyped
  <1> QED BY <1>4, <1>5, <1>6, <1>7 DEF DanglesInv, NoMicSessionDangles, Active

LEMMA LeaveKeepsRows ==
  ASSUME DanglesInv, Leave
  PROVE  DanglesInv'
  <1>1. /\ ends' = ends \union Stopped({t \in Taps : Active(t)})
        /\ tap' = [t \in Taps |-> Closed]
        /\ UNCHANGED <<rows, begun, default, cfg, control>>
    BY DEF Leave, graph
  <1>2. TapsTyped'
    BY <1>1 DEF DanglesInv, TapsTyped
  <1>3. ASSUME NEW s \in rows, s \notin ends
        PROVE  s \in ends'
    <2>1. s.tap \in Taps /\ s = [tap |-> s.tap, session |-> s.session]
      BY <1>3 DEF DanglesInv, TapsTyped
    <2>2. Active(s.tap) /\ tap[s.tap].session = s.session
      BY <1>3 DEF DanglesInv, NoMicSessionDangles
    <2> QED BY <2>1, <2>2, <1>1 DEF Stopped
  <1> QED BY <1>1, <1>2, <1>3 DEF DanglesInv, NoMicSessionDangles

LEMMA StepKeepsRows ==
  ASSUME DanglesInv, [MicNext]_mic_vars
  PROVE  DanglesInv'
  <1>1. CASE MicTimer
    <2>1. default' = default /\ cfg' \in [Taps -> Switches]
      BY <1>1 DEF MicTimer, graph, ReadSwitches, DanglesInv, TapsTyped
    <2>2. SyncTaps
      BY <1>1 DEF MicTimer
    <2> QED BY <2>1, <2>2, SyncTapsKeepsRows DEF DanglesInv, TapsTyped
  <1>2. CASE GraphChanges
    <2>1. default' \in Devices \union {None} /\ cfg' = cfg
      BY <1>2 DEF GraphChanges, DanglesInv, TapsTyped
    <2>2. SyncTaps
      BY <1>2 DEF GraphChanges
    <2> QED BY <2>1, <2>2, SyncTapsKeepsRows DEF DanglesInv, TapsTyped
  <1>3. CASE Leave
    BY <1>3, LeaveKeepsRows
  <1>4. ASSUME NEW t \in Taps, StreamFails(t)
        PROVE  DanglesInv'
    BY <1>4, StreamFailsKeepsRows
  <1>5. ASSUME NEW t \in Taps, BackoffEnds(t)
        PROVE  DanglesInv'
    BY <1>5 DEF BackoffEnds, DanglesInv, TapsTyped,
       NoMicSessionDangles, Active, graph
  <1>6. ASSUME NEW s \in ends, EndRow(s)
        PROVE  DanglesInv'
    BY <1>6 DEF EndRow, DanglesInv, TapsTyped, NoMicSessionDangles, Active, graph
  <1>7. ASSUME NEW r \in Requests, Handle(r)
        PROVE  DanglesInv'
    <2>1. CASE \E t \in Taps, switch \in Switches : Set(r, t, switch)
      BY <2>1 DEF Set, DanglesInv, TapsTyped,
         NoMicSessionDangles, Active, graph, loop
    <2>2. CASE Carry(r)
      <3>1. UNCHANGED <<control, graph, loop, ends>>
        BY <2>2 DEF Carry, Load, Save, ReadState, Publish
      <3> QED BY <3>1 DEF DanglesInv, TapsTyped,
         NoMicSessionDangles, Active, graph, loop
    <2> QED BY <1>7, <2>1, <2>2 DEF Handle
  <1>8. CASE UNCHANGED mic_vars
    BY <1>8 DEF mic_vars, DanglesInv, TapsTyped,
       NoMicSessionDangles, Active, graph, loop
  <1>9. CASE Start
    BY <1>9 DEF Start, DanglesInv, TapsTyped, NoMicSessionDangles, Active, graph
  <1> QED BY <1>1, <1>2, <1>3, <1>4, <1>5, <1>6, <1>7, <1>8, <1>9 DEF MicNext

-----------------------------------------------------------------------------
(* However switches, devices, failures and requests fall, and whatever the *)
(* bounds, no session row of a microphone is left with neither a tap that  *)
(* is open on it nor an end on its way (capture.rs sync_taps, stop_mic).   *)
THEOREM NoMicSessionIsLost ==
    MicSpec => []NoMicSessionDangles
  <1>1. MicInit => DanglesInv
    BY DanglesInit
  <1>2. DanglesInv /\ [MicNext]_mic_vars => DanglesInv'
    BY StepKeepsRows
  <1>3. DanglesInv => NoMicSessionDangles
    BY DEF DanglesInv
  <1> QED BY <1>1, <1>2, <1>3, PTL DEF MicSpec

-----------------------------------------------------------------------------
(* What an open tap records, and where to.                                 *)

(* A tap is open because the switch the loop last read and the graph ask   *)
(* for it, and on the device they name: whoever unplugs it, moves the      *)
(* default or stops the application, the callback that says so closes or   *)
(* moves the tap (capture.rs mic_plan, sync_taps).                         *)
TapsHaveGrounds ==
    \A t \in Taps : Active(t) =>
        /\ cfg[t].enabled /\ (cfg[t].mode = "always" \/ apps)
        /\ cfg[t].device # None => cfg[t].device \in plugged
        /\ cfg[t].device = None => t = "mic"
        /\ tap[t].target = IF cfg[t].device # None THEN cfg[t].device ELSE default

(* What a tap records goes to a session whose row is open and whose end is *)
(* not queued: none is reopened under a number already used (attach_mic,   *)
(* stop_mic, on_session_end).                                              *)
TapsRecordIntoOpenRows ==
    \A t \in Taps : Active(t) =>
        [tap |-> t, session |-> tap[t].session] \in rows \ ends

SessionsAreCounted ==
    \A s \in rows \union ends : s \in [tap : Taps, session : Nat]
                                /\ s.session <= begun[s.tap]

TapsInOrder ==
    TapsTyped /\ TapsHaveGrounds /\ TapsRecordIntoOpenRows /\ SessionsAreCounted

(* Whatever was open before, sync_taps leaves open only what has grounds.  *)
LEMMA SyncTapsGivesGrounds ==
  ASSUME TapsTyped, TapsTyped', SyncTaps
  PROVE  TapsHaveGrounds'
  <1> SUFFICES ASSUME NEW t \in Taps, Active(t)'
               PROVE  /\ cfg'[t].enabled /\ (cfg'[t].mode = "always" \/ apps')
                      /\ cfg'[t].device # None => cfg'[t].device \in plugged'
                      /\ cfg'[t].device = None => t = "mic"
                      /\ tap'[t].target = IF cfg'[t].device # None
                                          THEN cfg'[t].device ELSE default'
    BY DEF TapsHaveGrounds
  <1> DEFINE plan == [u \in Taps |-> Plan(u)]
             tries == {u \in Taps : /\ plan[u] \in {"open", "reopen"}
                                        /\ ~backoff[u] /\ Resolves(u)}
             stops == Stops(plan)
  <1>1. PICK opens \in SUBSET tries :
          tap' = [u \in Taps |->
                 IF u \in opens THEN [session |-> begun[u] + 1, target |-> Target(u),
                                      failed |-> FALSE]
                 ELSE IF u \in stops THEN Closed ELSE tap[u]]
    BY DEF SyncTaps
  <1>2. cfg'[t].device \in Devices \union {None}
    BY DEF TapsTyped, Switches
  <1>3. t = "mic" \/ t = "room"
    BY DEF Taps
  <1>4. CASE t \in opens
    <2>1. plan[t] \in {"open", "reopen"} /\ Resolves(t)
      BY <1>1, <1>4
    <2>2. MicWanted(t) /\ ~(t = "room" /\ cfg'[t].enabled /\ Target(t) = None)
      BY <2>1 DEF Plan
    <2>3. tap'[t].target = Target(t)
      BY <1>1, <1>4
    <2> QED
      BY <1>2, <1>3, <2>1, <2>2, <2>3
      DEF MicWanted, Target, Resolves, OnGraph
  <1>5. CASE t \notin opens
    <2>1. tap'[t] = tap[t] /\ t \notin stops /\ tap[t] # Closed
      BY <1>1, <1>5 DEF Active
    <2>2. plan[t] \notin {"close", "reopen"} /\ plan[t] = Plan(t)
      BY <2>1 DEF Stops
    <2>3. /\ MicWanted(t) /\ OnGraph(t) /\ tap[t].target = Target(t)
          /\ ~(t = "room" /\ cfg'[t].enabled /\ Target(t) = None)
      BY <2>1, <2>2 DEF Plan, Broken
    <2> QED
      BY <1>2, <1>3, <2>1, <2>3 DEF MicWanted, Target, OnGraph
  <1> QED BY <1>4, <1>5

LEMMA SyncTapsKeepsOpenRows ==
  ASSUME TapsInOrder, TapsTyped', SyncTaps
  PROVE  TapsRecordIntoOpenRows' /\ SessionsAreCounted'
  <1> DEFINE plan == [u \in Taps |-> Plan(u)]
             tries == {u \in Taps : /\ plan[u] \in {"open", "reopen"}
                                        /\ ~backoff[u] /\ Resolves(u)}
             stops == Stops(plan)
  <1>1. PICK opens \in SUBSET tries :
          /\ begun' = [t \in Taps |-> IF t \in opens THEN begun[t] + 1 ELSE begun[t]]
          /\ tap' = [t \in Taps |->
                 IF t \in opens THEN [session |-> begun[t] + 1, target |-> Target(t),
                                      failed |-> FALSE]
                 ELSE IF t \in stops THEN Closed ELSE tap[t]]
          /\ ends' = ends \union Stopped(stops)
          /\ rows' = rows \union {[tap |-> t, session |-> begun[t] + 1] : t \in opens}
    BY DEF SyncTaps
  <1>2. opens \subseteq Taps /\ stops \subseteq {t \in Taps : Active(t)}
    BY DEF Stops, Active
  <1>3. \A t \in Taps : begun[t] \in Nat /\ begun[t] <= begun'[t]
    BY <1>1 DEF TapsInOrder, TapsTyped
  <1>4. \A s \in Stopped(stops) :
          s \in rows /\ \E t \in stops : s = [tap |-> t, session |-> tap[t].session]
    BY <1>2 DEF Stopped, TapsInOrder, TapsRecordIntoOpenRows
  <1>5. SessionsAreCounted'
    <2>1. \A s \in rows \union ends : s \in [tap : Taps, session : Nat]
                                      /\ s.session <= begun'[s.tap]
      <3>1. ASSUME NEW s \in rows \union ends
            PROVE  s \in [tap : Taps, session : Nat] /\ s.session <= begun[s.tap]
        BY <3>1 DEF TapsInOrder, SessionsAreCounted
      <3>2. \A s \in [tap : Taps, session : Nat] :
              /\ s.session \in Nat /\ begun[s.tap] \in Nat /\ begun'[s.tap] \in Nat
              /\ begun[s.tap] <= begun'[s.tap]
        BY <1>3 DEF TapsTyped
      <3> QED BY <3>1, <3>2
    <2>2. \A t \in opens :
            LET s == [tap |-> t, session |-> begun[t] + 1] IN
            s \in [tap : Taps, session : Nat] /\ s.session <= begun'[s.tap]
      BY <1>1, <1>2, <1>3
    <2>3. ASSUME NEW s \in rows' \union ends', s \notin rows \union ends
          PROVE  \E t \in opens : s = [tap |-> t, session |-> begun[t] + 1]
      BY <1>1, <1>4, <2>3
    <2>4. ASSUME NEW s \in rows' \union ends'
          PROVE  s \in [tap : Taps, session : Nat] /\ s.session <= begun'[s.tap]
      BY <2>1, <2>2, <2>3
    <2> QED
      BY <2>4 DEF SessionsAreCounted
  <1>6. ASSUME NEW t \in Taps, Active(t)'
        PROVE  [tap |-> t, session |-> tap'[t].session] \in rows' \ ends'
    <2>1. CASE t \in opens
      <3> DEFINE s == [tap |-> t, session |-> begun[t] + 1]
      <3>1. tap'[t].session = begun[t] + 1 /\ s \in rows'
        BY <1>1, <2>1
      <3>2. s \notin rows \union ends
        <4>1. \A x \in rows \union ends : x.session <= begun[x.tap]
          BY DEF TapsInOrder, SessionsAreCounted
        <4>2. s.session = begun[t] + 1 /\ s.tap = t
          OBVIOUS
        <4>3. ~(s.session <= begun[s.tap])
          BY <1>3, <4>2
        <4> HIDE DEF s
        <4> QED BY <4>1, <4>3
      <3> QED
        BY <1>1, <1>4, <3>1, <3>2
    <2>2. CASE t \notin opens
      <3>1. tap'[t] = tap[t] /\ t \notin stops /\ Active(t)
        BY <1>1, <1>6, <2>2 DEF Active
      <3>2. [tap |-> t, session |-> tap[t].session] \in rows \ ends
        BY <3>1 DEF TapsInOrder, TapsRecordIntoOpenRows
      <3>3. [tap |-> t, session |-> tap[t].session] \notin Stopped(stops)
        BY <1>4, <3>1
      <3> QED
        BY <1>1, <3>1, <3>2, <3>3
    <2> QED BY <2>1, <2>2
  <1> QED BY <1>5, <1>6 DEF TapsRecordIntoOpenRows

LEMMA SyncTapsKeepsOrder ==
  ASSUME TapsInOrder, TapsTyped', SyncTaps
  PROVE  TapsInOrder'
  <1>1. TapsHaveGrounds'
    BY SyncTapsGivesGrounds DEF TapsInOrder
  <1> QED BY <1>1, SyncTapsKeepsOpenRows DEF TapsInOrder

LEMMA LeaveKeepsOrder ==
  ASSUME TapsInOrder, TapsTyped', Leave
  PROVE  TapsInOrder'
  <1> DEFINE open == {t \in Taps : Active(t)}
  <1>1. /\ ends' = ends \union Stopped(open)
        /\ tap' = [t \in Taps |-> Closed]
        /\ UNCHANGED <<rows, begun>>
    BY DEF Leave
  <1>2. Stopped(open) \subseteq rows
    BY DEF Stopped, TapsInOrder, TapsRecordIntoOpenRows
  <1>3. \A t \in Taps : ~Active(t)'
    BY <1>1 DEF Active
  <1> QED BY <1>1, <1>2, <1>3
          DEF TapsInOrder, TapsHaveGrounds, TapsRecordIntoOpenRows, SessionsAreCounted

LEMMA StreamFailsKeepsOrder ==
  ASSUME TapsInOrder, TapsTyped', NEW t \in Taps, StreamFails(t)
  PROVE  TapsInOrder'
  <1>1. tap[t] \in OpenTaps
    BY DEF StreamFails, Active, TapsInOrder, TapsTyped
  <1>2. tap' = [tap EXCEPT ![t] = [tap[t] EXCEPT !.failed = TRUE]]
        /\ UNCHANGED <<rows, begun, ends, cfg, apps, plugged, default>>
    BY DEF StreamFails, graph
  <1>3. \A u \in Taps :
          /\ Active(u)' => Active(u)
          /\ tap'[u].session = tap[u].session /\ tap'[u].target = tap[u].target
    <2>1. tap[t] # Closed
      BY DEF StreamFails, Active
    <2>2. /\ [tap[t] EXCEPT !.failed = TRUE].session = tap[t].session
          /\ [tap[t] EXCEPT !.failed = TRUE].target = tap[t].target
      BY <1>1 DEF OpenTaps
    <2> DEFINE now == [tap[t] EXCEPT !.failed = TRUE]
    <2>3. \A u \in Taps : tap'[u] = IF u = t THEN now ELSE tap[u]
      BY <1>2 DEF TapsInOrder, TapsTyped
    <2> HIDE DEF now
    <2> QED BY <2>1, <2>2, <2>3 DEF Active, now
  <1> QED BY <1>2, <1>3
          DEF TapsInOrder, TapsHaveGrounds, TapsRecordIntoOpenRows, SessionsAreCounted

(* A row is closed once its end is taken, and that is never an open tap's. *)
LEMMA EndRowKeepsOrder ==
  ASSUME TapsInOrder, TapsTyped', NEW s \in ends, EndRow(s)
  PROVE  TapsInOrder'
  <1>1. ends' = ends \ {s} /\ rows' = rows \ {s}
        /\ UNCHANGED <<tap, begun, cfg, apps, plugged, default>>
    BY DEF EndRow, graph
  <1>2. \A t \in Taps : Active(t)' => Active(t)
    BY <1>1 DEF Active
  <1>3. TapsRecordIntoOpenRows'
    BY <1>1, <1>2 DEF TapsInOrder, TapsRecordIntoOpenRows
  <1>4. SessionsAreCounted'
    BY <1>1 DEF TapsInOrder, SessionsAreCounted
  <1>5. TapsHaveGrounds'
    BY <1>1, <1>2 DEF TapsInOrder, TapsHaveGrounds
  <1> QED BY <1>3, <1>4, <1>5 DEF TapsInOrder

LEMMA QuietKeepsOrder ==
  ASSUME TapsInOrder, TapsTyped',
         UNCHANGED <<tap, begun, cfg, apps, plugged, default, rows, ends>>
  PROVE  TapsInOrder'
  <1>1. \A t \in Taps : Active(t)' => Active(t)
    BY DEF Active
  <1> QED BY <1>1
          DEF TapsInOrder, TapsHaveGrounds, TapsRecordIntoOpenRows, SessionsAreCounted

LEMMA StepKeepsOrder ==
  ASSUME DanglesInv, TapsInOrder, [MicNext]_mic_vars
  PROVE  TapsInOrder'
  <1>0. TapsTyped'
    BY StepKeepsRows DEF DanglesInv
  <1>1. CASE MicTimer \/ GraphChanges
    <2>1. SyncTaps
      BY <1>1 DEF MicTimer, GraphChanges
    <2> QED BY <1>0, <2>1, SyncTapsKeepsOrder
  <1>2. CASE Leave
    BY <1>0, <1>2, LeaveKeepsOrder
  <1>3. ASSUME NEW t \in Taps, StreamFails(t)
        PROVE  TapsInOrder'
    BY <1>0, <1>3, StreamFailsKeepsOrder
  <1>4. ASSUME NEW s \in ends, EndRow(s)
        PROVE  TapsInOrder'
    BY <1>0, <1>4, EndRowKeepsOrder
  <1>5. ASSUME NEW t \in Taps, BackoffEnds(t)
        PROVE  TapsInOrder'
    BY <1>0, <1>5, QuietKeepsOrder DEF BackoffEnds, graph
  <1>6. ASSUME NEW r \in Requests, Handle(r)
        PROVE  TapsInOrder'
    <2>1. UNCHANGED <<graph, loop, ends>>
      BY <1>6 DEF Handle, Carry, Set, Load, Save,
                  ReadState, Publish
    <2> QED BY <1>0, <2>1, QuietKeepsOrder DEF graph, loop
  <1>7. CASE UNCHANGED mic_vars
    BY <1>0, <1>7, QuietKeepsOrder DEF mic_vars, graph, loop
  <1>8. CASE Start
    BY <1>0, <1>8, QuietKeepsOrder DEF Start, graph
  <1> QED BY <1>1, <1>2, <1>3, <1>4, <1>5, <1>6, <1>7, <1>8 DEF MicNext

(* In every reachable state of the microphone taps their sessions are       *)
(* accounted for, and what is open has grounds and a row of its own.        *)
THEOREM TapsStayInOrder ==
    MicSpec => [](DanglesInv /\ TapsInOrder)
  <1>1. MicInit => DanglesInv /\ TapsInOrder
    <2> SUFFICES ASSUME MicInit
                 PROVE  DanglesInv /\ TapsInOrder
      OBVIOUS
    <2>1. DanglesInv
      BY DanglesInit
    <2>2. rows = {} /\ ends = {} /\ \A t \in Taps : ~Active(t)
      BY DEF MicInit, Active
    <2> QED BY <2>1, <2>2 DEF DanglesInv, TapsInOrder, TapsHaveGrounds,
                              TapsRecordIntoOpenRows, SessionsAreCounted
  <1>2. DanglesInv /\ TapsInOrder /\ [MicNext]_mic_vars => (DanglesInv /\ TapsInOrder)'
    BY StepKeepsRows, StepKeepsOrder
  <1> QED BY <1>1, <1>2, PTL DEF MicSpec

(* No microphone listens unasked or at the wrong device, as far as its     *)
(* loop has heard: every callback leaves what mic_plan stands for, even    *)
(* when several grounds change between two of them.                        *)
THEOREM NoTapListensUnasked ==
    MicSpec => []TapsHaveGrounds
  <1>1. TapsInOrder => TapsHaveGrounds
    BY DEF TapsInOrder
  <1> QED BY <1>1, TapsStayInOrder, PTL

(* What is recorded has a row to go to, which is not ended until the tap   *)
(* has let go of it (attach_mic, stop_mic, on_session_end).                *)
THEOREM MicAudioHasItsRow ==
    MicSpec => []TapsRecordIntoOpenRows
  <1>1. TapsInOrder => TapsRecordIntoOpenRows
    BY DEF TapsInOrder
  <1> QED BY <1>1, TapsStayInOrder, PTL
=============================================================================
