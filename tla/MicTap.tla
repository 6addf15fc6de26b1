------------------------------- MODULE MicTap -------------------------------
(***************************************************************************)
(* The two microphone taps of the capture loop (capture.rs: mic_plan and   *)
(* sync_taps), their switches (control.rs), and the requests mic.set and   *)
(* room.set that flip them from other threads (service.rs).                *)
(*                                                                         *)
(* Every callback of the capture loop is one action and ends in sync_taps. *)
(* A request is handled on its connection's thread, in the steps between   *)
(* which another thread can act: set the switch, read the configuration    *)
(* file, write it back, read the state to announce, announce it.           *)
(* A name that CaptureTaps has too begins with Mic here: they are parts of *)
(* one loop, and one module of proofs extends both.                        *)
(***************************************************************************)
EXTENDS Naturals, FiniteSets, TLC

CONSTANTS
    Devices,      \* node.names of capture devices
    None,
    MicPin,       \* [mic].device: a device or None; no request changes it
    Requests,     \* connections that may be handling a request
    MaxRequests,  \* bound: requests handled
    MaxGraph,     \* bound: changes of the graph
    MaxFailures   \* bound: attaches and streams that fail

ASSUME MicTapAssumption ==
    /\ None \notin Devices /\ MicPin \in Devices \union {None}
    /\ {MaxRequests, MaxGraph, MaxFailures} \subseteq Nat

VARIABLES
    control,   \* the switches
    request,   \* what each connection is handling
    file,      \* both switches as the configuration file has them
    plugged, default, apps,  \* the graph, and whether an allowed application runs
    cfg,       \* the switches as the capture loop last read them
    tap,       \* the open session of each tap
    backoff,   \* taps that wait out MIC_RETRY
    mic_announced, \* the state each tap last announced
    shown,     \* the state a client was told last
    rows,      \* sessions whose row is open
    ends,      \* sessions whose end is queued
    begun,     \* sessions each tap has begun
    unread,    \* taps whose generation has moved since the loop last read it
    missed,    \* history: switches that moved before the loop read generations at all
    mic_phase, \* of the capture loop: starting, running or left
    spent      \* how much of each bound is used

graph == <<plugged, default, apps>>
loop == <<cfg, missed, tap, backoff, mic_announced, rows, begun>>
mic_vars == <<control, request, file, graph, loop, shown, ends, unread, mic_phase, spent>>

Taps == {"mic", "room"}
Closed == [session |-> 0]
Ready == [at |-> "ready"]
Switches == [enabled : BOOLEAN, mode : {"follow", "always"},
             device : Devices \union {None}]
MicStates == {"off", "needs-device"} \union
          {"following:idle", "following:active", "always:idle", "always:active"}
\* The most sessions one tap can need: one for each thing that can close one.
MaxSessions == 1 + MaxRequests + MaxGraph + MaxFailures
MicSessions == [tap : Taps, session : 1..MaxSessions]

\* Types of every variable: the shape of the model's state.
MicTypeOK ==
    /\ control \in [Taps -> Switches] /\ cfg \in [Taps -> Switches]
    /\ file \in [Taps -> Switches]
    /\ \A r \in Requests :
          request[r].at \in {"ready", "set", "loaded", "saved", "read", "told"}
    /\ plugged \subseteq Devices /\ default \in Devices \union {None}
    /\ apps \in BOOLEAN /\ mic_phase \in {"starting", "running", "left"}
    /\ unread \subseteq Taps /\ missed \subseteq Taps
    /\ tap \in [Taps -> {Closed} \union [session : 1..MaxSessions,
                    target : Devices \union {None}, failed : BOOLEAN]]
    /\ backoff \in [Taps -> BOOLEAN]
    /\ mic_announced \in [Taps -> MicStates] /\ shown \in [Taps -> MicStates]
    /\ rows \subseteq MicSessions /\ ends \subseteq MicSessions
    /\ begun \in [Taps -> 0..MaxSessions]

MicInit ==
    /\ control = [t \in Taps |-> [enabled |-> FALSE, mode |-> "follow",
                  device |-> IF t = "mic" THEN MicPin ELSE None]]
    /\ cfg = control /\ file = control
    /\ request = [r \in Requests |-> Ready]
    /\ plugged = {} /\ default = None /\ apps = FALSE
    /\ tap = [t \in Taps |-> Closed] /\ backoff = [t \in Taps |-> FALSE]
    /\ mic_announced = [t \in Taps |-> "off"] /\ shown = mic_announced
    /\ rows = {} /\ ends = {} /\ begun = [t \in Taps |-> 0]
    /\ unread = {} /\ missed = {} /\ mic_phase = "starting"
    /\ spent = [requests |-> 0, graph |-> 0, failures |-> 0]

\* mic_state and room::state.
State(t, switch, active) ==
    IF ~switch.enabled THEN "off"
    ELSE IF t = "room" /\ switch.device = None THEN "needs-device"
    ELSE IF switch.mode = "follow"
         THEN IF active THEN "following:active" ELSE "following:idle"
         ELSE IF active THEN "always:active" ELSE "always:idle"

Active(t) == tap[t] # Closed
running == mic_phase = "running"

------------------------------------------------------------------------------
(* The state machine of a tap, over the graph as it is after the callback. *)

\* mic_target and room_target.
Target(t) == IF cfg'[t].device # None THEN cfg'[t].device
             ELSE IF t = "mic" THEN default' ELSE None

\* pin_on_graph and room_pin_on_graph.
OnGraph(t) == IF cfg'[t].device = None THEN t = "mic" ELSE cfg'[t].device \in plugged'

\* The switch, and for follow an application that is being captured.
MicWanted_Mutant(t) == cfg'[t].enabled /\ apps'

MicWanted(t) == cfg'[t].enabled /\ (cfg'[t].mode = "always" \/ apps')

\* What an open tap is closed for: its stream failed, or its pinned device is gone.
Broken_Mutant(t) == ~OnGraph(t)

Broken(t) == tap[t].failed \/ ~OnGraph(t)

\* mic_plan, behind sync_room's branch for a tap with no device.
Plan(t) ==
    IF t = "room" /\ cfg'[t].enabled /\ Target(t) = None THEN "close"
    ELSE IF ~MicWanted(t) THEN IF tap[t] = Closed THEN "hold" ELSE "close"
    ELSE IF tap[t] = Closed THEN "open"
    ELSE IF Broken(t) THEN "close"
    ELSE IF tap[t].target = Target(t) THEN "hold"
    ELSE "reopen"

\* resolve_mic_target; a default that is on no node is left to the session manager.
Resolves(t) == IF t = "mic" THEN OnGraph(t) ELSE Target(t) \in plugged'

\* The taps whose session ends here, and gets its SessionEnd queued.
Stops_Mutant(plan) == {t \in Taps : tap[t] # Closed /\ plan[t] = "close"}

Stops(plan) == {t \in Taps : tap[t] # Closed /\ plan[t] \in {"close", "reopen"}}

Stopped(ts) == {[tap |-> t, session |-> tap[t].session] : t \in ts}

(* sync_taps.  Of the taps that may try, some fail: they get a session row and no
   stream, and the row is ended on the spot.  All but hold end in announce_mic. *)
SyncTaps ==
    LET plan == [t \in Taps |-> Plan(t)]
        stops == Stops(plan)
        tries == {t \in Taps : plan[t] \in {"open", "reopen"} /\ ~backoff[t] /\ Resolves(t)}
    IN \E opens \in SUBSET tries :
       /\ spent.failures + Cardinality(tries \ opens) <= MaxFailures
       /\ begun' = [t \in Taps |-> IF t \in opens THEN begun[t] + 1 ELSE begun[t]]
       /\ tap' = [t \in Taps |->
              IF t \in opens THEN [session |-> begun[t] + 1, target |-> Target(t),
                                   failed |-> FALSE]
              ELSE IF t \in stops THEN Closed ELSE tap[t]]
       /\ backoff' = [t \in Taps |->
              CASE plan[t] = "hold" -> backoff[t]
                [] plan[t] = "close" -> FALSE
                [] OTHER -> t \notin opens]
       /\ ends' = ends \union Stopped(stops)
       /\ rows' = rows \union {[tap |-> t, session |-> begun[t] + 1] : t \in opens}
       /\ mic_announced' = [t \in Taps |->
              IF plan[t] = "hold" THEN mic_announced[t]
              ELSE State(t, control[t], tap'[t] # Closed)]
       /\ shown' = [t \in Taps |->
              IF mic_announced'[t] # mic_announced[t] THEN mic_announced'[t] ELSE shown[t]]
       /\ spent' = [spent EXCEPT !.failures = @ + Cardinality(tries \ opens),
                                 !.graph = IF UNCHANGED graph THEN @ ELSE @ + 1]
       /\ UNCHANGED <<control, request, file, mic_phase>>

\* run has copied the switches, and reads the generations it compares with only now: a
\* switch set in between counts as applied.
Start ==
    /\ mic_phase = "starting" /\ mic_phase' = "running"
    /\ missed' = unread /\ unread' = {}
    /\ UNCHANGED <<control, request, file, graph, cfg, tap, backoff, mic_announced, rows,
                   begun, shown, ends, spent>>

\* The 250 ms timer: switches whose generation moved are read again.
ReadSwitches == [t \in Taps |-> IF t \in unread THEN control[t] ELSE cfg[t]]

MicTimer ==
    /\ running
    /\ cfg' = ReadSwitches /\ UNCHANGED graph
    /\ unread' = {} /\ missed' = missed \ unread
    /\ SyncTaps

\* A callback of the registry or of the default-devices metadata.
GraphChanges ==
    /\ running /\ spent.graph < MaxGraph /\ UNCHANGED <<cfg, unread, missed>>
    /\ \/ \E d \in Devices \ plugged : plugged' = plugged \union {d} /\ UNCHANGED <<default, apps>>
       \/ \E d \in plugged : plugged' = plugged \ {d} /\ UNCHANGED <<default, apps>>
       \/ \E d \in (Devices \union {None}) \ {default} :
             default' = d /\ UNCHANGED <<plugged, apps>>
       \/ apps' = ~apps /\ UNCHANGED <<plugged, default>>
    /\ SyncTaps

\* The stream reports an error, on the thread that runs its callbacks.
StreamFails(t) ==
    /\ running /\ Active(t) /\ ~tap[t].failed /\ spent.failures < MaxFailures
    /\ tap' = [tap EXCEPT ![t].failed = TRUE]
    /\ spent' = [spent EXCEPT !.failures = @ + 1]
    /\ UNCHANGED <<control, request, file, graph, cfg, backoff, mic_announced, rows, begun,
                   shown, ends, unread, missed, mic_phase>>

\* MIC_RETRY has passed.
BackoffEnds(t) ==
    /\ running /\ backoff[t]
    /\ backoff' = [backoff EXCEPT ![t] = FALSE]
    /\ UNCHANGED <<control, request, file, graph, cfg, tap, mic_announced, rows, begun,
                   shown, ends, unread, missed, mic_phase, spent>>

\* The loop is left: both taps are stopped and the flags cleared, unannounced.
Leave ==
    /\ running /\ mic_phase' = "left"
    /\ ends' = ends \union Stopped({t \in Taps : Active(t)})
    /\ tap' = [t \in Taps |-> Closed]
    /\ UNCHANGED <<control, request, file, graph, cfg, backoff, mic_announced, rows, begun,
                   shown, unread, missed, spent>>

\* The inference thread reads the end of a session and closes its row.
EndRow(s) ==
    /\ s \in ends
    /\ ends' = ends \ {s} /\ rows' = rows \ {s}
    /\ UNCHANGED <<control, request, file, graph, cfg, tap, backoff, mic_announced, begun,
                   shown, unread, missed, mic_phase, spent>>

------------------------------------------------------------------------------
(* mic.set and room.set; the source row mirrors the switch and is left out. *)

\* set_mic and set_room, after room_set's check that the tap would have a device.
Set(r, t, switch) ==
    /\ request[r] = Ready /\ spent.requests < MaxRequests
    /\ t = "mic" => switch.device = MicPin
    /\ t = "room" => ~(switch.enabled /\ switch.device = None)
    /\ control' = [control EXCEPT ![t] = switch]
    /\ request' = [request EXCEPT ![r] = [at |-> "set", tap |-> t, switch |-> switch]]
    /\ unread' = unread \union {t}
    /\ spent' = [spent EXCEPT !.requests = @ + 1]
    /\ UNCHANGED <<file, graph, loop, shown, ends, mic_phase>>

\* The whole file is read.
Load(r) ==
    /\ request[r].at = "set"
    /\ request' = [request EXCEPT ![r] = [at |-> "loaded", tap |-> @.tap,
                       save |-> [file EXCEPT ![request[r].tap] = request[r].switch]]]
    /\ UNCHANGED <<control, file, graph, loop, shown, ends, unread, mic_phase, spent>>

\* ... and written back with one switch changed.
Save(r) ==
    /\ request[r].at = "loaded"
    /\ file' = request[r].save
    /\ request' = [request EXCEPT ![r] = [at |-> "saved", tap |-> @.tap]]
    /\ UNCHANGED <<control, graph, loop, shown, ends, unread, mic_phase, spent>>

\* mic_json or room_json for the tap's own event; announce_status then has both.
ReadState(r) ==
    /\ request[r].at \in {"saved", "told"}
    /\ LET ts == IF request[r].at = "saved" THEN {request[r].tap} ELSE Taps IN
       request' = [request EXCEPT ![r] =
           [at |-> "read", last |-> @.at = "told",
            states |-> [t \in ts |-> State(t, control[t], Active(t))]]]
    /\ UNCHANGED <<control, file, graph, loop, shown, ends, unread, mic_phase, spent>>

Publish(r) ==
    /\ request[r].at = "read"
    /\ shown' = request[r].states @@ shown
    /\ request' = [request EXCEPT ![r] = IF @.last THEN Ready ELSE [at |-> "told"]]
    /\ UNCHANGED <<control, file, graph, loop, ends, unread, mic_phase, spent>>

Carry(r) == Load(r) \/ Save(r) \/ ReadState(r) \/ Publish(r)

Handle(r) == Carry(r) \/ \E t \in Taps, switch \in Switches : Set(r, t, switch)

------------------------------------------------------------------------------
MicNext ==
    \/ Start \/ MicTimer \/ GraphChanges \/ Leave
    \/ \E t \in Taps : StreamFails(t) \/ BackoffEnds(t)
    \/ \E s \in ends : EndRow(s)
    \/ \E r \in Requests : Handle(r)

(* The loop starts, its timer is armed for the life of it, MIC_RETRY passes, and a request
   that was taken on is handled to its end. *)
Fairness ==
    /\ WF_mic_vars(Start) /\ WF_mic_vars(MicTimer)
    /\ \A t \in Taps : WF_mic_vars(BackoffEnds(t))
    /\ \A r \in Requests : WF_mic_vars(Carry(r))

MicSpec == MicInit /\ [][MicNext]_mic_vars /\ Fairness

------------------------------------------------------------------------------
(* A session row that is open belongs to a tap that is open on it, or its end is on
   its way to the inference thread: no way of closing, reopening, failing or leaving
   loses one (capture.rs stop_mic, attach_mic, run's last lines). *)
NoMicSessionDangles ==
    \A s \in rows : s \in ends \/ (Active(s.tap) /\ tap[s.tap].session = s.session)

(* A session is not held open without grounds: when the switch is off, the pinned
   device gone or the stream failed, it is soon closed, however requests, the timer
   and the graph's callbacks fall, unless those grounds pass before it is
   (capture.rs rules 1 and 5 of mic_plan, and the 250 ms timer). A switch missed at
   start-up is set apart until it is set again. *)
Groundless(t) ==
    /\ Active(t)
    /\ \/ ~control[t].enabled /\ t \notin missed
       \/ tap[t].failed
       \/ cfg[t].device # None /\ cfg[t].device \notin plugged

NoTapIsHeldGroundless == \A t \in Taps : Groundless(t) ~> ~Groundless(t)

(* A tap that is wanted and whose device is there is opened in the end, whatever
   failed or was unplugged before: the back-off never outlives its reason
   (capture.rs sync_mic, retry_after). A switch missed at start-up is set apart. *)
ShouldBeOpen(t) ==
    /\ running /\ t \notin missed /\ control[t].enabled /\ (control[t].mode = "always" \/ apps)
    /\ IF control[t].device = None THEN t = "mic" ELSE control[t].device \in plugged

WantedTapsOpen ==
    \A t \in Taps : ShouldBeOpen(t) ~> (Active(t) \/ ~ShouldBeOpen(t))

(* What a client was told last comes to be what is so: "a client that missed a `mic`
   event still converges on the truth", gui/src/renderer/lib/store.js:1310. *)
ClientsSeeTheMicrophone ==
    []<>(mic_phase = "left" \/ \A t \in Taps : shown[t] = State(t, control[t], Active(t)))
=============================================================================
