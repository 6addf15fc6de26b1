# NX Recall: TLA+ models and proofs

NX Recall is a local recorder of what is said: a Rust daemon (`recalld`) captures
the audio of the applications a user has allowed, cuts it into turns of speech,
stores each turn as a WAV clip and a row in SQLite, and serves the result to a
desktop application, a VR overlay and a voice assistant over a Unix socket.

This directory models the parts where order, failure and concurrency decide
whether the program is right: the path from a PipeWire node to a row in the
store, the microphone taps and the per-user streams that feed it, the sweep that
takes clips and rows away again, what a background worker infers from the rows
while they change, and the stream of events from which a client keeps its screen
true.  It says what has been checked of them and what has been proved.  Most of
the program by size is something else, queries, neural models, languages,
parsing, drawing, and is outside a model of states and steps: see section 7.
File names below are relative to `crates/recalld/src/` unless they say otherwise.

    PipeWire thread                    inference thread               store
    ---------------                    ----------------               -----
    on_node, on_node_removed,    +--> EventQueue --> on_audio   -->  clips, rows
    250 ms timer  (CaptureTaps)  |    (EventQueue)   on_gap,         (CapturePipeline)
         ^   audio callback -----+         ^         on_session_end
         |                                 |         (TurnSegmentation,
    rules, flap tracker,              per-user       CapturePipeline)
    microphone taps (MicTap)          Discord ingest       ^    |
         ^                            (PerUserAudio)       |    +--> threads, promises,
         |                                                 |    |    enrichment worker
    socket threads: sources.set, mic.set ... pause, resume-+    |    (MemoryGraph)
                                                                +--> sweep, resplit
    bus --> outbox --> client --> screen (EventStream)               (Retention)


## 1. The system

### 1.1 Threads and the state they share

| thread | owns | shares |
|---|---|---|
| PipeWire loop (`capture.rs`) | `Shared`: nodes, captures, flap tracker, copy of the rules, microphone and room taps | pushes to the queue; writes session rows through the store's mutex; reads `Control` |
| inference (`pipeline.rs`) | one `SessionPipeline` per session: VAD state, segmenter, merger, audio ring, clock anchor, sequence number | pops the queue; writes clips; writes rows through the store's mutex; reads the pause flag |
| one reader and one writer per socket client (`server.rs`, `service.rs`) | the request in hand, the outbox | `Control` (rules, pause, settings), the store, the bus, the configuration file |
| Discord ingest and its janitor (`peruser.rs`, `truthnet.rs`) | nothing of their own | the stream table, the queue, the store |
| workers (`enrich.rs`, `digest.rs`, `translate.rs`, `night.rs` and others) | their batch | the store, gated by queue depth and switches in `Control` |
| sweeper (`retention.rs`) | nothing | the store and the clips on disk |
| main (`main.rs`) | the order of start and stop | all of the above |

### 1.2 Components

What each part keeps, what it does, what is hard about it, and what would make
it correct.  The last column says where that is checked; `PROJECT.json` lists
every component with its source files.

| component | state | operations | what is hard | correct when | here |
|---|---|---|---|---|---|
| hand-off queue (`queue.rs`) | deque, running total, closed flag, drop counters | `push` with its eviction loop, `pop`, `pop_timeout`, `close` | eviction from the middle of a deque that also holds control events; a buffer larger than the budget; close against a backlog | events keep their order; only superseded audio is lost; the backlog is bounded; close drains | EventQueue, LossyFifo, proofs |
| application taps (`capture.rs`), flap tracker (`flap.rs`), rules (`allowlist.rs`, `control.rs`), `sources.set` (`service.rs`) | nodes, captures, pending flaps, two copies of the rules, session rows | node appears, resumes, fails to resume, attaches, leaves, flaps; rules applied; flaps expired; a rule set | the flap tracker delays every decision; one slot per application; rules arrive from other threads | one stream per session; a session that is fed is open; it keeps its source; nothing denied is captured; no session is forgotten | CaptureTaps, proofs |
| turn segmentation (`vad.rs`, `turns.rs`, the ring and anchor of `pipeline.rs`) | segmenter, pending turn, ring and its base, sample counter, anchor | frame scored, segment closed or cut, turn joined or released, hole noticed, flap absorbed, turn written, ring trimmed | three counters that must agree; turns cut at a cap; holes and flaps in mid-turn; failures in mid-buffer | a row holds one unbroken stretch of audio, in order, once, and its times are right | TurnSegmentation, proofs |
| capture pipeline (`pipeline.rs`, `control.rs`, `main.rs`, `store.rs`) | queue, session entries, turns in hand, clips, rows, pause flag, life of the daemon | audio, session end, pause, mute, clip written, row inserted, failures, stop, kill, start | pause against a write under way; death between clip and row; the order of the stop | every row has its clip; speech is in one place until given up; paused means no writes; ends reach the store | CapturePipeline, proofs |
| microphone and room taps (`capture.rs`, `room.rs`, `mic.set` and `room.set` of `service.rs`) | switches, open stream, back-off, announced state, file, graph | `mic_plan`, `sync_taps`: open, hold, reopen, close, retry; a request's set, save and announcement | device, switch and followed application change independently; retry against all three; two threads announce | no session row is lost; no tap is held without grounds; a wanted one opens | MicTap, proofs |
| per-user Discord audio (`peruser.rs`, `truthnet.rs`, the janitor and the stop of `main.rs`) | stream table, frames in hand, janitor's ends, queue | `ingest`, `sweep`, `close_all`, stop, `on_audio` | the table's lock is dropped before the queue is pushed; frames lost and resent | no splice over a lost frame; no session left open | PerUserAudio, proofs |
| event bus and socket (`bus.rs`, `server.rs`), reconnecting client (`gui/src/main/client.js`), reload of the renderer (`gui/src/renderer/lib/store.js`) | sequence number, replay ring, outbox; the client's position and its queue of live events; facts on screen, reloads under way | publish, publish without replay, subscribe, `events.since`, disconnect; connect, catch up, resync, reload, retry | a daemon that restarts; an outbox that fills during catch-up; live events during a replay; a reload that fails | the position never claims what is not shown; nothing is skipped; the screen settles on the database | EventStream, proofs |
| conversation threads (`threads.rs`), promises (`commitment.rs`), enrichment (`enrich.rs`) | conversations, promises, voices; the worker's batch and the lines it took | store a turn, decide, delete, delete a person, purge, pause; gather, judge, commit | rows change between gather and commit; a commit that fails part of the way; the gates between items | a person's decision stands; a removed voice stays removed; only what was read is dropped; shown lines keep their conversation; nothing waits for ever | ConversationThreads, MemoryGraph, DeletedPeople, proofs |
| retention (`retention.rs`), splitting a stored turn (`turnsplit.rs`) | rows, clips, the sweep's stage and list, the operations log | hide, purge, age out, reconcile; resplit and undo by another process | rows purged before files, files written before rows; another process without the lock | no clip a row names is taken; what is deleted is gone | Retention, proofs |
| configuration (`config.rs`, `service.rs`) | the file, the live settings | load, edit, save, from concurrent requests | two requests interleave load and save | the file ends up with every switch that was acknowledged | the steps are in MicTap; see 3.3 |
| backup and restore (`backup.rs`) | data directory, staging copy | stage, verify, move aside, rename in | a crash between two renames | some complete directory exists | see 7.2 |
| SQLite store (`store.rs`) | tables | single transactions | migrations | | the rows the modelled parts write are state of their modules |
| other idle workers, analysis, identity, languages, captions, search, export, models, clocks, overlay, desktop views, voice assistant | | | numbers from neural models, queries, drawing | | not modelled: see section 7 |


## 2. The modules

| module | models | extends / uses |
|---|---|---|
| `LossyFifo` | what the queue promises its users | |
| `EventQueue` | the queue as written | refines `LossyFifo` (`INSTANCE ... WITH`) |
| `EventQueueProofs` | its invariants, the bound and the refinement, proved | `EventQueue` |
| `CaptureTaps` | application taps, flaps, rules, `sources.set` | |
| `CaptureTapsProofs` | its invariants, proved, and those of the microphone taps | `CaptureTaps`, `MicTap` |
| `TurnSegmentation` | from samples to rows, one session | |
| `TurnSegmentationProofs` | its six invariants, proved | `TurnSegmentation` |
| `CapturePipeline` | capture, queue, inference, pause, store, life of the daemon, composed | |
| `CapturePipelineProofs` | its five invariants, proved | `CapturePipeline` |
| `MicTap` | the microphone and room taps, their switches, their requests | |
| `PerUserAudio` | per-user Discord streams, the janitor, the stop | |
| `PerUserAudioProofs` | its two invariants, proved | `PerUserAudio` |
| `EventStream` | from the bus to the screen, one client | |
| `EventStreamProofs` | its two invariants, proved | `EventStream` |
| `ConversationThreads` | the rule that places a turn in a conversation, as operators over the rows | |
| `MemoryGraph` | transcript, conversations, promises, people, and the enrichment worker | extends `ConversationThreads` |
| `MemoryGraphProofs` | its safety properties, and what the worker reads, proved | `MemoryGraph` |
| `DeletedPeople` | `MemoryGraph` with the deleted people remembered | `MemoryGraph` |
| `Retention` | rows and clips, the sweep, the writer, `resplit` | |
| `RetentionProofs` | that named clips are on disk, proved | `Retention` |
| `MC*` | the small instances TLC checks | |

Names follow the source: `captures`, `pending`, `applied_rules`, `ring_base`,
`voiced_start` are the fields they are named after, and an action has the name
of the handler, or of the branch of it, that it stands for.  A definition whose
name ends in `_Mutant` is a deliberate mistake kept beside the definition it
spoils: each property is known to fail when one of them takes the place of the
real definition, and no specification uses them.

### 2.1 EventQueue and LossyFifo

One mutex guards the deque, so a call is one step, except that `push` appends
and then runs a loop: `Enqueue` takes the lock (`pushing`), each turn of the
loop is an `EvictOldest`, and `PushDone` releases it.  `Pop` stands for `pop`
and for the successful half of `pop_timeout`; a timeout changes nothing and is
not a step; `PopClosed` is the answer that ends the consumer.  `accepted`,
`delivered` and `evicted` are history, and each event carries the ticket of its
acceptance so that order and conservation can be stated.

`LossyFifo` has no deque, budget, lock or loop: a backlog from which the event
accepted first is given out and from which only an audio buffer with a newer one
behind it, the oldest first, may be lost.

### 2.2 CaptureTaps

Everything the PipeWire loop calls runs on one thread and is one action per
outcome.  `on_node` is `OnNodeUnrecorded` (the source row could not be written),
`OnNodeResumed` and `OnNodeResumeFailed` (the flap tracker answered `Same`),
`OnNodeNotCaptured` and `OnNodeAttached` (it answered `Fresh`); `on_node_removed`
is `OnUncapturedRemoved`, `OnCapturedFlaps` and `OnCapturedGone`.  The 250 ms
timer is one action, `Timer`: a changed generation is applied (detach what is
denied, attach what is newly allowed, with any of the inserts or streams
failing), then flaps past the window are closed.  `Tick` ages the pending flaps
one step past the grace window at most, which is all `on_reappear` and `expire`
can tell apart, and lets the timer be late by any amount.  `LoadRules` and
`ArmTimer` are the two moments of start-up at which rules and generation are
read.  `sources.set` runs on a socket thread and is five steps: called, rule
inserted, generation bumped, row read back, event published.  The pipeline
appears as `PipelineEndsSession`, which may close the row of a session whose end
was queued, at any time.

### 2.3 TurnSegmentation

One session, sample by sample.  `now` is the capture clock in samples; a hole is
the clock moving with no sample to show for it, and the ring remembers when each
sample it keeps was captured, so that a row's claim about its audio can be
compared with the audio.  A buffer arrives (`Buffer`, with `maybe_reanchor`), its
frames are scored one by one (`FrameWhenIdle`, `FrameInSpeech`, `FrameAtCap`,
`FrameCloses`: the four outcomes of `push_frame`, each followed by `poll`), the
turns released are written one by one (`WriteTurn`, `WriteFails`), the ring is
trimmed (`Trim`).  `AbsorbFlap` is `on_gap`; `FrameFails` is the `?` after the
neural model.  The model is a free choice for each frame.

### 2.4 CapturePipeline

The composition: capture threads open sessions, push buffers and ends; the
inference thread handles one event at a time, and every point at which another
thread could see or change something is a state of its own: the pause is read
when a buffer is popped and again before each turn is written, the clip is
written before the row, the row before the announcement, the session's entry is
removed before its row is closed.  A write may fail at either statement, the
process may die in any state, and the next start closes the rows left open.  A
stop is the order of `main`: `StopCapture` ends the applications' streams,
`StopMic` queues the end of each microphone's session, `CloseQueue` follows when
none is left, `Drained` and `FlushSession` are the inference thread's last work.
Where the turns of a buffer begin and end is a free choice here
(`Segmented` offers every split and join the segmenter and merger could make);
the queue is `EventQueue` with one step per call and every buffer of the same
length.

### 2.5 MicTap

Every callback of the capture loop ends in `sync_taps`, so a callback is one
action: it changes the graph or reads the switches (`MicTimer`), and `SyncTaps` does
what `Plan` (`mic_plan`) says for each tap over the graph as it is then.  `tries`
are the taps that open or reopen and neither wait out the back-off nor lack their
device; any of them may fail to attach.  A stream that fails later sets a flag
from another thread (`StreamFails`).  A request is five steps, `Set`, `Load`,
`Save`, `ReadState`, `Publish`, the last two twice, because the request announces
its own event and then the status.  `rows`, `ends` and `begun` are the session
rows, the ends in the queue and the count of sessions.
The switches are read by generation: `unread` has the taps whose generation is ahead
of the one the loop compares with, and `MicTimer` copies those.  `run` copies the
switches before it reads the generations, and the socket is already served: a switch
set between the two (before `Start`) counts as applied.  `missed`, a history variable,
has these; see 3.3.
A name `CaptureTaps` has too begins with `Mic` or `mic_` here: one module of proofs
extends both.

### 2.6 PerUserAudio

A request thread takes a frame (`Accept`), places it under the table's lock
(`Place`) and queues it after letting go (`QueueFrame`).  The plugin's sequence
number is the tick a frame began at, so a hole in one is a hole in the other; a
frame may be lost (a tick without a post) or posted again.  `Sweep` and `CloseAll`
take sessions from the table under the lock and `QueueEnd` queues their ends
afterwards.  `Stop` is the order of the daemon's last lines, `Extended` is what
`maybe_reanchor` makes of a frame that is not where the clock expects it.  The code
notices a skew above 100 ms only.  The model leaves that tolerance out because a tick
is a frame, and a frame is 500 ms (`docs/PROTOCOL.md`, "Measured sizes"): one that is
lost, repeated or out of order is out by more.  The daemon does not enforce that
length; frames of 100 ms or less could be joined over a lost one.

### 2.7 EventStream

The daemon publishes facts (stored, kept in the ring) and moments (neither).  A
connection has a queue of requests, one reply in hand and a bounded outbox; the
reply goes behind whatever was published while it was made, which is the race of
the whole protocol.  `status` is where `_onConnect` is.  The client's position
(`last_seq`), its queue of live events and the welcome are the fields of
`client.js`; `view` is the set of facts on screen, and `load` the reloads of
`reloadAll` (that of a resync and that of the retry timer may overlap).  `lost`
is history: the facts that a reload overtook, or that the replay of another run of
the daemon passed over.  Both are disagreements described in 3.3, and naming them
keeps the properties about everything else.  `Beyond` (the ring's filter) and
`Apply` (a replay applied event by event) are recursive functions rather than
operators or folds, so that the proofs can use them.

### 2.8 ConversationThreads, MemoryGraph and DeletedPeople

`Place` is `threads::place` over what `open_threads` reads from the rows, so that a
hidden line counts for nothing and a conversation's recent voices are recomputed
at every turn, as the code does.  In `MemoryGraph` an action is one hold of the
store's lock.  The worker is a small record: idle, in a batch with the
conversations left, or judging with the lines it took.  What the model says of a
window is a free choice among what the code would accept (`Verdicts`): nothing
asked, nothing found, or a promise by one of the voices in it.  `Commit` files the
promises one by one (`FileOne`), stops at the first the foreign keys refuse, drops
the guesses the model refused, and marks the conversation.  The list a query
returns is chosen by the order it asks for (`NewestFirst`, `LinesOf`) rather than
sorted, and `FileFound` is a recursive function over the windows, so that the proofs
can use them.  `DeletedPeople` conjoins a history
variable, the people deleted with their voiceprint kept and not heard since.

### 2.9 Retention

The sweep holds the store's lock from its first statement to its last, so the
inference thread's statements wait (`Unlocked`), but its writes of files do not,
and the resplit command, a process of its own, waits for nothing.  Each stage of
`sweep_at` takes rows from the database and a list of clips (`doomed`), and
unlinks them one by one before the next stage begins, with room for a crash or a
refusal between any two.  `settled` are the files older than the cutoff, which is
what keeps the reconciliation from a clip that is about to get its row.  `cuts` is
the operations log: a cut records the path the row had, which is none if a sweep took
its audio while the command was at work, and `Undo` gives the row that path back.

## 3. Runs

Twelve runs.  Each is `tlc -config <cfg> <module>`; times are for two workers.
Deadlock is not checked anywhere: every modelled system may rightly stop (a
queue closed and drained, a daemon stopped, bounded inputs used up).  That
nothing gets stuck earlier is said by the liveness properties instead.  Every
module has a type invariant, `TypeOK`; it is checked with the others while a module
changes and left out of the runs kept here.

### 3.1 Runs that hold

**event_queue** (`EventQueue.cfg`, 41,000 states, 10 s).  Budget 3, buffers of 1
and of 4 samples, five events of any kind in any order, close at any moment.  Five
events are enough for a control event to stand in front of, between and behind
buffers that are evicted; the large buffer exceeds the budget alone, so that the
loop's stop at the last buffer is reached; several evictions can follow one
push.  One session is enough because the queue never looks at it.  It shows that
events leave in the order they came (`FirstInFirstOut`), that no session end or
gap is evicted (`ControlNeverEvicted`), that a buffer goes only once a newer one
is there (`NewestAudioKept`), that outside `push` the backlog is within the budget
or a single buffer (`BoundedBacklog`), that all this is the abstract lossy FIFO
(`IsLossyFifo`), and that control events are delivered and a closed queue drains
before its consumer stops (`ControlDelivered`, `CloseDrains`).

**capture** (`CaptureTaps.cfg`, 458,000 states, 55 s).  Three nodes: two streams
of one application, which share the flap tracker's slot, and one of another
application whose pid is unknown (it matches by key alone).  Three sessions, so a
second one can follow a first for one key while the other key has its own; they
are interchangeable, and the run uses that symmetry (no liveness is checked in
it).  Grace 0 (tolerance off) and 1 tick, which with "one past the window" gives
every answer `on_reappear` and `expire` can give.  One rule change by one client:
every callback can fall before, between and after its five steps.  It shows that
no session is fed by two streams (`OneFeedPerSession`), none is fed or may resume
after its end was queued or its row closed (`FedSessionsAreOpen`), none changes
source (`SessionsKeepTheirSource`), none is begun for a key that is not allowed
(`SessionsBeginOnlyIfAllowed`), that with tolerance off nothing denied is
captured and nothing is forgotten (`StrictWithoutFlaps`), and that until a rule
is set a client's capturing light is right for a source with one stream
(`CapturingLightTrue`).

**turns** (`TurnSegmentation.cfg`, 8.8 M states, 100 s).  Time in samples and
thresholds in the proportions of the defaults (frames of 2, `min_speech` 2,
`min_silence` 3, pad 1, cap 8, merge gap 6, noticed skew 1).  Buffers of 1 and 3,
so that frames straddle buffers and a rest stays behind; holes of 1 and 3, of which
the anchor notices the second at once and the first when it adds up; flaps of 1 and
3, on both sides of `min_silence`; thirteen samples in all: room for two segments that join, for a turn cut at the cap and continued,
and for a hole or a flap before, in and after a turn, with any write and any
score failing.  It shows that ring and counters stay in step (`RingAligned`), that
trimming keeps what an open turn needs (`OpenAudioIsKept`), that no row joins audio
from the two sides of a hole (`NoSplice`: what is lost between two neighbouring
samples is less than the skew that is noticed, or a short flap with that much on
either side of it; a hole such a flap hides is set apart, see 3.3), that rows are in order and share no voiced sample (`TurnsInOrder`), stay
under the cap (`TurnsAreCapped`) and lose no speech but what the code gives up on
purpose (`SpeechIsKept`).

**pipeline** (`CapturePipeline.cfg`, 518,000 states, 170 s).  An application whose
mixed tap may be muted and a microphone; a queue of one buffer, so every second
buffer of a burst evicts; three buffers, enough for a turn that is joined over
two of them while the third is evicted, muted or paused away; one write failure;
a second run of the daemon after a kill or a stop.  (Without the liveness
property, four buffers through a queue of two pass as well, 4.1 M states.)  It
shows that every row has its clip and no two rows share one
(`RowsHaveTheirClips`), that every buffer is queued, held, in hand or stored and
never two of these until something gives it up (`SpeechIsInOnePlace`), that no
row contains audio from both sides of a buffer that was given up
(`RowsAreOneStretch`), that a pause lets through at most the one turn that had
already passed the check (`PauseStopsWriting`), that a clean stop leaves no
microphone row open (`MicRowsClosedAtStop`), and that ends reach the store and a
stop comes to an end (`EndsReachTheStore`).

**event_stream** (`EventStream.cfg`, 497,000 states, 50 s).  Two events, of facts or
of moments, in each of two runs of the daemon; a ring of one and an outbox of
two lines; one request that fails, times out or is sent too early.  A ring of
one makes every second fact fall out of it, an outbox of two is full as soon as
an event is published behind a reply, and with two runs of two events each the
new daemon can be behind, at, or past the position the client remembers, which are the three
cases `events_since` and the client tell apart.  It shows that the client's
position never claims a fact that is neither on screen nor on its way
(`PositionIsHonest`), that a client which has caught up gets every later fact, in order, or
is cut off (`NothingIsSkipped`), and that when the daemon falls silent the screen settles on
what the database has (`ViewSettles`).  Facts that a reload overtook or another
run's replay passed over are set apart (3.3).

**memory_graph** (`MemoryGraph.cfg`, 153,000 states, 40 s).  A session with three
turns of two voices or of nobody known, in conversations divided by any silence;
windows of two lines that share one, so that the middle line is read twice, once
with each neighbour; one conversation in a batch, and one judgement that fails or
gate that closes.  Three turns make a conversation with one line deleted while
two are judged; a second conversation can wait behind the first.  It shows that
the worker never overrules a person (`PersonDecides`), that a voice deleted with
its voiceprint is named by no promise (`RemovedVoicesAreGone`), that a guess is
dropped only if the model read it (`RefusalsWereRead`), and that every conversation
is walked if pauses do not go on for ever (`EveryConversationIsWalked`).

**per_user** (`PerUserAudio.cfg`, 318,000 states, 35 s).  One person's stream, two
request threads, one frame posted twice, four ticks with an idle window of one:
the stream can go quiet, be closed and be heard again in a second session.
Streams do not touch each other's entries, and the theorems of section 6 hold for any number.  It shows
that no two frames that were apart in the call are joined
(`NoSpliceOverALostFrame`), that a stop leaves open only a session that a request
opened after the janitor's last look (`OnlyLateSessionsStayOpen`), and that a quiet
stream's session is ended (`QuietStreamsEnd`).

**mic_tap** (`MicTap.cfg`, 308,000 states, 150 s).  Both taps, one device that may be
pinned or be the default, and the application a tap may follow; requests set
switches, two in all and one at a time; two changes of the graph; one attach or
stream that fails.  Two requests and two changes let a device leave and return,
a switch go off and on, and both at once around a back-off.  It shows that every
session is fed, ended or about to be ended (`NoMicSessionDangles`), that a
tap whose switch is off, whose stream failed or whose pinned device is gone is soon
closed (`NoTapIsHeldGroundless`), and that a tap that stays wanted and whose device stays
is opened (`WantedTapsOpen`); a switch set while the loop starts is set apart in the
last two, see 3.3.

**retention** (`Retention.cfg`, 606,000 states, 50 s).  Two turns, one of two people
that is cut once, and one crash or refused unlink.  A turn that is being written
while the other is cut and swept is the whole of the interplay: a file belongs to
one turn and the stages treat each by itself.  It shows that whatever a row names
is on disk (`NamedClipsAreOnDisk`) and that what is hidden, and whatever no row
names, is gone in the end (`DeletedIsErased`).

### 3.2 Runs that find a disagreement

Each checks one sentence of the repository against what the code does, on the
smallest instance that shows it; TLC's counterexample is the behaviour described.
They concern rare orders of events.

| run | the sentence | what the code does |
|---|---|---|
| deleted_person_is_owed | "A promise this voice made, and a promise anybody made *to* them, both stop existing" (`store.rs`) | the worker files what was judged on lines gathered before the delete; with the voiceprint kept the voice can still be referred to, so a promise to that person is filed after the delete |
| mic_shown_stale | "a client that missed a `mic` event still converges on the truth" (`gui/src/renderer/lib/store.js`) | `mic_set` reads the state and publishes it in two steps; the capture loop opens the tap and announces it in between, the older state is published last, and the loop has no reason to say it again |
| undo_without_clip | "Nothing is deleted", "not the original clip, which is what makes `--undo` work" (`docs/PROTOCOL.md`) | after a resplit no row names the original clip, so the reconciliation removes it as an orphan once it has settled; an undo then names a file that is gone |

### 3.3 Disagreements without a run

These were met while the modules were written.  Some are set apart by name in a
property that would otherwise not hold; the others lie outside what a property
says, or are plain from the lines.

Set apart in a property:

- A source denied while its stream is away inside the grace window is captured
  again when it returns: `on_node` resumes (`capture.rs`, line 640) before it asks
  the rules, and `apply_rules` does not look at pending flaps.  `docs/DESIGN.md`
  asks for "Default-deny capture".  `SessionsBeginOnlyIfAllowed` is about sessions
  that begin, `StrictWithoutFlaps` about tolerance switched off.
- A node that returns after the window but before the next 250 ms sweep uses up
  the slot (`flap.rs`, line 168), and the old session gets no end; nor does the
  first session when a second stream of the same application leaves and
  `start_flap` overwrites its slot (line 130).  `docs/PROTOCOL.md` says the session
  "closes for real".
- The capturing light is wrong for a source with two streams of which one leaves,
  and for a while after `sources.set` publishes a state read from a row that
  trails the stream: `CapturingLightTrue` is stated where it holds.
- A short flap re-anchors the clock (`on_gap`) over a hole that has not been
  noticed yet, and the turn is spliced; its comment warns that a flap "must not
  become a second way to trigger that bug".  `NoSplice` sets such holes apart.
- `gui/src/main/client.js` sends `events.since` without `boot`, which
  `docs/PROTOCOL.md` says it "MUST" send.  If the new daemon's counter has passed
  the client's position, the client takes the tail of another run for the
  continuation of its own, without a reload.  A reload is the other case: its
  answers are assigned when the slowest query has settled, over an event applied
  meanwhile.  The variable `lost` of `EventStream` holds the facts concerned.

Outside the properties:

- `capture.rs` copies the rules and reads their generation later (line 2475); a rule
  set in between counts as applied and is not.  `control.rs` says "equal means
  there is nothing to do".  The microphones' switches are copied (lines 2314, 2323)
  before their generations are read (2476, 2477) in the same way, while the socket is
  served already: one set in between is not noticed until it is set again, so a
  microphone switched off then opens, or one switched on stays closed.  `MicTap` has
  the step (`Start`); `NoTapIsHeldGroundless` and `WantedTapsOpen` set such a switch
  apart (`missed`).
- The first turn after a discard is timed from its padded start though its audio
  is clamped to the ring (`pipeline.rs`, line 1613): its times are early by up to
  the padding.
- The merger releases the pending turn when the merge window passes even while
  the next segment is being spoken (`turns.rs`, `poll`), so two close segments may
  be two turns; `config.rs` says they "are stored as one turn".
- A pause lifted before the inference thread pops a buffer of the session is never
  seen by it, and a turn can span it (`pipeline.rs`, `on_audio`; the comment says
  "nothing said before the pause can be written by a segment that ends after
  it").  And the turn that has passed the check when a pause arrives is written,
  which is the one turn `PauseStopsWriting` allows.
- The enrichment worker commits what is in hand although capture was paused
  meanwhile; a commit is several statements, so one that fails leaves what it had
  filed; six windows of twelve lines that overlap by two cover 62 turns where the
  comment of `MAX_WINDOWS` says seventy; conversations that keep failing, being the
  newest, are taken first each time and hold up older ones; a conversation is
  never walked again though it may go on after it was.
- Ids of conversations and promises are used again after a prune, since the tables
  have no `AUTOINCREMENT`.
- Two requests that load, edit and save the configuration file interleave, and the
  later save drops the earlier change from the file though both stay live
  (`service.rs`, line 1418; `MicTap` has these steps).  `room_set` checks and then
  sets, so two requests can leave the room switched on without a device, which each
  alone would be refused; the plan then keeps it closed.
- Closing a tap resets its retry, so a stream that opens and fails at once is
  opened again at once.  A tap switched off may record for another 250 ms.
- An undo after the audio window has passed gives the row the path it had before the
  cut, of a clip that is gone, or no path if the row had lost its audio before the cut
  was recorded (`resplit_segment` looks at the row again but not at that), and takes
  its words away; they cannot be read again.  A turn cut a second time after an undo
  uses the same names for its pieces.
- A request thread of the per-user ingest is detached, so it may place a frame
  after the janitor's last look though the ingest is shut down first (`main.rs`,
  line 897: "so no frame can open a session the janitor has already closed").
  That is the exception in `OnlyLateSessionsStayOpen`; the row is closed at the next
  start.  A frame posted twice is analysed twice.
- `backup.rs` restores by two renames (line 543); a kill between them leaves the
  previous directory under its other name and none in place.

### 3.4 Properties and mistakes

Every property of a run that holds is shown to depend on the code: `PROJECT.json`
pairs it with a changed definition (a dropped guard, a missing reset, an order
swapped, an off-by-one) under which TLC finds it violated within the same
bounds.  Examples: keeping a flap's slot after it matched breaks
`OneFeedPerSession`; naming clips by their counter alone, which starts again after
a pause, breaks `RowsHaveTheirClips`; applying the live events ahead of the replay
breaks `PositionIsHonest`; unlinking files that are new to the reconciliation
breaks `NamedClipsAreOnDisk`; closing the queue without joining the janitor breaks
`OnlyLateSessionsStayOpen`.


## 4. Plan

### 4.1 What has been done, and in which order

The path every recording takes came first, from both ends inwards: the queue,
the taps that feed it, the segmentation that empties it, then their composition
with the pause switch, the store and the life of the daemon.  Then what else
feeds that path (the microphone, the per-user streams), what takes its rows away
(retention, resplit) or infers from them (threads, promises, enrichment), and
what shows them (the event stream).

### 4.2 Modules that could follow

The configuration file as a module of its own, with `sources.set`, `mic.set` and the
settings methods as its writers (their steps are in `CaptureTaps` and `MicTap`, the
file only in the latter); restore with a crash at every step; the other idle
workers as further instances of the loop in `MemoryGraph`, if one turns out to differ in
its gates.

### 4.3 Theorems that could follow

Every safety property of a run that holds has its theorem.  What could follow is
the abstract FIFO as what `CapturePipeline` uses of its queue, and the step from
`TapsHaveGrounds` (6.9) to what `NoTapIsHeldGroundless` says of the switch itself,
which is a matter of the timer's fairness.

## 5. Fairness

Safety is checked without fairness.  Where liveness is, only what a running
thread must do is assumed, never what a person or another program may do: nobody
has to speak, push, pause, resume, stop, close, decide or delete.

- `EventQueue`: weak fairness of `EvictOldest` and `PushDone`, because a producer
  inside `push` holds the mutex, never waits and therefore finishes its loop; of
  `Pop` and `PopClosed`, because the inference thread calls `pop_timeout` for ever
  until it is told that the queue is closed and empty.
- `CapturePipeline`: weak fairness of `Inference`, the same loop with all it does
  for one event (a failed write is one of its outcomes, so it is never assumed to
  succeed); of `Stopping`, because `main`, once capture has stopped, stops the
  microphones and closes the queue unconditionally.  A kill is always possible, and the properties say so.
- `EventStream`: weak fairness of the connection's reader and writer (`Handle`,
  `Answer`), which are loops; of the client's connecting and reading, which its
  socket's events drive, and of noticing that a connection is gone; of its timers
  (`RetryReload`) and of a reload whose answers have come (`FinishReload`).  Requests
  may fail or time out, a bounded number of times.
- `MemoryGraph`: weak fairness of the worker's loop, with the model reading nothing
  at all as the one answer that is always possible: the loop runs whatever
  the model says, and no answer is promised.
- `PerUserAudio`: weak fairness of `Sweep` and `QueueEnd`, the janitor's loop, and of
  the inference thread.  No request has to be handled.
- `MicTap`: weak fairness of `Start`, the rest of the loop's set-up, of `MicTimer`, which
  PipeWire's loop fires every 250 ms, of the back-off's end, which is a moment in time, and of a request's thread once it has
  begun (`Carry`).  That the device attaches is not assumed; failures are bounded.
- `Retention`: weak fairness of the sweep and of the resplit command once begun;
  strong fairness of the inference thread's statements and of the passing of time,
  because between two sweeps there is a minute at least in which the lock comes
  to whoever waits for it and files grow old, while in the middle of a sweep
  neither is enabled.


## 6. Proofs

`tlapm <module>Proofs.tla` checks each of the proof modules with no step left open:
`EventQueue` 1,339 obligations, `CaptureTaps` 1,757 (those of `MicTap` with them),
`TurnSegmentation` 2,140, `CapturePipeline` 2,291, `EventStream` 3,599,
`PerUserAudio` 557, `Retention` 529, `MemoryGraph` 1,874.

### 6.1 Assumptions

`QueueAssumption`: buffers have a positive length, the budget is positive, the
number of events is a natural number.  The capture side never pushes an empty
buffer and the budget is a constant of the configuration.  `TapsAssumption`: each
node has a key, graces are natural numbers, `NoSession` and `NoKey` are not
members, and nodes and keys are finitely many.  `SegmentationAssumption`: a frame
and a buffer have a positive length, thresholds are natural numbers, and the cap is
positive and no shorter than `min_speech`, as `SegmenterConfig::from_ms` makes it;
`NoTurnOutgrowsTheCap` alone also assumes that a frame (32 ms) is shorter than the
cap (30 s unless configured), because nothing in the code ensures it.  `MicTapAssumption`, `PerUserAssumption`
and `RetentionAssumption` say that bounds are natural numbers and that the lines
that can be cut are lines.  `PipelineAssumption`: microphones and mixed taps are
sessions and no session is both, sessions are finitely many, and the queue holds
at least one buffer; `NothingIsARecord` says that the two constants for "no entry" and
"no job" are none.  `StreamAssumption`: ring and outbox hold at least one line
(`Bus::new` raises a smaller setting to one), and the daemon runs at least
once.  `GraphAssumption`: bounds, the gap and the overlap of windows are natural
numbers; the number of recent speakers, the least length of a conversation, the
batch, the width and the number of windows are positive, as the configuration and
`judge` make them; and the constants for nobody and for a model that found or read
nothing are no voices.  `NothingIsSplit` also assumes that windows are wider than
what they share (`judge` raises the width to 4, two turns are shared).  Nothing is
assumed about how many sessions, nodes, keys, clients, requests, frames, turns,
voices or conversations there are.

### 6.2 EventQueue

The inductive invariant is `IInv` == typing, `FirstInFirstOut`, `NothingVanishes`
(each accepted event is queued, delivered or evicted),
`ControlNeverEvicted` and `NewestAudioKept`.  The last two are not inductive alone:
that the evicted event is a buffer and not the newest one follows from where it
stands, so the order of tickets along the deque is needed, and with it that every
accepted ticket is in exactly one place.  The lemmas about `RemoveAt` and about a
sequence seen as a set say once what an eviction from the middle leaves behind;
then one lemma for each action that moves events (`EnqueuePreserves`,
`EvictPreserves`, `PopPreserves`) and one for those that do not.

`ImplementsLossyFifo` is the refinement, by the three step lemmas: `Enqueue` is a
step of the abstract backlog, one turn of the loop loses the oldest buffer with
a newer one behind it (which needs `IInv`), `Pop` gives out the first; everything
else stutters.

### 6.3 CaptureTaps

`TapsInv` == typing, `CapturedOnGraph` (what is captured is on the graph),
`OnlyBegunRows` (what is open or ended was begun) and the three session facts
(`OneFeedPerSession`, `FedSessionsAreOpen`, `SessionsKeepTheirSource`).  They lean on
each other: a new session must be one nobody feeds, which holds because whatever
is fed is open, hence begun, hence not new; a resumed one must be fed by nobody
else, which holds because it waited; and the row stays with its source because
only a slot of the node's own key is ever resumed.  There is one lemma per action
that touches a session, one for typing, one for all that are quiet.

`BegunOnlyIfAllowed` follows from typing and the guards of the two places that
open a session.  `StrictWithoutFlapsHolds` needs the strengthening `StrictInv`:
with no tolerance nothing ever waits, and before the loop runs nothing is
captured, so that the copy of the rules made at start cannot be contradicted by
a capture that is already there.

### 6.4 TurnSegmentation

The four outcomes of a frame and the flush at the end are one kind of step
(`MergeStep`): a span may be offered to the merger, which may release the open turn
before it and after it (`Merged`).  That is shown once per action, and everything
else once for the step.  The invariant follows `mark`, the first sample no turn may
claim any more (the open segment's start, or the cursor).  `HeldFrom(mark)`: the
ring still reaches back a padding before it, or begins where a discard resumed;
from it a span that closes is `Fitting`, so its audio is there when it is
written, and trimming goes no further back than the open turn.  `Chain`: rows,
turns in hand and the open turn lie one after the other below `mark`; a joined turn
keeps its start, so nothing before it moves.  `SpokenInv` says which of them covers
each frame owed.  A row is not written only if its audio is empty, which a turn
that covers a frame never is (`FittingTurnsHaveAudio`).  For the seams, what was
lost since the ring's last sample is at most the drift the next stamp will show
(`LastSampleInv`), until a flap moves the anchor: then it is at most one unnoticed
hole and the flap, or the flap is in `hidden`.

### 6.5 CapturePipeline

`PipelineInv` has a part for each thing a buffer passes.  The queue keeps the order
of capture within a session (`Ordered`) and never holds more than its capacity
(`Fits`).  A session's half-built turns (`GoodEntry`) are two stretches with nothing
between them and nothing missing, which end with the last buffer received, and
whatever is still queued is newer; this is what an eviction, a mute or a pause
would break if the entry survived it, and `Received` shows that it does not.
The turns in hand are disjoint stretches of one session (`GoodTurns`), and where
`write_piece` stands says what of the head turn is already there: its clip before
the row, its row before the announcement.

`PlaceInv` says that what was captured is queued, held, in hand, stored or given
up, and in one of these only.  It is what makes the names of clips work: a clip is
named by the session, the sequence number and the first buffer, and the sequence
number starts again with the entry; two rows of one name would begin with one
buffer, which has one place only.  `CutOut`, `PushAudio`, `ReceivedFacts` and
`SegmentedFacts` say for the operators what each leaves of its buffers; then every
step moves a set from one place to the next (one lemma per action).

For the stop, each stage has emptied the one before (`StopInv`): no stream is live
once the queue is closed, none is queued once the flush begins, and a session with
something held is among those to flush.  `MicInv`: an open microphone row has a
live stream, an end in the queue or an end in hand, until a write fails or the
process is killed.  `PauseInv`: after a pause one clip may be written, by the turn
that had passed the check, and then none is about to be.

### 6.6 BoundedBacklog and CapturingLightTrue

`queued_samples` is the field the code keeps; `SamplesIn` is the sum over the deque.
`BacklogInv` says that they agree, that a control event weighs nothing, and the
bound.  The sum is a recursive function, and without induction theorems its laws
come from its definition: the function it chooses exists because there is no least
index at which a table of sums could not be continued (`LeastExists`,
`TotalsExist`), and a sum with one item cut out is given by shifting the table
(`SamplesWithout`).  At the end of the loop nothing can be evicted, so either the
sum fits or the deque has at most one buffer, which is then all the sum there is.

`LightInv`: until a rule is set, no request is past its call, and the light of a
node that is `Alone` with its key is right.  That a second node of the key exists
is what makes it wrong, and the slot of the flap tracker, keyed by the source, is
what the proof follows: a lone node's flap is its own (`SlotIsFreed`).

### 6.7 EventStream

`IInv` == typing, `CoreInv`, `LoadInv`, `HonestInv`.

`CoreInv` says what is where.  `BusInv`: the ring is the end of what this run has
stored, with nothing missing after its first event, so that a position not before
it can be served in full.  `NumberInv`: nobody holds a number that was not given
out, and no welcome is of an earlier run than the position.  `StreamInv`: numbers go
up along the client's queue and then the outbox.  `LinkInv`: what may be on its way
at each stage of connecting; no live event before the subscription, no replay
unless one was asked for.  `ReplayInv` is the heart: a replay and what streams in
behind it leave nothing out (`Covers`), because the reply is made and queued in two
steps and whatever is published between goes ahead of it.

`LoadInv`: a reload is one token, a request, an answer or a failure, and only while
it waits (`OneToken`).  `HonestInv` is about `Missing`: the facts that the position
claims, or that a live client has not been cut off from (`Expected`), which are
neither on screen nor on their way (`Coming`).  If there are any, a retry is due or
some reload is `Owed`: under way, and its answer, given or to come, has them all.  An
answer is a snapshot of the database, so it has every fact published before it;
one published later is on its way, and is not missing.  `PositionIsHonest` and
`NothingIsSkipped` follow from `HonestInv` and `StreamInv`.

Steps that only take something away (a line lost to a hang-up, an answer that is
dropped) are one lemma (`QuietStep`).  The others have one lemma each:
`PublishStep` puts a fact at the end of ring and stream or cuts the client off;
`HandleStep` makes a replay that covers, from `BusInv`; `StartOverStep` is a resync,
where the position jumps to the welcome and a reload is begun for what it jumps
over; `ReplayStep` applies the replay and then the queue; `EventStep` moves the
position one event; `HangupStep` loses the stream, and a reload of the connection
with it, but not the retry.

`Apply` and `Beyond` are recursive functions, handled as above: `LoopExists` builds the
table of a loop's values from its step function, `StepByStep` carries a fact along
it, and `ApplyFollows` and `BeyondKeeps` say what they return: the highest
number seen and a view with every stored event beyond the start, and the
part of a rising sequence beyond a number.

### 6.8 MemoryGraph

`IInv` == typing, `Numbered`, `LabelsAreKnown`, `RemovedVoicesAreGone`,
`ShownLinesHaveConversations`, `PromisesHaveTheirLines`, `JudgedLinesAreThere`.  Each
is there because another leans on it:

- `RemovedVoicesAreGone`: the worker files what it found in old lines, and what
  keeps a deleted voice out is only the foreign key (`Referable`); the rules file
  the voice of a line, which is in the bank because `delete_speaker` takes the
  label from every line of a voice it removes (`LabelsAreKnown`, of hidden lines
  too).
- `PromisesHaveTheirLines`: a commit files under the lines it gathered, which are
  still there because a purge leaves those being judged alone
  (`JudgedLinesAreThere`).  This rests on a line being hidden for a day before it is
  purged, while a judgement takes minutes.
- `ShownLinesHaveConversations`: the numbers of pruned conversations are used again
  (3.3), so it is not enough that the number exists: the conversation must be of the
  line's session, or the line's session bridge, and last as long (`Covers`).  It holds
  because a conversation goes only when no line of it is shown, and a turn is placed
  in one that admits it (`PlaceIs`) and is then made to last (`StoreTurn`).  It is said
  of shown lines only: a hidden line may carry the number of a conversation that
  took it later, which is harmless while nothing brings the line back.

`NobodyOverrulesAPerson` and `OnlyWhatWasReadIsDropped` follow from `CommitIs`, what a
commit does to the table whatever the verdicts: of the steps that change the worker
only a commit changes promises (`OnlyCommitsRewrite`).  The commit is a loop; as
above, `LoopExists` builds it, `StepByStep` carries along it what `FileOneIs` says of
one promise, and `FileFoundIs` is what the loop returns.

What the worker reads is said by two theorems about operators.
`EveryShownLineIsTaken`: the list gathered has every shown line once and in order.
That such a list exists is `SortedExists` (a smallest set without one would have a
last member, whose removal leaves a smaller), and that it leaves nothing out is
counting (`SortsEach`).  `NothingIsSplit` is the comment of `WINDOW_OVERLAP`, "so a
promise and the request that prompted it are never split across a boundary": any
turns that follow each other, one more than two windows share, are together in some
window.  It holds up to `Reach`, the end of the last window; later turns are
not read at all, and the conversation counts as walked.

### 6.9 MicTap, PerUserAudio, Retention

`NoMicSessionIsLost`: `NoMicSessionDangles` is inductive with typing.  All that
matters is `SyncTaps`: a tap that stops leaves its session's end behind, one that
opens begins a row it then feeds; every callback is that step over some graph.

The other direction is `MicAudioHasItsRow`: what a tap records has a row that is
open and not about to be closed.  It needs that sessions are counted
(`SessionsAreCounted`): no row or end has a number above the tap's counter, so a
tap that opens has a number no queued end can close.  `NoTapListensUnasked` is the
safety half of `NoTapIsHeldGroundless`: after every callback an open tap is wanted
by the switch the loop last read and by the graph, and is on the device they name;
it does not depend on what was open before (`SyncTapsGivesGrounds`), and nothing
but a callback changes graph or copy.  Both were checked by TLC on the instance of
`mic_tap` before they were proved.

`AudioInv` has two parts.  For splices: a stream's run keeps `next = seq + 1`, so a
frame's stamp is the moment it began whether it was placed behind the run or at
its own time (`PlaceTyped`), and what the pipeline joins by stamps is joined by
frames (`ExtendedTyped`); the order in which requests queue their frames does not
enter.  For the stop: every session is ended, in the table, with the janitor or in
the queue (`Accounted`), a closed queue has no janitor behind it, and a stopped
daemon an empty queue.

`RetentionInv`: `NamedClipsAreOnDisk` needs to know what a sweep may still unlink.
A file is `Needed` if a row names it, or if the writer or the command has it in
hand; the stages that take files from rows take none that is needed, because a
path tells its row (`PathsTellRows`), the writer's line has no row yet and the
command's line is not cut; the reconciliation may list one, but only settled
files are unlinked and what is in hand is not settled.  A stage's list stays
harmless while it is worked off because a new clip is of a line not spoken before
and new pieces of a line not cut before (`Begun`).

### 6.10 What is only model-checked

Liveness (`ControlDelivered`, `CloseDrains`, `EndsReachTheStore`, `ViewSettles`,
`EveryConversationIsWalked`, `QuietStreamsEnd`, `NoTapIsHeldGroundless`,
`WantedTapsOpen`, `DeletedIsErased`) is beyond this prover: the fairness of an
action is about where it is enabled.  Every other property of a run that holds is
proved.


## 7. What is left out

### 7.1 Within the modules

- One clock stands for monotonic and wall-clock time; a wall clock set by hand is
  not modelled.
- `Timer` of `CaptureTaps` reads the generation and then copies the rules in one
  step.  The code does it in two, which makes no difference: a rule is inserted
  before the generation is raised, so a copy can only be newer than the
  generation says.
- After a stream failed to attach, closing the new row is taken to succeed; the
  code logs a failure and goes on.
- The counting of bursts (a log line) and the stereo probe are not in
  `CaptureTaps`.
- The neural voice detector is a free choice per frame; a turn is one row (the
  split between speakers is in `Retention`, as the command that does it later), and
  captions and slices, which only read the ring, are left out.
- In `CapturePipeline` every buffer has the same length, where turns begin and end
  is a free choice, and a microphone's audio is not compared with the
  applications' to drop what it overheard.
- `EventStream` has one client, subscribed to every topic; the wire format is left
  out, and the renderer's six queries are one with six settled answers.
- `MemoryGraph` leaves out voices that are merged and lines that are given to
  another voice, and the times and texts of promises.  A deleted voice's id is not
  used again.  The run that holds has one session; the bridging of two is in the
  run `deleted_person_is_owed`.
- `PerUserAudio` leaves out the guard against a plugin's skewed clock, the resampler,
  requests that are refused, and which speaker a user stands for.
- `Retention` leaves out clips kept as references and the switches that turn parts
  of the sweep off; a `SELECT` and the statement that acts on its answer are one
  step, as both are under one hold of the lock.
- Single SQLite transactions are atomic and durable.  A clip is written in one
  step: a file cut short by a kill has no row either way.

### 7.2 Parts without a module

Most of the program by size has no module, and most of it should not have one.
`store.rs` is 14,000 lines of statements, each a transaction: those that the
modelled parts write are state of their modules, the others are queries.
`service.rs` is about a hundred request methods, most of them one query and its
formatting.  What neural models and scores over real numbers decide
(recognisers, language, speakers, overlap, moods) is not a question of order or
failure, and parsers, encodings and tables (language profiles, rosters, model
files) are functions a test reaches.  Everything that only draws (overlay,
desktop views) is a client of `EventStream`'s kind, and the voice assistant is
another program behind the socket.  What is left out though it has steps that
could go wrong is in 4.2 and, where a disagreement is known, in 3.3.
`PROJECT.json` has the reason for each part.
