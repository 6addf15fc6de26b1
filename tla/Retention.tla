----------------------------- MODULE Retention -----------------------------
(***************************************************************************)
(* The two tiers of the archive, rows in the database and clips under      *)
(* segments/, and the four that move them out of step with each other: the *)
(* inference thread that writes a clip before its row, the requests that   *)
(* hide a row, the sweep of retention.rs, and `recalld turns resplit`, a   *)
(* process of its own that cuts a stored turn in two and can put it back.  *)
(*                                                                         *)
(* The daemon's threads take turns by the store's lock, which a sweep      *)
(* holds from its first statement to its last; the file system and the     *)
(* other process know no such lock. A SELECT and the statement that acts   *)
(* on its answer are one step; a statement and the unlink that follows it  *)
(* are two, with room for a crash.                                         *)
(***************************************************************************)
EXTENDS Naturals, FiniteSets

CONSTANTS
    Lines,       \* turns that will be spoken
    Mixed,       \* those whose verdict says two people speak
    MaxCuts,     \* bound: turns cut in two
    MaxFaults    \* bound: crashes of the daemon, and files that cannot be unlinked

ASSUME RetentionAssumption ==
    /\ Mixed \subseteq Lines
    /\ {MaxCuts, MaxFaults} \subseteq Nat

VARIABLES
    spoken,   \* lines whose clip was begun: no path is used for two turns
    rows,     \* the segments table: what each row of it says
    files,    \* the clips on disk
    settled,  \* those of them last written before a sweep's cutoff
    old,      \* lines spoken before the audio window
    writer,   \* what the inference thread is doing, and with which line
    sweep,    \* how far a sweep has come
    doomed,   \* the clips that stage of it will unlink
    cli,      \* what the resplit command is doing, and with which line
    cuts,     \* the operations log: for each line cut in two, the path its row had
    putback,  \* lines put back by an undo
    faults    \* crashes and refused unlinks so far

vars == <<spoken, rows, files, settled, old, writer, sweep, doomed, cli, cuts, putback, faults>>

\* segment_path and piece_path: a clip is told by its line and, for the clip of a piece,
\* the piece's index.
Clip(l) == <<l, 0>>
PieceOf(l, i) == <<l, i>>
Pieces(l) == {PieceOf(l, 1), PieceOf(l, 2)}
Paths == Lines \X (0..2)
NoAudio == <<>>

\* A row stands for a line or, when a cut minted it, for the rest of one.
RowIds == Lines \X {"turn", "rest"}
Row == [path : Paths \union {NoAudio}, state : {"live", "deleted", "expired"}, empty : BOOLEAN]
Stored == DOMAIN rows
Named == {rows[r].path : r \in Stored} \ {NoAudio}
Live(r) == r \in Stored /\ rows[r].state = "live"
Without(gone) == [r \in Stored \ gone |-> rows[r]]

Idle == [at |-> "idle"]
Stages == {"idle", "empties", "aged", "reconcile", "orphans"}

\* Types of every variable: the shape of the model's state.
TypeOK ==
    /\ spoken \subseteq Lines /\ Stored \subseteq RowIds /\ \A r \in Stored : rows[r] \in Row
    /\ files \subseteq Paths /\ settled \subseteq files
    /\ old \subseteq Lines /\ putback \subseteq DOMAIN cuts
    /\ DOMAIN cuts \subseteq Mixed /\ \A l \in DOMAIN cuts : cuts[l] \in {Clip(l), NoAudio}
    /\ sweep \in Stages /\ doomed \subseteq Paths
    /\ writer = Idle \/ writer \in [at : {"written", "stored"}, line : Lines]
    /\ cli = Idle \/ cli \in [at : {"read", "written", "cut"}, line : Lines]
    /\ faults \in 0..MaxFaults

Init ==
    /\ spoken = {} /\ rows = <<>> /\ files = {} /\ settled = {} /\ old = {}
    /\ writer = Idle /\ sweep = "idle" /\ doomed = {}
    /\ cli = Idle /\ cuts = <<>> /\ putback = {}
    /\ faults = 0

\* The store's lock is free for another thread of the daemon.
Unlocked == sweep = "idle"

\* A clip is written, or written over: it is on disk, and as new as can be.
Written(clips) == files' = files \union clips /\ settled' = settled \ clips
-----------------------------------------------------------------------------
(* The inference thread: write_piece, and the analysis of what it wrote.   *)
NoSweepOrCli == UNCHANGED <<sweep, doomed, cli, cuts, putback, old, faults>>

WriteClip(l) ==
    /\ writer = Idle /\ l \notin spoken
    /\ spoken' = spoken \union {l}
    /\ Written({Clip(l)})
    /\ writer' = [at |-> "written", line |-> l]
    /\ UNCHANGED rows /\ NoSweepOrCli

\* insert_segment. Whether the analysis will find words in it is known only later, and
\* until then the row is as empty as one without any.
InsertSegment ==
    /\ writer.at = "written" /\ Unlocked
    /\ rows' = [r \in Stored \union {<<writer.line, "turn">>} |->
                   IF r = <<writer.line, "turn">>
                   THEN [path |-> Clip(writer.line), state |-> "live", empty |-> TRUE]
                   ELSE rows[r]]
    /\ writer' = [writer EXCEPT !.at = "stored"]
    /\ UNCHANGED <<spoken, files, settled>> /\ NoSweepOrCli

\* The row as the analysis leaves it, if it is there still: with words, or without.
Analysed(r, empty) ==
    rows' = IF Live(r) THEN [rows EXCEPT ![r].empty = empty] ELSE rows

Analyse ==
    /\ writer.at = "stored" /\ Unlocked
    /\ \E empty \in BOOLEAN : Analysed(<<writer.line, "turn">>, empty)
    /\ writer' = Idle
    /\ UNCHANGED <<spoken, files, settled>> /\ NoSweepOrCli
-----------------------------------------------------------------------------
(* Requests, and time: the undo window closes, the audio window passes, a  *)
(* file has lain still for SETTLE. A sweep's cutoff is the moment it       *)
(* started, and SETTLE is longer than it takes to write a row to a clip.   *)
NoFiles == UNCHANGED <<spoken, files, writer, sweep, doomed, cli, cuts, putback, faults>>

SoftDelete(r) ==
    /\ Unlocked /\ Live(r)
    /\ rows' = [rows EXCEPT ![r].state = "deleted"]
    /\ UNCHANGED <<settled, old>> /\ NoFiles

UndoWindowPasses ==
    /\ sweep = "idle" /\ \E r \in Stored : rows[r].state = "deleted"
    /\ rows' = [r \in Stored |-> IF rows[r].state = "deleted"
                                 THEN [rows[r] EXCEPT !.state = "expired"] ELSE rows[r]]
    /\ UNCHANGED <<settled, old>> /\ NoFiles

AudioWindowPasses ==
    /\ sweep = "idle" /\ \E r \in Stored : r[1] \notin old
    /\ old' = {r[1] : r \in Stored}
    /\ UNCHANGED <<rows, settled>> /\ NoFiles

BeingWritten(f) ==
    \/ writer # Idle /\ f = Clip(writer.line)
    \/ cli.at = "written" /\ f \in Pieces(cli.line)

FilesSettle ==
    LET quiet == {f \in files : ~BeingWritten(f)} IN
    /\ sweep = "idle" /\ ~(quiet \subseteq settled)
    /\ settled' = settled \union quiet
    /\ UNCHANGED <<rows, old>> /\ NoFiles
-----------------------------------------------------------------------------
(* sweep_at. Each stage unlinks what it took from the database before the  *)
(* next one begins.                                                        *)
NotTheSweeps == UNCHANGED <<spoken, settled, old, writer, cli, cuts, putback>>

\* 1. Rows whose undo window has closed.
PurgeExpired ==
    LET gone == {r \in Stored : rows[r].state = "expired"} IN
    /\ sweep = "idle" /\ Unlocked
    /\ rows' = Without(gone)
    /\ doomed' = {rows[r].path : r \in gone} \ {NoAudio}
    /\ sweep' = "empties"
    /\ UNCHANGED <<files, faults>> /\ NotTheSweeps

\* 2a. Live rows past the audio window with neither words nor a voice.
PurgeEmpty ==
    LET gone == {r \in Stored : Live(r) /\ rows[r].empty /\ r[1] \in old} IN
    /\ sweep = "empties" /\ doomed = {}
    /\ rows' = Without(gone)
    /\ doomed' = {rows[r].path : r \in gone} \ {NoAudio}
    /\ sweep' = "aged"
    /\ UNCHANGED <<files, faults>> /\ NotTheSweeps

\* 2. The other live rows past the window keep their words and lose their audio.
ForgetAudio ==
    LET aged == {r \in Stored : Live(r) /\ r[1] \in old} IN
    /\ sweep = "aged" /\ doomed = {}
    /\ rows' = [r \in Stored |-> IF r \in aged THEN [rows[r] EXCEPT !.path = NoAudio]
                                 ELSE rows[r]]
    /\ doomed' = {rows[r].path : r \in aged} \ {NoAudio}
    /\ sweep' = "reconcile"
    /\ UNCHANGED <<files, faults>> /\ NotTheSweeps

\* 3. Clips on disk that no row names, hidden rows counted. A row whose clip is missing is
\* logged and left alone.
Known_Mutant == Named \union {Clip(l) : l \in DOMAIN cuts}
Known == Named
Reconcile ==
    /\ sweep = "reconcile" /\ doomed = {}
    /\ doomed' = files \ Known
    /\ sweep' = "orphans"
    /\ UNCHANGED <<rows, files, faults>> /\ NotTheSweeps

EndSweep ==
    /\ sweep = "orphans" /\ doomed = {}
    /\ sweep' = "idle"
    /\ UNCHANGED <<rows, files, doomed, faults>> /\ NotTheSweeps

\* What the reconciliation may unlink: a file new to it is left to the next sweep.
MayRemove_Mutant(f) == f \in files
MayRemove(f) == sweep = "orphans" => f \in settled

\* One clip of the stage: unlinked, already gone, too new, or refused by the file system.
Unlink(f) ==
    /\ f \in doomed
    /\ doomed' = doomed \ {f}
    /\ IF f \in files /\ MayRemove(f)
       THEN \/ /\ files' = files \ {f} /\ settled' = settled \ {f}
               /\ UNCHANGED faults
            \/ /\ faults < MaxFaults
               /\ faults' = faults + 1
               /\ UNCHANGED <<files, settled>>
       ELSE UNCHANGED <<files, settled, faults>>
    /\ UNCHANGED <<spoken, rows, old, writer, sweep, cli, cuts, putback>>
-----------------------------------------------------------------------------
(* recalld turns resplit --apply, and --undo.                              *)
NoDaemon == UNCHANGED <<spoken, old, writer, sweep, doomed, faults>>

\* A candidate is gathered and its clip read; the models then run without any lock.
GatherCut(l) ==
    /\ cli = Idle /\ Cardinality(DOMAIN cuts) < MaxCuts
    /\ l \in Mixed \ DOMAIN cuts /\ Live(<<l, "turn">>) /\ ~rows[<<l, "turn">>].empty
    /\ rows[<<l, "turn">>].path = Clip(l) /\ Clip(l) \in files
    /\ cli' = [at |-> "read", line |-> l]
    /\ UNCHANGED <<rows, files, settled, cuts, putback>> /\ NoDaemon

WritePieces ==
    /\ cli.at = "read"
    /\ Written(Pieces(cli.line))
    /\ cli' = [cli EXCEPT !.at = "written"]
    /\ UNCHANGED <<rows, cuts, putback>> /\ NoDaemon

\* resplit_segment: a row that went away is left as it is; one that has lost its audio is
\* not, and the log then says that it had none.
CutTurn ==
    LET turn == <<cli.line, "turn">>
        rest == <<cli.line, "rest">>
        piece(i) == [path |-> PieceOf(cli.line, i), state |-> "live", empty |-> TRUE]
    IN
    /\ cli.at = "written"
    /\ IF Live(turn)
       THEN /\ rows' = [r \in Stored \union {rest} |->
                           CASE r = turn -> piece(1) [] r = rest -> piece(2)
                             [] OTHER -> rows[r]]
            /\ cuts' = [l \in DOMAIN cuts \union {cli.line} |->
                           IF l = cli.line THEN rows[turn].path ELSE cuts[l]]
            /\ cli' = [cli EXCEPT !.at = "cut"]
       ELSE cli' = Idle /\ UNCHANGED <<rows, cuts>>
    /\ UNCHANGED <<files, settled, putback>> /\ NoDaemon

\* The analysis of the pieces.
ReadPieces ==
    /\ cli.at = "cut"
    /\ rows' = [r \in Stored |-> IF r[1] = cli.line /\ Live(r)
                                 THEN [rows[r] EXCEPT !.empty = FALSE] ELSE rows[r]]
    /\ cli' = Idle
    /\ UNCHANGED <<files, settled, cuts, putback>> /\ NoDaemon

\* unsplit_segment: the row gets its span and the path of the log back, its words are to be
\* read again, and what the cut minted is hidden. A row that covers its span is left alone.
Undo(l) ==
    /\ cli = Idle /\ l \in DOMAIN cuts \ putback /\ Live(<<l, "turn">>)
    /\ rows' = [r \in Stored |->
                   CASE r = <<l, "turn">> -> [path |-> cuts[l], state |-> "live", empty |-> TRUE]
                     [] r = <<l, "rest">> /\ Live(r) -> [rows[r] EXCEPT !.state = "deleted"]
                     [] OTHER -> rows[r]]
    /\ putback' = putback \union {l}
    /\ UNCHANGED <<files, settled, cli, cuts>> /\ NoDaemon
-----------------------------------------------------------------------------
\* The daemon dies and is started again; what it had taken from the database is what the
\* database has, and the file system keeps the rest.
Crash ==
    /\ faults < MaxFaults /\ (writer # Idle \/ sweep # "idle")
    /\ faults' = faults + 1
    /\ writer' = Idle /\ sweep' = "idle" /\ doomed' = {}
    /\ UNCHANGED <<spoken, rows, files, settled, old, cli, cuts, putback>>

Write == InsertSegment \/ Analyse
Sweep == \/ PurgeExpired \/ PurgeEmpty \/ ForgetAudio
         \/ Reconcile \/ EndSweep
         \/ \E f \in doomed : Unlink(f)
Resplit == WritePieces \/ CutTurn \/ ReadPieces
Passes == UndoWindowPasses \/ FilesSettle

Next ==
    \/ \E l \in Lines : WriteClip(l)
    \/ \E r \in RowIds : SoftDelete(r)
    \/ \E l \in Mixed : GatherCut(l) \/ Undo(l)
    \/ Write \/ Sweep \/ Resplit \/ Passes \/ AudioWindowPasses \/ Crash

\* The threads run and the sweep comes round. Between two sweeps lies an interval of a
\* minute at least, in which time passes and the lock comes to everyone who waits for it.
Spec == Init /\ [][Next]_vars
             /\ SF_vars(Write) /\ WF_vars(Sweep) /\ WF_vars(Resplit) /\ SF_vars(Passes)
-----------------------------------------------------------------------------
(* Whatever a row names is on disk, hidden rows included: no sweep takes a *)
(* clip before the row that names it, the clip of a turn being written, or *)
(* a piece of one being cut; whatever crashes (sweep_at, write_piece,      *)
(* resplit). Turns put back by `resplit --undo` are set apart: see         *)
(* UndoFindsTheClip.                                                       *)
NamedClipsAreOnDisk ==
    \A r \in Stored : r[1] \notin putback /\ rows[r].path # NoAudio => rows[r].path \in files

(* retention.rs: deletion means deletion. In the end no hidden row is left *)
(* and no clip without a row, whatever crash, refused unlink or            *)
(* half-finished cut left it behind.                                       *)
DeletedIsErased ==
    <>[](/\ \A r \in Stored : rows[r].state = "live"
         /\ files \subseteq Named)

(* PROTOCOL.md on resplit: nothing is deleted, and not the original clip,  *)
(* which is what makes --undo work. So a turn that is put back before its  *)
(* audio may age out has its clip.                                         *)
UndoFindsTheClip ==
    \A l \in putback \ old : <<l, "turn">> \in Stored => Clip(l) \in files
=============================================================================
