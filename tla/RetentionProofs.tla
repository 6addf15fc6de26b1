--------------------------- MODULE RetentionProofs ---------------------------
(***************************************************************************)
(* Proofs about Retention, for any turns, any number of cuts and crashes.  *)
(***************************************************************************)
EXTENDS Retention, TLAPS

(* The clips a row may name: a line's own one or its first piece, and for  *)
(* the rest of a cut line the second.                                      *)
OwnPaths(r) ==
    IF r[2] = "turn" THEN {Clip(r[1]), PieceOf(r[1], 1)} ELSE {PieceOf(r[1], 2)}

(* A clip of a line that was spoken, and a piece only of one that was cut. *)
Begun(f) == f[1] \in spoken /\ (f # Clip(f[1]) => f[1] \in DOMAIN cuts)

(* Clips whose row is still to be written.                                 *)
WritersClip == IF writer.at = "written" THEN {Clip(writer.line)} ELSE {}
CliPieces == IF cli.at = "written" THEN Pieces(cli.line) ELSE {}

(* Clips that must not be unlinked.                                        *)
Needed(f) ==
    \/ \E r \in Stored : r[1] \notin putback /\ rows[r].path = f /\ f # NoAudio
    \/ f \in WritersClip \/ f \in CliPieces

Shape ==
    /\ Stored \subseteq RowIds /\ \A r \in Stored : rows[r] \in Row
    /\ writer = Idle \/ writer \in [at : {"written", "stored"}, line : Lines]
    /\ cli = Idle \/ cli \in [at : {"read", "written", "cut"}, line : Mixed]
    /\ \A l \in DOMAIN cuts : cuts[l] \in {Clip(l), NoAudio}
    /\ putback \subseteq DOMAIN cuts /\ sweep \in Stages

RowsFit ==
    \A r \in Stored :
        /\ r[1] \in spoken
        /\ rows[r].path # NoAudio => rows[r].path \in OwnPaths(r) /\ Begun(rows[r].path)

(* The writer is at a line no row stands for yet, the command at one that  *)
(* is not cut.                                                             *)
InHandFits ==
    /\ writer.at = "written" => /\ writer.line \in spoken
                                /\ <<writer.line, "turn">> \notin Stored
    /\ cli.at \in {"read", "written"} => cli.line \notin DOMAIN cuts
    /\ (WritersClip \union CliPieces) \cap settled = {}

(* What the sweep may unlink, nobody needs.                                *)
DoomedFits ==
    /\ sweep = "idle" => doomed = {}
    /\ sweep # "orphans" => \A f \in doomed : Begun(f)
    /\ \A f \in doomed : MayRemove(f) => ~Needed(f)

RetentionInv ==
    /\ Shape /\ RowsFit /\ InHandFits /\ DoomedFits
    /\ \A f : Needed(f) => f \in files

-----------------------------------------------------------------------------
(* A clip tells its line, and its row.                                     *)
LEMMA PathsTellRows ==
  /\ \A r, q \in RowIds : \A f \in OwnPaths(r) : f[1] = r[1] /\ (f \in OwnPaths(q) => r = q)
  /\ \A l : Clip(l)[1] = l /\ Clip(l) # NoAudio /\ <<l, "turn">>[1] = l
            /\ Clip(l) \in OwnPaths(<<l, "turn">>)
  /\ \A l : \A f \in Pieces(l) : f[1] = l /\ f # Clip(l) /\ f # NoAudio
  BY DEF OwnPaths, Clip, PieceOf, Pieces, RowIds, NoAudio

LEMMA InitFits ==
  ASSUME Init
  PROVE  RetentionInv
  <1>1. Stored = {}
    BY DEF Init, Stored
  <1>2. WritersClip = {} /\ CliPieces = {}
    BY DEF Init, WritersClip, CliPieces, Idle
  <1> QED
    BY <1>1, <1>2 DEF Init, RetentionInv, Shape, RowsFit, InHandFits, DoomedFits, Needed, Stages, Idle

-----------------------------------------------------------------------------
(* Steps that change what rows say, not which there are nor their paths,   *)
(* or that end what a thread had in hand after its row was written.        *)
LEMMA SamePaths ==
  ASSUME RetentionInv,
         Stored' = Stored, \A r \in Stored : rows'[r] \in Row /\ rows'[r].path = rows[r].path,
         writer' = writer \/ (writer.at = "stored" /\ writer' = Idle),
         cli' = cli \/ (cli.at = "cut" /\ cli' = Idle),
         UNCHANGED <<spoken, files, settled, sweep, doomed, cuts, putback>>
  PROVE  RetentionInv'
  <1>1. Shape'
    BY DEF RetentionInv, Shape
  <1>2. WritersClip' = WritersClip /\ CliPieces' = CliPieces
    BY DEF WritersClip, CliPieces, Idle
  <1>3. \A f : Needed(f)' = Needed(f) /\ Begun(f)' = Begun(f) /\ MayRemove(f)' = MayRemove(f)
    BY <1>2 DEF Needed, Begun, MayRemove
  <1>4. RowsFit'
    BY <1>3 DEF RetentionInv, RowsFit
  <1>5. InHandFits'
    BY <1>2 DEF RetentionInv, InHandFits, Idle
  <1>6. DoomedFits'
    BY <1>3 DEF RetentionInv, DoomedFits
  <1> QED BY <1>1, <1>3, <1>4, <1>5, <1>6 DEF RetentionInv

(* A stage of the sweep takes from rows what they name: no row that stays  *)
(* names it, and nobody has it in hand.                                    *)
LEMMA StageTakes ==
  ASSUME RetentionInv, NEW gone \in SUBSET Stored,
         doomed = {}, doomed' = {rows[r].path : r \in gone} \ {NoAudio},
         sweep' \in {"empties", "aged", "reconcile"},
         Stored' \subseteq Stored,
         \A r \in Stored' :
            /\ rows'[r] \in Row
            /\ rows'[r].path = NoAudio \/ (r \notin gone /\ rows'[r].path = rows[r].path),
         UNCHANGED <<spoken, files, settled, writer, cli, cuts, putback>>
  PROVE  RetentionInv'
  <1> USE DEF RetentionInv
  <1>1. Shape'
    BY DEF Shape, Stages
  <1>2. UNCHANGED <<WritersClip, CliPieces>> /\ \A f : Begun(f)' = Begun(f)
    BY DEF WritersClip, CliPieces, Begun
  <1>3. RowsFit'
    BY <1>2 DEF RowsFit
  <1>4. InHandFits'
    BY <1>2 DEF InHandFits
  <1>5. \A f : Needed(f)' => Needed(f)
    BY <1>2 DEF Needed
  <1>6. ASSUME NEW f \in doomed'
        PROVE  Begun(f)' /\ ~Needed(f)'
    <2>1. PICK r \in gone : f = rows[r].path /\ f # NoAudio
      BY <1>6
    <2>2. r \in RowIds /\ f \in OwnPaths(r) /\ Begun(f)
      BY <2>1 DEF Shape, RowsFit
    <2>3. \A q \in Stored' : rows'[q].path # f
      <3> SUFFICES ASSUME NEW q \in Stored', rows'[q].path = f
                   PROVE  FALSE
        OBVIOUS
      <3>1. q \in RowIds /\ q \notin gone /\ rows[q].path = f /\ f \in OwnPaths(q)
        BY <2>1 DEF Shape, RowsFit
      <3> QED BY <2>1, <2>2, <3>1, PathsTellRows
    <2>4. f \notin WritersClip
      <3> SUFFICES ASSUME writer.at = "written", f = Clip(writer.line)
                   PROVE  FALSE
        BY DEF WritersClip
      <3>1. writer.line \in Lines /\ <<writer.line, "turn">> \in RowIds
        BY DEF Shape, Idle, RowIds
      <3>2. r = <<writer.line, "turn">>
        BY <2>2, <3>1, PathsTellRows
      <3> QED BY <2>1, <3>2 DEF InHandFits
    <2>5. f \notin CliPieces
      <3> SUFFICES ASSUME cli.at = "written", f \in Pieces(cli.line)
                   PROVE  FALSE
        BY DEF CliPieces
      <3>1. f[1] = cli.line /\ f # Clip(f[1])
        BY PathsTellRows
      <3> QED BY <2>2, <3>1 DEF Begun, InHandFits
    <2> QED BY <1>2, <2>2, <2>3, <2>4, <2>5 DEF Needed
  <1>7. DoomedFits'
    BY <1>6 DEF DoomedFits
  <1> QED BY <1>1, <1>3, <1>4, <1>5, <1>7

-----------------------------------------------------------------------------
(* The inference thread.                                                   *)
LEMMA WriteClipFits ==
  ASSUME RetentionInv, NEW l \in Lines, WriteClip(l)
  PROVE  RetentionInv'
  <1> USE DEF RetentionInv
  <1>1. /\ l \notin spoken /\ spoken' = spoken \union {l} /\ writer = Idle
        /\ files' = files \union {Clip(l)} /\ settled' = settled \ {Clip(l)}
        /\ writer' = [at |-> "written", line |-> l]
        /\ UNCHANGED <<rows, sweep, doomed, cli, cuts, putback>>
    BY DEF WriteClip, Written, NoSweepOrCli
  <1>2. /\ WritersClip' = {Clip(l)} /\ WritersClip = {}
        /\ CliPieces' = CliPieces /\ Stored' = Stored
    BY <1>1 DEF WritersClip, CliPieces, Idle, Stored
  <1>3. Shape'
    BY <1>1, <1>2 DEF Shape
  <1>4. \A f : Begun(f) => Begun(f)'
    BY <1>1 DEF Begun
  <1>5. RowsFit'
    BY <1>1, <1>2, <1>4 DEF RowsFit
  <1>6. InHandFits'
    <2>1. <<l, "turn">> \notin Stored
      BY <1>1, PathsTellRows DEF RowsFit
    <2> QED BY <1>1, <1>2, <2>1 DEF InHandFits
  <1>7. \A f : Needed(f)' => Needed(f) \/ f = Clip(l)
    BY <1>1, <1>2 DEF Needed
  <1>8. DoomedFits'
    <2>1. ~Begun(Clip(l))
      BY <1>1, PathsTellRows DEF Begun
    <2>2. Clip(l) \in doomed => ~MayRemove(Clip(l))'
      BY <1>1, <2>1 DEF DoomedFits, MayRemove
    <2>3. \A f : MayRemove(f)' => MayRemove(f)
      BY <1>1 DEF MayRemove
    <2> QED BY <1>1, <1>4, <1>7, <2>2, <2>3 DEF DoomedFits
  <1> QED BY <1>1, <1>3, <1>5, <1>6, <1>7, <1>8

LEMMA InsertSegmentFits ==
  ASSUME RetentionInv, InsertSegment
  PROVE  RetentionInv'
  <1> USE DEF RetentionInv
  <1> DEFINE l == writer.line
             turn == <<l, "turn">>
             row == [path |-> Clip(l), state |-> "live", empty |-> TRUE]
  <1>1. /\ writer.at = "written" /\ sweep = "idle"
        /\ rows' = [r \in Stored \union {turn} |-> IF r = turn THEN row ELSE rows[r]]
        /\ writer' = [writer EXCEPT !.at = "stored"]
        /\ UNCHANGED <<spoken, files, settled, sweep, doomed, cli, cuts, putback>>
    BY DEF InsertSegment, Unlocked, NoSweepOrCli
  <1>2. /\ writer \in [at : {"written", "stored"}, line : Lines] /\ l \in Lines
        /\ turn \in RowIds /\ row \in Row /\ turn[1] = l
    BY <1>1 DEF Shape, Idle, RowIds, Row, Paths, Clip
  <1>3. /\ Stored' = Stored \union {turn} /\ rows'[turn] = row
        /\ \A r \in Stored : r # turn => rows'[r] = rows[r]
    BY <1>1 DEF Stored
  <1>4. /\ WritersClip = {Clip(l)} /\ WritersClip' = {} /\ CliPieces' = CliPieces
        /\ row.path = Clip(l)
    BY <1>1, <1>2 DEF WritersClip, CliPieces
  <1> HIDE DEF row, turn
  <1>5. Shape'
    BY <1>1, <1>2, <1>3 DEF Shape
  <1>6. \A f : Begun(f)' = Begun(f) /\ MayRemove(f)' = MayRemove(f)
    BY <1>1 DEF Begun, MayRemove
  <1>7. RowsFit'
    <2>1. Begun(Clip(l)) /\ Clip(l) \in OwnPaths(turn)
      BY <1>1, PathsTellRows DEF Begun, InHandFits, turn
    <2>2. l \in spoken
      BY <1>1 DEF InHandFits
    <2> QED BY <1>1, <1>2, <1>3, <1>4, <1>6, <2>1, <2>2 DEF RowsFit
  <1>8. InHandFits'
    BY <1>1, <1>2, <1>4 DEF InHandFits
  <1>9. \A f : Needed(f)' => Needed(f)
    BY <1>1, <1>3, <1>4 DEF Needed
  <1>10. DoomedFits'
    BY <1>1, <1>6, <1>9 DEF DoomedFits
  <1> QED BY <1>1, <1>5, <1>7, <1>8, <1>9, <1>10

LEMMA AnalyseFits ==
  ASSUME RetentionInv, Analyse
  PROVE  RetentionInv'
  <1>1. PICK empty \in BOOLEAN : Analysed(<<writer.line, "turn">>, empty)
    BY DEF Analyse
  <1>2. Stored' = Stored
        /\ \A r \in Stored : rows'[r] \in Row /\ rows'[r].path = rows[r].path
    BY <1>1 DEF Analysed, RetentionInv, Shape, Stored, Row, Live
  <1> QED BY <1>2, SamePaths DEF Analyse, NoSweepOrCli

-----------------------------------------------------------------------------
(* Requests, and time.                                                     *)
LEMMA RequestsFit ==
  ASSUME RetentionInv, UndoWindowPasses \/ AudioWindowPasses \/ \E r \in RowIds : SoftDelete(r)
  PROVE  RetentionInv'
  <1>1. /\ UNCHANGED <<settled, spoken, files, writer, sweep, doomed, cli, cuts, putback>>
        /\ Stored' = Stored
        /\ \A r \in Stored : rows'[r] \in Row /\ rows'[r].path = rows[r].path
    <2>1. CASE UndoWindowPasses
      BY <2>1 DEF UndoWindowPasses, NoFiles, RetentionInv, Shape, Stored, Row
    <2>2. CASE AudioWindowPasses
      BY <2>2 DEF AudioWindowPasses, NoFiles, RetentionInv, Shape, Stored
    <2>3. ASSUME NEW q \in RowIds, SoftDelete(q)
          PROVE  /\ UNCHANGED <<settled, spoken, files, writer, sweep, doomed, cli, cuts, putback>>
                 /\ Stored' = Stored
                 /\ \A r \in Stored : rows'[r] \in Row /\ rows'[r].path = rows[r].path
      BY <2>3 DEF SoftDelete, NoFiles, RetentionInv, Shape, Stored, Row, Live
    <2> QED BY <2>1, <2>2, <2>3
  <1> QED BY <1>1, SamePaths

LEMMA FilesSettleFits ==
  ASSUME RetentionInv, FilesSettle
  PROVE  RetentionInv'
  <1> USE DEF RetentionInv
  <1>1. /\ settled' = settled \union {f \in files : ~BeingWritten(f)} /\ sweep = "idle"
        /\ UNCHANGED <<rows, spoken, files, writer, sweep, doomed, cli, cuts, putback>>
    BY DEF FilesSettle, NoFiles
  <1>2. Stored' = Stored /\ WritersClip' = WritersClip /\ CliPieces' = CliPieces
    BY <1>1 DEF Stored, WritersClip, CliPieces
  <1>3. \A f \in WritersClip \union CliPieces : BeingWritten(f)
    BY DEF WritersClip, CliPieces, BeingWritten, Idle
  <1>4. InHandFits'
    BY <1>1, <1>2, <1>3 DEF InHandFits
  <1>5. \A f : Needed(f)' = Needed(f) /\ Begun(f)' = Begun(f)
    BY <1>1, <1>2 DEF Needed, Begun
  <1>6. Shape' /\ RowsFit' /\ DoomedFits'
    BY <1>1, <1>2, <1>5 DEF Shape, RowsFit, DoomedFits
  <1> QED BY <1>1, <1>4, <1>5, <1>6

-----------------------------------------------------------------------------
(* The sweep.                                                              *)
LEMMA StagesFit ==
  ASSUME RetentionInv, PurgeExpired \/ PurgeEmpty \/ ForgetAudio
  PROVE  RetentionInv'
  <1>1. CASE PurgeExpired
    <2> DEFINE gone == {r \in Stored : rows[r].state = "expired"}
    <2>1. /\ doomed = {} /\ doomed' = {rows[r].path : r \in gone} \ {NoAudio}
          /\ sweep' = "empties" /\ rows' = Without(gone)
          /\ UNCHANGED <<spoken, files, settled, writer, cli, cuts, putback>>
      BY <1>1 DEF PurgeExpired, NotTheSweeps, RetentionInv, DoomedFits
    <2>2. Stored' = Stored \ gone /\ \A r \in Stored \ gone : rows'[r] = rows[r]
      BY <2>1 DEF Without, Stored
    <2> HIDE DEF gone
    <2>3. gone \in SUBSET Stored
      BY DEF gone
    <2> QED BY <2>1, <2>2, <2>3, StageTakes DEF RetentionInv, Shape
  <1>2. CASE PurgeEmpty
    <2> DEFINE gone == {r \in Stored : Live(r) /\ rows[r].empty /\ r[1] \in old}
    <2>1. /\ doomed = {} /\ doomed' = {rows[r].path : r \in gone} \ {NoAudio}
          /\ sweep' = "aged" /\ rows' = Without(gone)
          /\ UNCHANGED <<spoken, files, settled, writer, cli, cuts, putback>>
      BY <1>2 DEF PurgeEmpty, NotTheSweeps
    <2>2. Stored' = Stored \ gone /\ \A r \in Stored \ gone : rows'[r] = rows[r]
      BY <2>1 DEF Without, Stored
    <2>3. gone \in SUBSET Stored
      OBVIOUS
    <2> HIDE DEF gone
    <2> QED BY <2>1, <2>2, <2>3, StageTakes DEF RetentionInv, Shape
  <1>3. CASE ForgetAudio
    <2> DEFINE aged == {r \in Stored : Live(r) /\ r[1] \in old}
    <2>1. /\ doomed = {} /\ doomed' = {rows[r].path : r \in aged} \ {NoAudio}
          /\ sweep' = "reconcile"
          /\ rows' = [r \in Stored |-> IF r \in aged THEN [rows[r] EXCEPT !.path = NoAudio]
                                        ELSE rows[r]]
          /\ UNCHANGED <<spoken, files, settled, writer, cli, cuts, putback>>
      BY <1>3 DEF ForgetAudio, NotTheSweeps
    <2>2. aged \in SUBSET Stored
      OBVIOUS
    <2> HIDE DEF aged
    <2>3. Stored' = Stored
          /\ \A r \in Stored : /\ rows'[r] \in Row
                               /\ r \in aged => rows'[r].path = NoAudio
                               /\ r \notin aged => rows'[r] = rows[r]
      BY <2>1 DEF Stored, RetentionInv, Shape, Row
    <2> QED BY <2>1, <2>2, <2>3, StageTakes
  <1> QED BY <1>1, <1>2, <1>3

(* Of the clips no row names, the settled ones are in nobody's hand.       *)
LEMMA ReconcileFits ==
  ASSUME RetentionInv, Reconcile
  PROVE  RetentionInv'
  <1> USE DEF RetentionInv
  <1>1. /\ doomed' = files \ Named /\ sweep' = "orphans"
        /\ UNCHANGED <<rows, files, spoken, settled, writer, cli, cuts, putback>>
    BY DEF Reconcile, Known, NotTheSweeps
  <1>2. Stored' = Stored /\ WritersClip' = WritersClip /\ CliPieces' = CliPieces
    BY <1>1 DEF Stored, WritersClip, CliPieces
  <1>3. \A f : Needed(f)' = Needed(f) /\ Begun(f)' = Begun(f)
    BY <1>1, <1>2 DEF Needed, Begun
  <1>4. Shape' /\ RowsFit' /\ InHandFits'
    BY <1>1, <1>2, <1>3 DEF Shape, RowsFit, InHandFits, Stages
  <1>5. ASSUME NEW f \in doomed', MayRemove(f)'
        PROVE  ~Needed(f)
    BY <1>1, <1>5 DEF MayRemove, Named, Needed, InHandFits
  <1>6. DoomedFits'
    BY <1>1, <1>3, <1>5 DEF DoomedFits
  <1> QED BY <1>1, <1>3, <1>4, <1>6

LEMMA UnlinkFits ==
  ASSUME RetentionInv, NEW f \in doomed, Unlink(f)
  PROVE  RetentionInv'
  <1> USE DEF RetentionInv
  <1>1. /\ doomed' = doomed \ {f}
        /\ UNCHANGED <<spoken, rows, writer, sweep, cli, cuts, putback>>
        /\ \/ UNCHANGED <<files, settled>>
           \/ files' = files \ {f} /\ settled' = settled \ {f} /\ MayRemove(f)
    BY DEF Unlink
  <1>2. Stored' = Stored /\ WritersClip' = WritersClip /\ CliPieces' = CliPieces
    BY <1>1 DEF Stored, WritersClip, CliPieces
  <1>3. \A g : Needed(g)' = Needed(g) /\ Begun(g)' = Begun(g) /\ (MayRemove(g)' => MayRemove(g))
    BY <1>1, <1>2 DEF Needed, Begun, MayRemove
  <1>4. Shape' /\ RowsFit' /\ InHandFits' /\ DoomedFits'
    BY <1>1, <1>2, <1>3 DEF Shape, RowsFit, InHandFits, DoomedFits
  <1>5. MayRemove(f) => ~Needed(f)
    BY DEF DoomedFits
  <1> QED BY <1>1, <1>3, <1>4, <1>5

LEMMA SweepEndsFit ==
  ASSUME RetentionInv, EndSweep \/ Crash
  PROVE  RetentionInv'
  <1> USE DEF RetentionInv
  <1>1. /\ doomed' = {} /\ sweep' = "idle" /\ (writer' = writer \/ writer' = Idle)
        /\ UNCHANGED <<spoken, rows, files, settled, cli, cuts, putback>>
    BY DEF EndSweep, Crash, NotTheSweeps
  <1>2. Stored' = Stored /\ WritersClip' \subseteq WritersClip /\ CliPieces' = CliPieces
    BY <1>1 DEF Stored, WritersClip, CliPieces, Idle
  <1>3. \A f : (Needed(f)' => Needed(f)) /\ Begun(f)' = Begun(f)
    BY <1>1, <1>2 DEF Needed, Begun
  <1>4. Shape' /\ RowsFit' /\ InHandFits' /\ DoomedFits'
    BY <1>1, <1>2, <1>3 DEF Shape, RowsFit, InHandFits, DoomedFits, Stages, Idle
  <1> QED BY <1>1, <1>3, <1>4

-----------------------------------------------------------------------------
(* The resplit command.                                                    *)
LEMMA GatherCutFits ==
  ASSUME RetentionInv, NEW l \in Mixed, GatherCut(l)
  PROVE  RetentionInv'
  <1> USE DEF RetentionInv
  <1>1. /\ cli = Idle /\ l \notin DOMAIN cuts /\ cli' = [at |-> "read", line |-> l]
        /\ UNCHANGED <<rows, files, settled, cuts, putback, spoken, writer, sweep, doomed>>
    BY DEF GatherCut, NoDaemon
  <1>2. Stored' = Stored /\ WritersClip' = WritersClip /\ CliPieces' = CliPieces
    BY <1>1 DEF Stored, WritersClip, CliPieces, Idle
  <1>3. \A f : Needed(f)' = Needed(f) /\ Begun(f)' = Begun(f) /\ MayRemove(f)' = MayRemove(f)
    BY <1>1, <1>2 DEF Needed, Begun, MayRemove
  <1> QED BY <1>1, <1>2, <1>3 DEF Shape, RowsFit, InHandFits, DoomedFits

LEMMA WritePiecesFits ==
  ASSUME RetentionInv, WritePieces
  PROVE  RetentionInv'
  <1> USE DEF RetentionInv
  <1> DEFINE l == cli.line
  <1>1. /\ cli.at = "read" /\ cli' = [cli EXCEPT !.at = "written"]
        /\ files' = files \union Pieces(l) /\ settled' = settled \ Pieces(l)
        /\ UNCHANGED <<rows, cuts, putback, spoken, writer, sweep, doomed>>
    BY DEF WritePieces, Written, NoDaemon
  <1>2. /\ cli \in [at : {"read", "written", "cut"}, line : Mixed]
        /\ cli'.at = "written" /\ cli'.line = l /\ l \notin DOMAIN cuts
    BY <1>1 DEF Shape, Idle, InHandFits
  <1>3. /\ Stored' = Stored /\ WritersClip' = WritersClip
        /\ CliPieces = {} /\ CliPieces' = Pieces(l)
    BY <1>1, <1>2 DEF Stored, WritersClip, CliPieces
  <1>4. \A f : Begun(f)' = Begun(f) /\ (Needed(f)' => Needed(f) \/ f \in Pieces(l))
    BY <1>1, <1>3 DEF Needed, Begun
  <1>5. Shape' /\ RowsFit' /\ InHandFits'
    BY <1>1, <1>2, <1>3, <1>4 DEF Shape, RowsFit, InHandFits
  <1>6. DoomedFits'
    <2>1. \A f \in Pieces(l) : ~Begun(f)
      BY <1>2, PathsTellRows DEF Begun
    <2>2. \A f \in Pieces(l) : f \in doomed => ~MayRemove(f)'
      BY <1>1, <2>1 DEF DoomedFits, MayRemove
    <2>3. \A f : MayRemove(f)' => MayRemove(f)
      BY <1>1 DEF MayRemove
    <2> QED BY <1>1, <1>4, <2>2, <2>3 DEF DoomedFits
  <1> QED BY <1>1, <1>4, <1>5, <1>6

LEMMA CutTurnFits ==
  ASSUME RetentionInv, CutTurn
  PROVE  RetentionInv'
  <1> USE DEF RetentionInv
  <1> DEFINE l == cli.line
             turn == <<l, "turn">>
             rest == <<l, "rest">>
             piece(i) == [path |-> PieceOf(l, i), state |-> "live", empty |-> TRUE]
  <1>1. /\ cli.at = "written"
        /\ UNCHANGED <<files, settled, putback, spoken, writer, sweep, doomed>>
    BY DEF CutTurn, NoDaemon
  <1>2. /\ cli \in [at : {"read", "written", "cut"}, line : Mixed]
        /\ l \notin DOMAIN cuts /\ CliPieces = Pieces(l) /\ WritersClip' = WritersClip
    BY <1>1 DEF Shape, Idle, InHandFits, CliPieces, WritersClip
  <1>3. \A f : MayRemove(f)' = MayRemove(f)
    BY <1>1 DEF MayRemove
  <1>4. CASE Live(turn)
    <2>1. /\ rows' = [r \in Stored \union {rest} |->
                         CASE r = turn -> piece(1) [] r = rest -> piece(2)
                           [] OTHER -> rows[r]]
          /\ DOMAIN cuts' = DOMAIN cuts \union {l} /\ cuts'[l] = rows[turn].path
          /\ \A k \in DOMAIN cuts : k # l => cuts'[k] = cuts[k]
          /\ cli' = [cli EXCEPT !.at = "cut"]
      BY <1>4 DEF CutTurn
    <2>2. /\ turn \in Stored /\ turn \in RowIds /\ turn[1] = l /\ l \in Lines
          /\ rest \in RowIds /\ rest[1] = l /\ rest # turn
      BY <1>4 DEF Live, Shape, RowIds
    <2>3. /\ PieceOf(l, 1) \in OwnPaths(turn) /\ PieceOf(l, 2) \in OwnPaths(rest)
          /\ PieceOf(l, 1) \in Pieces(l) /\ PieceOf(l, 2) \in Pieces(l)
      BY DEF OwnPaths, PieceOf, Pieces
    <2>4. piece(1) \in Row /\ piece(2) \in Row
      BY <2>2 DEF Row, Paths, PieceOf
    <2>5. /\ Stored' = Stored \union {rest}
          /\ rows'[turn] = piece(1) /\ rows'[rest] = piece(2)
          /\ \A r \in Stored : r # turn /\ r # rest => rows'[r] = rows[r]
      BY <2>1, <2>2 DEF Stored
    <2>6. piece(1).path = PieceOf(l, 1) /\ piece(2).path = PieceOf(l, 2)
      OBVIOUS
    <2> HIDE DEF piece, rest
    <2>7. cuts'[l] \in {Clip(l), NoAudio}
      <3>1. PieceOf(l, 1)[1] = l /\ PieceOf(l, 1) # Clip(l)
        BY DEF PieceOf, Clip
      <3> QED BY <1>2, <2>1, <2>2, <3>1 DEF RowsFit, OwnPaths, Begun
    <2> HIDE DEF turn
    <2>8. Shape'
      BY <1>1, <1>2, <2>1, <2>2, <2>4, <2>5, <2>7 DEF Shape
    <2>9. CliPieces' = {}
      BY <1>2, <2>1 DEF CliPieces
    <2>10. \A f : Begun(f) => Begun(f)'
      BY <1>1, <2>1 DEF Begun
    <2>11. RowsFit'
      <3>1. l \in spoken
        BY <2>2 DEF RowsFit
      <3>2. \A f \in Pieces(l) : Begun(f)'
        BY <1>1, <2>1, <3>1, PathsTellRows DEF Begun
      <3> QED BY <1>1, <2>2, <2>3, <2>5, <2>6, <2>10, <3>1, <3>2 DEF RowsFit
    <2>12. InHandFits'
      <3>1. <<writer.line, "turn">> # rest
        BY DEF rest
      <3>2. cli'.at = "cut"
        BY <1>2, <2>1
      <3> QED BY <1>1, <1>2, <2>5, <2>9, <3>1, <3>2 DEF InHandFits
    <2>13. \A f : Needed(f)' => Needed(f)
      BY <1>1, <1>2, <2>3, <2>5, <2>6, <2>9 DEF Needed
    <2>14. DoomedFits'
      BY <1>1, <1>3, <2>10, <2>13 DEF DoomedFits
    <2> QED BY <1>1, <2>8, <2>11, <2>12, <2>13, <2>14
  <1>5. CASE ~Live(turn)
    <2>1. cli' = Idle /\ UNCHANGED <<rows, cuts>>
      BY <1>5 DEF CutTurn
    <2>2. CliPieces' = {} /\ Stored' = Stored
      BY <2>1 DEF CliPieces, Idle, Stored
    <2>3. \A f : Begun(f)' = Begun(f) /\ (Needed(f)' => Needed(f))
      BY <1>1, <1>2, <2>1, <2>2 DEF Begun, Needed
    <2>4. Shape' /\ RowsFit' /\ InHandFits' /\ DoomedFits'
      BY <1>1, <1>2, <1>3, <2>1, <2>2, <2>3 DEF Shape, RowsFit, InHandFits, DoomedFits, Idle
    <2> QED BY <1>1, <2>3, <2>4
  <1> QED BY <1>4, <1>5

LEMMA ReadPiecesFits ==
  ASSUME RetentionInv, ReadPieces
  PROVE  RetentionInv'
  <1>1. Stored' = Stored
        /\ \A r \in Stored : rows'[r] \in Row /\ rows'[r].path = rows[r].path
    BY DEF ReadPieces, RetentionInv, Shape, Stored, Row
  <1> QED BY <1>1, SamePaths DEF ReadPieces, NoDaemon

(* An undo names a clip again that may be gone: its line is set apart.     *)
LEMMA UndoFits ==
  ASSUME RetentionInv, NEW l \in Mixed, Undo(l)
  PROVE  RetentionInv'
  <1> USE DEF RetentionInv
  <1> DEFINE turn == <<l, "turn">>
             rest == <<l, "rest">>
             back == [path |-> cuts[l], state |-> "live", empty |-> TRUE]
  <1>1. /\ l \in DOMAIN cuts /\ turn \in Stored /\ putback' = putback \union {l}
        /\ rows' = [r \in Stored |->
                       CASE r = turn -> back
                         [] r = rest /\ Live(r) -> [rows[r] EXCEPT !.state = "deleted"]
                         [] OTHER -> rows[r]]
        /\ UNCHANGED <<files, settled, cli, cuts, spoken, writer, sweep, doomed>>
    BY DEF Undo, NoDaemon, Live
  <1>2. turn \in RowIds /\ turn[1] = l /\ l \in Lines /\ turn # rest
    BY <1>1 DEF Shape, RowIds
  <1>3. back \in Row /\ back.path \in {Clip(l), NoAudio}
    BY <1>1, <1>2 DEF Shape, Row, Paths, Clip
  <1>4. /\ Stored' = Stored /\ rows'[turn] = back
        /\ \A r \in Stored \ {turn} : rows'[r] \in Row /\ rows'[r].path = rows[r].path
    BY <1>1, <1>2 DEF Stored, Shape, Row
  <1>5. WritersClip' = WritersClip /\ CliPieces' = CliPieces
    BY <1>1 DEF WritersClip, CliPieces
  <1> HIDE DEF back, rest, turn
  <1>6. Shape'
    BY <1>1, <1>3, <1>4 DEF Shape
  <1>7. \A f : Begun(f)' = Begun(f) /\ MayRemove(f)' = MayRemove(f)
    BY <1>1 DEF Begun, MayRemove
  <1>8. RowsFit'
    <2>1. Clip(l) \in OwnPaths(turn) /\ Begun(Clip(l))
      BY <1>1, <1>2, PathsTellRows DEF RowsFit, Begun, turn
    <2> QED BY <1>1, <1>3, <1>4, <1>7, <2>1 DEF RowsFit
  <1>9. InHandFits'
    BY <1>1, <1>4, <1>5 DEF InHandFits
  <1>10. \A f : Needed(f)' => Needed(f)
    BY <1>1, <1>2, <1>4, <1>5 DEF Needed
  <1>11. DoomedFits'
    BY <1>1, <1>7, <1>10 DEF DoomedFits
  <1> QED BY <1>1, <1>6, <1>8, <1>9, <1>10, <1>11

-----------------------------------------------------------------------------
(* The inductive invariant: what a sweep has taken or will find without a  *)
(* row is none that a row names or a thread is about to name.              *)
THEOREM RetentionInvariant == Spec => []RetentionInv
  <1>1. Init => RetentionInv
    BY InitFits
  <1>2. RetentionInv /\ [Next]_vars => RetentionInv'
    <2> SUFFICES ASSUME RetentionInv, [Next]_vars
                 PROVE  RetentionInv'
      OBVIOUS
    <2>1. CASE Write \/ \E l \in Lines : WriteClip(l)
      BY <2>1, WriteClipFits, InsertSegmentFits, AnalyseFits DEF Write
    <2>2. CASE Passes \/ AudioWindowPasses \/ \E r \in RowIds : SoftDelete(r)
      BY <2>2, RequestsFit, FilesSettleFits DEF Passes
    <2>3. CASE Sweep \/ Crash
      BY <2>3, StagesFit, ReconcileFits, UnlinkFits, SweepEndsFit DEF Sweep
    <2>4. CASE Resplit \/ \E l \in Mixed : GatherCut(l) \/ Undo(l)
      BY <2>4, GatherCutFits, WritePiecesFits, CutTurnFits, ReadPiecesFits, UndoFits DEF Resplit
    <2>5. CASE UNCHANGED vars
      <3>1. Stored' = Stored
        BY <2>5 DEF vars, Stored
      <3> QED BY <2>5, <3>1, SamePaths DEF vars, RetentionInv, Shape
    <2> QED BY <2>1, <2>2, <2>3, <2>4, <2>5 DEF Next
  <1> QED BY <1>1, <1>2, PTL DEF Spec

(* Whatever a row names is on disk, for any turns, crashes, refused        *)
(* unlinks and cuts: no sweep takes a clip before its row, nor one whose   *)
(* row is still to be written (sweep_at, write_piece, resplit). Turns put  *)
(* back by an undo are set apart.                                          *)
THEOREM ClipsOutliveTheirRows == Spec => []NamedClipsAreOnDisk
  <1>1. RetentionInv => NamedClipsAreOnDisk
    BY DEF RetentionInv, Needed, NamedClipsAreOnDisk
  <1> QED BY <1>1, RetentionInvariant, PTL
=============================================================================
