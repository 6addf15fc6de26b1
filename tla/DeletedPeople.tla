--------------------------- MODULE DeletedPeople ---------------------------
(* MemoryGraph with the people who were deleted, their voiceprints kept, and *)
(* have not been heard since.                                                *)
EXTENDS MCMemoryGraph

VARIABLE forgotten

HistoryInit == Init /\ forgotten = {}

NewVoices == {rows'[r].voice : r \in DOMAIN rows' \ DOMAIN rows}

HistoryNext ==
    \/ \E v \in Voices : DeleteVoice(v, TRUE) /\ forgotten' = forgotten \union {v}
    \/ Next /\ forgotten' = forgotten \ NewVoices

HistorySpec == HistoryInit /\ [][HistoryNext]_<<vars, forgotten>>

(* store.rs: deleting a person deletes the promises made by them and to     *)
(* them, and "you owe Kira the shader link" must not survive deleting Kira. *)
DeletedPeopleAreOwedNothing ==
    \A r \in DOMAIN promises :
        forgotten \intersect {promises[r].who, promises[r].to} = {}
=============================================================================
