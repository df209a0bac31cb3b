---------------------------- MODULE MCScoreBoards ----------------------------
(***************************************************************************)
(* Instances of ScoreBoards for TLC: two players, the second of whom may   *)
(* post for a second character.  While that third row is in use threads    *)
(* that overlap work on different rows and no data is uploaded; without it *)
(* threads overlap in every way with one upload or with new settings, or   *)
(* work on different rows with two uploads and new settings.               *)
(***************************************************************************)
EXTENDS ScoreBoards, TLC

CONSTANTS d1, d2

Players == (d1 :> 1) @@ (d2 :> 2)
ThreeRows == {<<1, 0>>, <<2, 0>>, <<2, 1>>}
Third == <<2, 1>>

Plain == [limit |-> 2, force |-> FALSE, ascending |-> FALSE]
Forced == [limit |-> 1, force |-> TRUE, ascending |-> TRUE]
OtherSettings == {Forced}

ThirdUnused ==
  rows'[Third] = NoRow /\ lookup'[Third] = 0 /\ \A d \in Devices : Third \notin jobs'[d].keys

InFamily ==
  \/ /\ ThirdUnused
     /\ disturbed' = {} \/ nextFile' = 1 \/ (nextFile' = 2 /\ board' # Forced)
  \/ disturbed' = {} /\ nextFile' = 1
=============================================================================
