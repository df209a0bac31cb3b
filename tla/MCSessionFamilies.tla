------------------------- MODULE MCSessionFamilies -------------------------
(***************************************************************************)
(* Two families of behaviours in one run: two players under changing rules *)
(* that always accept the good version, who may delete their accounts; and *)
(* two devices of one account under rules that never change, while the     *)
(* access of the account does.                                             *)
(***************************************************************************)
EXTENDS MCSessionLifecycle

InFamily ==
  \/ /\ good \in rules /\ good \in rules' /\ admin' = admin
     /\ \A c \in Conns : conn'[c].login \in OwnDevices[c] \cup {None}
  \/ /\ rules = {bad} /\ <<rules, cooldown, apply>>' = <<rules, cooldown, apply>>
     /\ \A c \in Conns : conn'[c].login \in {a1, None} /\ conn'[c].version = bad
     /\ NoneDeleted'
=============================================================================
