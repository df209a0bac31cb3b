--------------------------- MODULE MCTitleStorage ---------------------------
(***************************************************************************)
(* TitleStorage with two players who are friends and one virtual user, in  *)
(* four families: one variable with every command; data of one slot;       *)
(* commands over two slots; and the players' own variables with one        *)
(* command at a time, for the pages of friends.                            *)
(***************************************************************************)
EXTENDS TitleStorage

CONSTANT vuser

VirtualPlayers == {vuser}
Befriended == [p \in Users |-> Users \ {p}]
Conditions == {[author |-> 1, date |-> Unasked], [author |-> Unasked, date |-> 0]}

Used(table) ==
  {k \in Keys : draft'[table][k] # NoRow} \cup
  UNION {{w[1] : w \in Range(job'[u].writes)} : u \in {v \in Users : job'[v].table = table}}
Kinds == {job'[u].kind : u \in Users}

StorageInFamily ==
  LET variables == Used("variable")
      data == Used("data")
  IN  \/ data = {} /\ variables \subseteq {<<vuser, 0>>}
      \/ variables = {} /\ (data \subseteq {<<vuser, 0>>} \/ data \subseteq {<<1, 0>>})
      \/ /\ now' = 0 /\ Kinds \subseteq {"none", "set", "delete"}
         /\ data = {} /\ variables \subseteq {vuser} \X Slots
      \/ /\ Kinds \subseteq {"none", "set"} /\ \E u \in Users : job'[u] = IdleJob
         /\ data = {} /\ variables \subseteq Users \X {0}
=============================================================================
