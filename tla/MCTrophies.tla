----------------------------- MODULE MCTrophies -----------------------------
(***************************************************************************)
(* Trophies with two players, in three families: uploads of one of them,   *)
(* among unlocks of one game; configurations of both games, with unlocks   *)
(* that take one step; and the page that is kept, which only the clock     *)
(* matters to.                                                             *)
(***************************************************************************)
EXTENDS Trophies

CONSTANTS uploader, mainGame

OtherGamers == Gamers \ {uploader}
Untitled == \A c \in MetaKeys : meta'[c] = Nothing
Unclocked == moment' = 0 /\ cache' = Nothing /\ (pending'[MainThread] # NoWork => pending'[MainThread].kind = "import")
OnlyIn(p) == \A k \in TrophyKeys : k[1] = p /\ k[2] # mainGame => earned'[k] = Nothing

TrophiesInFamily ==
  \/ /\ Unclocked /\ Untitled /\ pending'[MainThread] = NoWork
     /\ \A p \in Gamers : standing'[p] # "banned" /\ OnlyIn(p)
     /\ \A p \in OtherGamers : pending'[p] = NoWork
     /\ pending'[uploader] # NoWork => pending'[uploader].game = mainGame
  \/ /\ Unclocked
     /\ \A p \in Gamers : pending'[p] = NoWork
     /\ standing'[uploader] = "open" /\ OnlyIn(uploader)
  \/ /\ Untitled /\ transaction' = NoWork
     /\ \A k \in TrophyKeys : earned'[k] = Nothing
     /\ \A p \in Gamers : pending'[p] = NoWork /\ standing'[p] = "open"
=============================================================================
