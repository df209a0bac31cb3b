--------------------------- MODULE RoomMembership ---------------------------
(***************************************************************************)
(* What matchmaking rooms promise, without seats, slots, flags or indexes: *)
(* a room is opened under an id that was never used, by one player who     *)
(* leads it; players enter it up to its capacity and leave it; a room      *)
(* always has a leader among its occupants; when the last one is gone the  *)
(* room closes and its id is spent.                                        *)
(***************************************************************************)
EXTENDS Naturals, FiniteSets

CONSTANTS Users, Nobody, Ids

VARIABLES open, retired, capacity, occupants, leader

vars == <<open, retired, capacity, occupants, leader>>

Init ==
  /\ open = {} /\ retired = {}
  /\ capacity = [r \in Ids |-> 0]
  /\ occupants = [r \in Ids |-> {}]
  /\ leader = [r \in Ids |-> Nobody]

Open(r, u) ==
  /\ r \notin open \cup retired
  /\ open' = open \cup {r}
  /\ capacity'[r] \in Nat \ {0}
  /\ capacity' = [capacity EXCEPT ![r] = capacity'[r]]
  /\ occupants' = [occupants EXCEPT ![r] = {u}]
  /\ leader' = [leader EXCEPT ![r] = u]
  /\ UNCHANGED retired

Enter(r, u) ==
  /\ r \in open
  /\ u \notin occupants[r]
  /\ Cardinality(occupants[r]) < capacity[r]
  /\ occupants' = [occupants EXCEPT ![r] = @ \cup {u}]
  /\ UNCHANGED <<open, retired, capacity, leader>>

Leave(r, u) ==
  /\ r \in open
  /\ u \in occupants[r] /\ occupants[r] # {u}
  /\ occupants' = [occupants EXCEPT ![r] = @ \ {u}]
  /\ \/ leader[r] # u /\ UNCHANGED leader
     \/ /\ leader[r] = u
        /\ \E heir \in occupants[r] \ {u} :
             leader' = [leader EXCEPT ![r] = heir]
  /\ UNCHANGED <<open, retired, capacity>>

Close(r, u) ==
  /\ r \in open
  /\ occupants[r] = {u}
  /\ open' = open \ {r}
  /\ retired' = retired \cup {r}
  /\ capacity' = [capacity EXCEPT ![r] = 0]
  /\ occupants' = [occupants EXCEPT ![r] = {}]
  /\ leader' = [leader EXCEPT ![r] = Nobody]

Next == \E r \in Ids, u \in Users :
          Open(r, u) \/ Enter(r, u) \/ Leave(r, u) \/ Close(r, u)

Spec == Init /\ [][Next]_vars
=============================================================================
