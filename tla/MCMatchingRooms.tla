-------------------------- MODULE MCMatchingRooms --------------------------
(* Instances of MatchingRooms for TLC. *)
EXTENDS MatchingRooms, TLC

UserSymmetry == Permutations(Users)

\* A plain CreateRoom request of the given size.
Plain(slots) ==
  [world |-> 0, lobby |-> 0, maxSlots |-> slots, flags |-> {}, mask |-> {},
   groupMask |-> {}, allowed |-> {}, blocked |-> {}]

Sizes12 == {Plain(1), Plain(2)}
Sizes123 == Sizes12 \cup {Plain(3)}

\* Sizes and masks: a mask naming a slot the room lacks, and groups with a
\* password that only count when the mask selects nothing.
Masked ==
  {[Plain(n) EXCEPT !.mask = m, !.groupMask = g] :
     n \in {0, 2}, m \in {{}, {1, 3}}, g \in {{}, {2}}}

\* Worlds and lobbies, one world number beyond the 16 bits a session keeps, and a room
\* that searches pass over.
Placed ==
  {[Plain(2 - l) EXCEPT !.world = w, !.lobby = l] :
     w \in {0, WidthMod}, l \in {0, 1}}
  \cup {[Plain(2) EXCEPT !.world = WidthMod, !.flags = {"HIDDEN"}]}

\* Rooms with an allow list.
Selective == {[Plain(2) EXCEPT !.allowed = a] : a \in {{}, Users}}

AnyRequest == Sizes123 \cup Masked \cup Selective

EmptyList == {{}}
ShortLists == {blocks \in SUBSET Users : Cardinality(blocks) <= 1}
AnyMask == {{}, {2, 3}}
ClearRoomFlags == [filter : {RoomFlagBits}, attr : {{}}]
TurnMemberFlags == [filter : {MemberFlagBits}, attr : {{}, MemberFlagBits}]
=============================================================================
