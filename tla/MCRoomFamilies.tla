--------------------------- MODULE MCRoomFamilies ---------------------------
(***************************************************************************)
(* Three families of rooms in one run, for all requests together would be  *)
(* too many.  All players use one matching key, and the key says what its  *)
(* room is like: a plain room whose flags are updated, a room with slot    *)
(* masks and no context started, or a room with lists.                     *)
(***************************************************************************)
EXTENDS MCMatchingRooms

CONSTANTS flags, masks, lists

OneKey == \A u \in Users : sess'[u].key = sess[u].key

\* What the rooms of a family are created with, and what happens to them.
InFamily ==
  OneKey /\ \A r \in RoomId :
    LET old == rooms[r]
        new == rooms'[r]
        created == ~old.live /\ new.live
        blocks == UNION {new.members[i].blocks : i \in Seats(new)}
    IN  new.live =>
          CASE new.key = flags ->
                 /\ created => new.mask \cup new.groupMask \cup new.allowed = {}
                 /\ blocks = {} /\ new.mask = {}
            [] new.key = masks ->
                 /\ created => new.allowed = {} /\ new.maxSlot < 3
                 /\ blocks = {} /\ \A u \in Users : ~sess'[u].initialized
            [] new.key = lists ->
                 /\ created => new.maxSlot = 2
                 /\ new.mask = {}
=============================================================================
