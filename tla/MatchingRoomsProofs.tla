------------------------ MODULE MatchingRoomsProofs ------------------------
(***************************************************************************)
(* Theorems about MatchingRooms, for every set of players, every number of *)
(* rooms and every width of the slot mask, the member-id counter and the   *)
(* session fields.                                                         *)
(*                                                                         *)
(* Three parts.  What holds of every room: types, seats, owner, FULL flag. *)
(* What the steps do to rooms: who may come, who must go, who leads, the   *)
(* cached slot counts, and the room table as an implementation of          *)
(* RoomMembership.  A step draws a room id, opens a room under one,        *)
(* changes one live room in one of four ways (somebody joins, somebody     *)
(* leaves, the last one leaves, nobody moves), or concerns no room         *)
(* (StepKinds); each theorem of this part looks at these cases, whatever   *)
(* command brought the change about.  And what searches show and what      *)
(* sessions remember: the indexes list the live rooms and no other, the    *)
(* pages of a search enumerate the rooms that match, each once, and no     *)
(* session claims a seat or a room that is not its own.                    *)
(***************************************************************************)
EXTENDS MatchingRooms, FiniteSetTheorems, TLAPS

-----------------------------------------------------------------------------
(* Member ids and seats are finite sets *)

\* There are finitely many member ids, so every set of seats is finite.
LEMMA MemberIdFinite == IsFiniteSet(MemberId)
<1> DEFINE S == 1..(SlotLimit + 1)
           G == 0..(CounterMod - 1)
           f == [p \in S \X G |-> [slot |-> p[1], gen |-> p[2]]]
<1>1. IsFiniteSet(S) /\ IsFiniteSet(G)
  BY FS_Interval, MatchingConstants
<1>2. IsFiniteSet(S \X G)
  BY <1>1, FS_Product
<1>3. f \in Surjection(S \X G, MemberId)
  <2>1. f \in [S \X G -> MemberId]
    BY DEF MemberId
  <2>2. ASSUME NEW i \in MemberId
        PROVE  \E p \in S \X G : f[p] = i
    <3>1. <<i.slot, i.gen>> \in S \X G
      BY DEF MemberId
    <3>2. f[<<i.slot, i.gen>>] = i
      BY <3>1 DEF MemberId
    <3> QED BY <3>1, <3>2
  <2> QED BY <2>1, <2>2 DEF Surjection
<1> QED BY <1>2, <1>3, FS_Surjection

\* The occupancy of a room is a number.
LEMMA SeatsFinite ==
  ASSUME NEW room
  PROVE  IsFiniteSet(Seats(room)) /\ Occupancy(room) \in Nat
<1>1. Seats(room) \in SUBSET MemberId
  BY DEF Seats
<1>2. IsFiniteSet(Seats(room))
  BY <1>1, MemberIdFinite, FS_Subset
<1> QED BY <1>2, FS_CardinalityType DEF Occupancy

-----------------------------------------------------------------------------
(* What the operations on a room preserve: types *)

\* The id a joining player is given is a member id.
LEMMA MemberIdType ==
  ASSUME NEW room \in Room, NEW s \in 1..(SlotLimit + 1)
  PROVE  /\ NextCounter(room) \in 0..(CounterMod - 1)
         /\ [slot |-> s, gen |-> NextCounter(room)] \in MemberId
BY MatchingConstants DEF Room, NextCounter, MemberId

\* Recomputing the slot counts changes the four counts and nothing else.
LEMMA RecomputeType ==
  ASSUME NEW room \in Room
  PROVE  LET new == RecomputeRoomSlotCounts(room) IN
         /\ new \in Room
         /\ new.members = room.members /\ new.owner = room.owner
         /\ new.maxSlot = room.maxSlot /\ new.counter = room.counter
         /\ new.live = room.live /\ new.key = room.key
         /\ new.world = room.world /\ new.lobby = room.lobby
         /\ new.flags = room.flags /\ new.blocked = room.blocked
<1> DEFINE V == ValidSlots(room)
<1>1. V \subseteq 1..SlotLimit /\ IsFiniteSet(V)
  <2>1. V \subseteq 1..SlotLimit
    BY MatchingConstants DEF ValidSlots, Room
  <2>2. IsFiniteSet(1..SlotLimit)
    BY FS_Interval, MatchingConstants
  <2> QED BY <2>1, <2>2, FS_Subset
<1>2. ASSUME NEW T \in SUBSET V
      PROVE  Cardinality(T) \in Nat
  BY <1>1, <1>2, FS_Subset, FS_CardinalityType
<1>3. PrivateSlots(room) \subseteq V /\ PublicSlots(room) \subseteq V
  BY DEF PrivateSlots, PublicSlots
<1>4. /\ Cardinality(PublicSlots(room)) \in Nat
      /\ Cardinality(PrivateSlots(room)) \in Nat
      /\ Cardinality(PublicSlots(room) \ TakenSlots(room)) \in Nat
      /\ Cardinality(PrivateSlots(room) \ TakenSlots(room)) \in Nat
  <2>1. /\ PublicSlots(room) \ TakenSlots(room) \in SUBSET V
        /\ PrivateSlots(room) \ TakenSlots(room) \in SUBSET V
    BY <1>3
  <2> QED BY <1>2, <1>3, <2>1
<1> QED BY <1>4 DEF RecomputeRoomSlotCounts, Room

\* AddMember gives a room, and disturbs neither its place nor its flags.
LEMMA AddMemberType ==
  ASSUME NEW room \in Room, NEW s \in 1..(SlotLimit + 1), NEW m \in Member
  PROVE  LET new == AddMember(room, s, m)
             id == [slot |-> s, gen |-> new.counter] IN
         /\ new \in Room
         /\ id \in MemberId
         /\ new.counter = NextCounter(room)
         /\ new.members = [room.members EXCEPT ![id] = m]
         /\ new.owner = room.owner /\ new.maxSlot = room.maxSlot
         /\ new.live = room.live /\ new.key = room.key
         /\ new.world = room.world /\ new.lobby = room.lobby
         /\ new.flags = room.flags /\ new.blocked = room.blocked
BY MemberIdType DEF AddMember, Room

\* RemoveMember gives a room, and clears no flag but FULL.
LEMMA RemoveMemberType ==
  ASSUME NEW room \in Room, NEW i \in MemberId
  PROVE  LET new == RemoveMember(room, i) IN
         /\ new \in Room
         /\ new.members = [room.members EXCEPT ![i] = EmptySeat]
         /\ new.owner = room.owner /\ new.maxSlot = room.maxSlot
         /\ new.live = room.live /\ new.key = room.key
         /\ new.world = room.world /\ new.lobby = room.lobby
         /\ new.flags = room.flags \ {"FULL"} /\ new.blocked = room.blocked
BY DEF RemoveMember, Room, EmptySeat, Member

\* Making i the owner gives it the OWNER bit and moves nobody.
LEMMA MakeOwnerType ==
  ASSUME NEW room \in Room, NEW i \in MemberId
  PROVE  LET new == MakeOwner(room, i) IN
         /\ new \in Room
         /\ \A j \in MemberId :
              /\ new.members[j].user = room.members[j].user
              /\ new.members[j].blocks = room.members[j].blocks
              /\ j # i => new.members[j].flags = room.members[j].flags
         /\ "OWNER" \in new.members[i].flags
         /\ new.owner = i /\ new.maxSlot = room.maxSlot
         /\ new.live = room.live /\ new.key = room.key
         /\ new.world = room.world /\ new.lobby = room.lobby
         /\ new.flags = room.flags /\ new.blocked = room.blocked
<1> DEFINE m == [room.members[i] EXCEPT !.flags = @ \cup {"OWNER"}]
           seats == [room.members EXCEPT ![i] = m]
           new == MakeOwner(room, i)
<1>1. room.members \in [MemberId -> Member] /\ room.members[i] \in Member
  BY DEF Room
<1>2. /\ m \in Member /\ "OWNER" \in m.flags
      /\ m.user = room.members[i].user /\ m.blocks = room.members[i].blocks
  BY <1>1, MatchingConstants DEF Member
<1>3. seats \in [MemberId -> Member]
  BY <1>1, <1>2
<1>4. new = [room EXCEPT !.owner = i, !.members = seats]
  BY DEF MakeOwner, Room
<1>5. new \in Room /\ new.members = seats /\ new.owner = i
  BY <1>3, <1>4 DEF Room
<1>6. /\ new.maxSlot = room.maxSlot
      /\ new.live = room.live /\ new.key = room.key
      /\ new.world = room.world /\ new.lobby = room.lobby
      /\ new.flags = room.flags /\ new.blocked = room.blocked
  BY <1>4 DEF Room
<1>7. \A j \in MemberId : seats[j] = IF j = i THEN m ELSE room.members[j]
  BY <1>1
<1> QED BY <1>2, <1>5, <1>6, <1>7

\* MarkFull gives a room, and sets no flag but FULL.
LEMMA MarkFullType ==
  ASSUME NEW room \in Room
  PROVE  LET new == MarkFull(room) IN
         /\ new \in Room
         /\ new.members = room.members /\ new.owner = room.owner
         /\ new.maxSlot = room.maxSlot /\ new.counter = room.counter
         /\ new.live = room.live /\ new.key = room.key
         /\ new.world = room.world /\ new.lobby = room.lobby
         /\ new.flags = IF IsFull(room) THEN room.flags \cup {"FULL"} ELSE room.flags
         /\ new.blocked = room.blocked
BY MatchingConstants DEF MarkFull, Room

\* The room of an unused id has the type of a room and no seats.
LEMMA NoRoomType == NoRoom \in Room /\ ~NoRoom.live /\ Seats(NoRoom) = {}
<1>1. (CHOOSE k \in Keys : TRUE) \in Keys
  BY MatchingConstants
<1> QED BY <1>1, MatchingConstants DEF NoRoom, Room, EmptySeat, Member, Seats

\* A session without a context has the type of a session.
LEMMA FreshSessionType ==
  ASSUME NEW k \in Keys, NEW on \in BOOLEAN
  PROVE  FreshSession(k, on) \in Session
BY MatchingConstants DEF FreshSession, Session

-----------------------------------------------------------------------------
(* What the operations on a room preserve: seats and occupancy *)

\* Seating a player at id adds that id to the seats.
LEMMA SeatsAdd ==
  ASSUME NEW room \in Room, NEW new, NEW id \in MemberId, NEW m \in Member,
         m.user # Nobody,
         new.members = [room.members EXCEPT ![id] = m]
  PROVE  /\ Seats(new) = Seats(room) \cup {id}
         /\ id \notin Seats(room) => Occupancy(new) = Occupancy(room) + 1
         /\ id \in Seats(room) => Occupancy(new) = Occupancy(room)
<1>1. Seats(new) = Seats(room) \cup {id}
  BY DEF Seats, Room
<1>2. IsFiniteSet(Seats(room))
  BY SeatsFinite
<1>3. id \notin Seats(room) => Occupancy(new) = Occupancy(room) + 1
  BY <1>1, <1>2, FS_AddElement DEF Occupancy
<1>4. id \in Seats(room) => Occupancy(new) = Occupancy(room)
  <2>1. id \in Seats(room) => Seats(new) = Seats(room)
    BY <1>1
  <2> QED BY <2>1 DEF Occupancy
<1> QED BY <1>1, <1>3, <1>4

\* Emptying the seat i takes that id out of the seats.
LEMMA SeatsRemove ==
  ASSUME NEW room \in Room, NEW new, NEW i \in Seats(room),
         new.members = [room.members EXCEPT ![i] = EmptySeat]
  PROVE  /\ Seats(new) = Seats(room) \ {i}
         /\ Occupancy(new) = Occupancy(room) - 1
<1>1. Seats(new) = Seats(room) \ {i}
  BY DEF Seats, Room, EmptySeat
<1>2. IsFiniteSet(Seats(room))
  BY SeatsFinite
<1> QED BY <1>1, <1>2, FS_RemoveElement DEF Occupancy

\* A room that is not full has a free slot within its size: the slot search
\* of allocMemberId, which knows nothing of the size, never goes beyond it.
LEMMA AllocatedSlotFits ==
  ASSUME NEW room \in Room, NEW s \in 1..(SlotLimit + 1),
         room.maxSlot <= SlotLimit,
         ~IsFull(room),
         IsAllocatedSlot(room, s)
  PROVE  s <= room.maxSlot /\ s \notin TakenSlots(room)
<1> DEFINE S == Seats(room)
           T == 1..(s - 1)
           seat == [t \in T |-> CHOOSE i \in S : i.slot = t]
<1>1. room.maxSlot \in Nat /\ SlotLimit \in Nat /\ s \in Nat /\ s >= 1
  BY MatchingConstants DEF Room
<1>2. IsFiniteSet(S) /\ Cardinality(S) \in Nat /\ Cardinality(S) < room.maxSlot
  BY <1>1, SeatsFinite DEF Occupancy, IsFull
<1>3. \A t \in T : seat[t] \in S /\ seat[t].slot = t
  <2> TAKE t \in T
  <2>1. t \in TakenSlots(room)
    BY DEF IsAllocatedSlot
  <2>2. \E i \in S : i.slot = t
    BY <2>1 DEF TakenSlots
  <2> QED BY <2>2
<1>4. seat \in Injection(T, S)
  <2>1. seat \in [T -> S]
    BY <1>3
  <2>2. \A t, v \in T : seat[t] = seat[v] => t = v
    BY <1>3
  <2> QED BY <2>1, <2>2 DEF Injection, IsInjective
<1>5. IsFiniteSet(T) /\ Cardinality(T) <= Cardinality(S)
  BY <1>2, <1>4, FS_Injection
<1>6. Cardinality(T) = s - 1
  <2>1. Cardinality(T) = IF 1 > s - 1 THEN 0 ELSE (s - 1) - 1 + 1
    BY <1>1, FS_Interval
  <2> QED BY <1>1, <2>1
<1>7. s <= room.maxSlot
  BY <1>1, <1>2, <1>5, <1>6
<1> QED BY <1>1, <1>7 DEF IsAllocatedSlot

-----------------------------------------------------------------------------
(* The inductive invariant of one room *)

\* In a room the slot mask can describe, members have slots of their own
\* within the room's size and the OWNER bit is the owner's alone.
SlotsOK(room) ==
  /\ \A i, j \in Seats(room) : i.slot = j.slot => i = j
  /\ \A i \in Seats(room) : i.slot <= room.maxSlot
  /\ \A i \in Seats(room) :
       "OWNER" \in room.members[i].flags <=> i = room.owner

\* What holds of every live room.  Occupancy is bounded by the size, so that
\* giving up a seat always makes the room not full; that is what the FULL
\* bit relies on.
RoomOK(room) ==
  /\ room.maxSlot >= 1
  /\ room.owner \in Seats(room)
  /\ \A i, j \in Seats(room) :
       room.members[i].user = room.members[j].user => i = j
  /\ Occupancy(room) <= room.maxSlot
  /\ "FULL" \in room.flags => IsFull(room)
  /\ IsFull(room) /\ room.maxSlot > 1 => "FULL" \in room.flags
  /\ room.maxSlot <= SlotLimit => SlotsOK(room)

RoomsOK == \A r \in RoomId : rooms[r].live => RoomOK(rooms[r])

IInv == TypeOK /\ RoomsOK

\* A room as its creator's thread builds it is sound.
LEMMA NewRoomSound ==
  ASSUME NEW u \in Users, NEW req \in CreateRequest, sess[u] \in Session,
         NEW s \in 1..(SlotLimit + 1), IsAllocatedSlot(NoRoom, s)
  PROVE  LET new == NewRoom(u, req, s) IN
         /\ new \in Room /\ new.live /\ RoomOK(new) /\ new.owner \in MemberId
         /\ Seats(new) = {new.owner} /\ new.owner.slot = 1
         /\ new.members[new.owner] = [user |-> u, flags |-> {"OWNER"}, blocks |-> {}]
         /\ new.maxSlot = IF req.maxSlots % WidthMod < 1 THEN 1
                          ELSE req.maxSlots % WidthMod
         /\ \E owned \in Room : new = RecomputeRoomSlotCounts(owned)
<1> DEFINE base ==
             [NoRoom EXCEPT
                !.live = TRUE, !.key = sess[u].key,
                !.world = IF req.world # 0 THEN req.world ELSE sess[u].worldId,
                !.lobby = IF req.lobby # 0 THEN req.lobby ELSE sess[u].lobbyId,
                !.maxSlot = IF req.maxSlots % WidthMod < 1 THEN 1
                            ELSE req.maxSlots % WidthMod,
                !.flags = req.flags \ {"FULL"},
                !.mask = req.mask, !.groupMask = req.groupMask,
                !.allowed = req.allowed, !.blocked = req.blocked]
           owner == [user |-> u, flags |-> {"OWNER"}, blocks |-> {}]
           seated == AddMember(base, s, owner)
           id == [slot |-> s, gen |-> seated.counter]
           owned == [seated EXCEPT !.owner = id]
           new == RecomputeRoomSlotCounts(owned)
<1>1. s = 1
  <2>1. TakenSlots(NoRoom) = {}
    BY NoRoomType DEF TakenSlots
  <2>2. \A t \in 1..(s - 1) : FALSE
    BY <2>1 DEF IsAllocatedSlot
  <2> QED BY <2>2, MatchingConstants
<1>2. /\ base \in Room /\ base.live
      /\ base.members = NoRoom.members /\ base.maxSlot >= 1
      /\ "FULL" \notin base.flags
      /\ base.maxSlot = IF req.maxSlots % WidthMod < 1 THEN 1
                        ELSE req.maxSlots % WidthMod
  <2>1. /\ req.world \in Nat /\ req.lobby \in Nat /\ req.maxSlots \in Nat
        /\ req.flags \in SUBSET RoomFlagBits
        /\ req.mask \in SUBSET (1..SlotLimit)
        /\ req.groupMask \in SUBSET (1..SlotLimit)
        /\ req.allowed \in SUBSET Users /\ req.blocked \in SUBSET Users
    BY DEF CreateRequest
  <2>2. /\ sess[u].key \in Keys
        /\ sess[u].worldId \in Nat /\ sess[u].lobbyId \in Nat
    BY MatchingConstants DEF Session
  <2>3. req.maxSlots % WidthMod \in Nat
    BY <2>1, MatchingConstants
  <2> DEFINE size == req.maxSlots % WidthMod
             slots == IF size < 1 THEN 1 ELSE size
             world == IF req.world # 0 THEN req.world ELSE sess[u].worldId
             lobby == IF req.lobby # 0 THEN req.lobby ELSE sess[u].lobbyId
  <2>4. size \in Nat
    BY <2>3
  <2> HIDE DEF size
  <2>5. slots \in Nat /\ slots >= 1
    BY <2>4
  <2>6. world \in Nat /\ lobby \in Nat
    BY <2>1, <2>2
  <2>7. base = [NoRoom EXCEPT
                  !.live = TRUE, !.key = sess[u].key, !.world = world,
                  !.lobby = lobby, !.maxSlot = slots,
                  !.flags = req.flags \ {"FULL"},
                  !.mask = req.mask, !.groupMask = req.groupMask,
                  !.allowed = req.allowed, !.blocked = req.blocked]
    BY DEF size
  <2> HIDE DEF slots, world, lobby, base
  <2>8. base \in Room /\ base.live /\ base.maxSlot = slots
    BY <2>1, <2>2, <2>5, <2>6, <2>7, NoRoomType DEF Room
  <2>9. base.members = NoRoom.members /\ base.flags = req.flags \ {"FULL"}
    BY <2>7, NoRoomType DEF Room
  <2> QED BY <2>5, <2>8, <2>9 DEF slots, size
<1> HIDE DEF base
<1>3. owner \in Member /\ owner.user = u /\ u # Nobody /\ "OWNER" \in owner.flags
  BY MatchingConstants DEF Member
<1> HIDE DEF owner
<1>4. /\ seated \in Room /\ id \in MemberId
      /\ seated.members = [base.members EXCEPT ![id] = owner]
      /\ seated.maxSlot = base.maxSlot
      /\ seated.live /\ seated.flags = base.flags
  BY <1>2, <1>3, AddMemberType
<1>5. id.slot = 1
  BY <1>1
<1> HIDE DEF seated, id
<1>6. /\ owned \in Room /\ owned.owner = id
      /\ owned.members = seated.members /\ owned.maxSlot = seated.maxSlot
      /\ owned.live /\ owned.flags = seated.flags
  BY <1>4 DEF Room
<1> HIDE DEF owned
<1>7. /\ new \in Room /\ new.owner = id /\ new.live
      /\ new.members = [base.members EXCEPT ![id] = owner]
      /\ new.maxSlot = base.maxSlot /\ new.flags = base.flags
  BY <1>4, <1>6, RecomputeType
<1> HIDE DEF new
<1>8. Seats(new) = {id} /\ Occupancy(new) = 1
  <2>1. Seats(base) = {} /\ Occupancy(base) = 0
    <3>1. Seats(base) = {}
      BY <1>2, NoRoomType DEF Seats
    <3> QED BY <3>1, FS_EmptySet DEF Occupancy
  <2>2. id \notin Seats(base)
    BY <2>1
  <2>3. /\ Seats(new) = Seats(base) \cup {id}
        /\ Occupancy(new) = Occupancy(base) + 1
    BY <1>2, <1>3, <1>4, <1>7, <2>2, SeatsAdd
  <2> QED BY <2>1, <2>3
<1>9. new.members[id] = owner
  BY <1>2, <1>4, <1>7 DEF Room
<1>10. new.maxSlot \in Nat /\ new.maxSlot >= 1
  BY <1>2, <1>7 DEF Room
<1>11. SlotsOK(new)
  BY <1>3, <1>5, <1>7, <1>8, <1>9, <1>10 DEF SlotsOK
<1>12. ~(IsFull(new) /\ new.maxSlot > 1)
  BY <1>8, <1>10 DEF IsFull
<1>13. RoomOK(new)
  BY <1>2, <1>7, <1>8, <1>10, <1>11, <1>12 DEF RoomOK
<1>14. NewRoom(u, req, s) = new
  BY DEF NewRoom, new, owned, id, seated, owner, base
<1>15. \E o \in Room : new = RecomputeRoomSlotCounts(o)
  BY <1>6 DEF new
<1> QED BY <1>2, <1>4, <1>5, <1>7, <1>8, <1>9, <1>13, <1>14, <1>15 DEF owner

\* A player who may join takes a seat and leaves the room sound.
LEMMA JoinSound ==
  ASSUME NEW room \in Room, room.live, RoomOK(room),
         NEW u \in Users, NEW blocks \in SUBSET Users,
         MayJoin(room, u, blocks),
         NEW s \in 1..(SlotLimit + 1), IsAllocatedSlot(room, s)
  PROVE  LET member == [user |-> u, flags |-> {}, blocks |-> blocks]
             joined == MarkFull(RecomputeRoomSlotCounts(
                                  AddMember(room, s, member)))
             id == [slot |-> s, gen |-> joined.counter]
         IN  joined \in Room /\ joined.live /\ RoomOK(joined) /\ id \in MemberId
<1> DEFINE member == [user |-> u, flags |-> {}, blocks |-> blocks]
           added == AddMember(room, s, member)
           counted == RecomputeRoomSlotCounts(added)
           joined == MarkFull(counted)
           id == [slot |-> s, gen |-> added.counter]
<1>1. member \in Member /\ member.user = u /\ u # Nobody
  BY MatchingConstants DEF Member
<1> HIDE DEF member
<1>2. /\ added \in Room /\ id \in MemberId
      /\ added.members = [room.members EXCEPT ![id] = member]
      /\ added.owner = room.owner /\ added.maxSlot = room.maxSlot
      /\ added.live = room.live /\ added.flags = room.flags
  BY <1>1, AddMemberType
<1> HIDE DEF added
<1>3. /\ counted \in Room
      /\ counted.members = added.members /\ counted.owner = room.owner
      /\ counted.maxSlot = room.maxSlot /\ counted.counter = added.counter
      /\ counted.live = room.live /\ counted.flags = room.flags
  BY <1>2, RecomputeType
<1> HIDE DEF counted
<1>4. /\ joined \in Room
      /\ joined.members = [room.members EXCEPT ![id] = member]
      /\ joined.owner = room.owner
      /\ joined.maxSlot = room.maxSlot /\ joined.counter = added.counter
      /\ joined.live = room.live
      /\ joined.flags = IF IsFull(counted) THEN room.flags \cup {"FULL"}
                        ELSE room.flags
  BY <1>2, <1>3, MarkFullType
<1> HIDE DEF joined
<1>5. /\ Seats(joined) = Seats(room) \cup {id}
      /\ id \notin Seats(room) => Occupancy(joined) = Occupancy(room) + 1
      /\ id \in Seats(room) => Occupancy(joined) = Occupancy(room)
  BY <1>1, <1>2, <1>4, SeatsAdd
<1>6. IsFull(counted) <=> IsFull(joined)
  <2>1. counted.members = joined.members
    BY <1>2, <1>3, <1>4
  <2>2. Seats(counted) = Seats(joined)
    BY <2>1 DEF Seats
  <2> QED BY <1>3, <1>4, <2>2 DEF IsFull, Occupancy
<1>7. /\ room.maxSlot \in Nat /\ Occupancy(room) \in Nat
      /\ Occupancy(room) < room.maxSlot
      /\ "FULL" \notin room.flags
  <2>1. ~IsFull(room)
    BY DEF MayJoin
  <2> QED BY <2>1, SeatsFinite DEF IsFull, RoomOK, Room
<1>8. room.members \in [MemberId -> Member]
  BY DEF Room
<1>9. Seats(room) \subseteq MemberId
  BY DEF Seats
<1>10. ASSUME NEW i \in Seats(joined)
       PROVE  joined.members[i] = IF i = id THEN member ELSE room.members[i]
  BY <1>2, <1>4, <1>5, <1>8, <1>9
<1>11. \A i \in Seats(room) : room.members[i].user # u
  BY <1>9 DEF MayJoin, SeatsOf
<1>12. \A i, j \in Seats(joined) :
         joined.members[i].user = joined.members[j].user => i = j
  BY <1>1, <1>5, <1>10, <1>11 DEF RoomOK
<1>13. ASSUME room.maxSlot <= SlotLimit
       PROVE  SlotsOK(joined)
  <2>1. s <= room.maxSlot /\ s \notin TakenSlots(room)
    BY <1>13, AllocatedSlotFits DEF MayJoin
  <2>2. id.slot = s /\ \A i \in Seats(room) : i.slot # s
    BY <2>1 DEF TakenSlots
  <2>3. id \notin Seats(room) /\ room.owner \in Seats(room)
    BY <2>2 DEF RoomOK
  <2>4. \A i \in Seats(joined) : i \in Seats(room) \/ i = id
    BY <1>5
  <2>5. SlotsOK(room)
    BY <1>13 DEF RoomOK
  <2>6. \A i, j \in Seats(joined) : i.slot = j.slot => i = j
    BY <2>2, <2>4, <2>5 DEF SlotsOK
  <2>7. \A i \in Seats(joined) : i.slot <= joined.maxSlot
    BY <1>4, <2>1, <2>2, <2>4, <2>5 DEF SlotsOK
  <2>8. \A i \in Seats(joined) :
          "OWNER" \in joined.members[i].flags <=> i = joined.owner
    <3>1. "OWNER" \notin member.flags
      BY DEF member
    <3> QED BY <1>4, <1>10, <2>3, <2>4, <2>5, <3>1 DEF SlotsOK
  <2> QED BY <2>6, <2>7, <2>8 DEF SlotsOK
<1>14. Occupancy(joined) \in Nat /\ Occupancy(joined) <= joined.maxSlot
  BY <1>4, <1>5, <1>7
<1>15. /\ "FULL" \in joined.flags => IsFull(joined)
       /\ IsFull(joined) => "FULL" \in joined.flags
  BY <1>4, <1>6, <1>7
<1>16. joined.maxSlot >= 1 /\ joined.owner \in Seats(joined)
  BY <1>4, <1>5 DEF RoomOK
<1>17. RoomOK(joined)
  BY <1>4, <1>12, <1>13, <1>14, <1>15, <1>16 DEF RoomOK
<1> QED BY <1>2, <1>4, <1>17 DEF added, counted, joined, member

\* Giving up a seat leaves room for another player; if the owner stays, the
\* room is sound.
LEMMA RemoveSound ==
  ASSUME NEW room \in Room, room.live, RoomOK(room), NEW i \in Seats(room)
  PROVE  LET left == RecomputeRoomSlotCounts(RemoveMember(room, i)) IN
         /\ left \in Room /\ left.live
         /\ Seats(left) = Seats(room) \ {i}
         /\ \A j \in Seats(left) : left.members[j] = room.members[j]
         /\ left.maxSlot = room.maxSlot /\ left.owner = room.owner
         /\ Occupancy(left) < left.maxSlot /\ "FULL" \notin left.flags
         /\ i # room.owner => RoomOK(left)
<1> DEFINE gone == RemoveMember(room, i)
           left == RecomputeRoomSlotCounts(gone)
<1>1. i \in MemberId
  BY DEF Seats
<1>2. /\ gone \in Room
      /\ gone.members = [room.members EXCEPT ![i] = EmptySeat]
      /\ gone.owner = room.owner /\ gone.maxSlot = room.maxSlot
      /\ gone.live = room.live /\ "FULL" \notin gone.flags
  BY <1>1, RemoveMemberType
<1> HIDE DEF gone
<1>3. /\ left \in Room
      /\ left.members = [room.members EXCEPT ![i] = EmptySeat]
      /\ left.owner = room.owner /\ left.maxSlot = room.maxSlot
      /\ left.live = room.live /\ "FULL" \notin left.flags
  BY <1>2, RecomputeType
<1> HIDE DEF left
<1>4. /\ Seats(left) = Seats(room) \ {i}
      /\ Occupancy(left) = Occupancy(room) - 1
  BY <1>3, SeatsRemove
<1>5. \A j \in Seats(left) : left.members[j] = room.members[j]
  BY <1>3, <1>4 DEF Seats, Room
<1>6. /\ room.maxSlot \in Nat /\ Occupancy(room) \in Nat
      /\ Occupancy(left) < left.maxSlot
  BY <1>3, <1>4, SeatsFinite DEF RoomOK, Room
<1>7. ASSUME i # room.owner
      PROVE  RoomOK(left)
  <2>1. left.owner \in Seats(left)
    BY <1>3, <1>4, <1>7 DEF RoomOK
  <2>2. \A j, k \in Seats(left) :
          left.members[j].user = left.members[k].user => j = k
    BY <1>4, <1>5 DEF RoomOK
  <2>3. Occupancy(left) <= left.maxSlot /\ ~IsFull(left) /\ left.maxSlot >= 1
    BY <1>3, <1>4, <1>6 DEF RoomOK, IsFull
  <2>4. left.maxSlot <= SlotLimit => SlotsOK(left)
    BY <1>3, <1>4, <1>5 DEF RoomOK, SlotsOK
  <2> QED BY <1>3, <2>1, <2>2, <2>3, <2>4 DEF RoomOK
<1> QED BY <1>3, <1>4, <1>5, <1>6, <1>7 DEF left, gone

\* Whoever leaves, the room that is left behind is sound: when it was the
\* owner, the heir is seated and carries the OWNER bit.
LEMMA DepartureSound ==
  ASSUME NEW room \in Room, room.live, RoomOK(room), NEW i \in Seats(room),
         NEW left \in AfterDeparture(room, i)
  PROVE  left \in Room /\ left.live /\ RoomOK(left)
<1> DEFINE gone == RecomputeRoomSlotCounts(RemoveMember(room, i))
<1>1. /\ gone \in Room /\ gone.live
      /\ Seats(gone) = Seats(room) \ {i}
      /\ \A j \in Seats(gone) : gone.members[j] = room.members[j]
      /\ gone.maxSlot = room.maxSlot /\ gone.owner = room.owner
      /\ Occupancy(gone) < gone.maxSlot /\ "FULL" \notin gone.flags
      /\ i # room.owner => RoomOK(gone)
  BY RemoveSound
<1>2. IF i = room.owner THEN \E heir \in Seats(gone) : left = MakeOwner(gone, heir)
      ELSE left = gone
  BY DEF AfterDeparture
<1> HIDE DEF gone
<1>3. CASE i # room.owner
  BY <1>1, <1>2, <1>3
<1>4. CASE i = room.owner
  <2>1. PICK heir \in Seats(gone) : left = MakeOwner(gone, heir)
    BY <1>2, <1>4
  <2>2. heir \in MemberId
    BY DEF Seats
  <2>3. /\ left \in Room /\ left.live /\ left.owner = heir
        /\ left.maxSlot = gone.maxSlot /\ left.flags = gone.flags
        /\ "OWNER" \in left.members[heir].flags
        /\ \A j \in MemberId :
             /\ left.members[j].user = gone.members[j].user
             /\ j # heir => left.members[j].flags = gone.members[j].flags
    BY <1>1, <2>1, <2>2, MakeOwnerType
  <2>4. Seats(left) = Seats(gone)
    BY <2>3 DEF Seats
  <2>5. Seats(left) \subseteq MemberId
    BY DEF Seats
  <2>6. \A j, k \in Seats(left) :
          left.members[j].user = left.members[k].user => j = k
    BY <1>1, <2>3, <2>4, <2>5 DEF RoomOK
  <2>7. Occupancy(left) = Occupancy(gone) /\ Occupancy(left) \in Nat
    BY <2>4, SeatsFinite DEF Occupancy
  <2>8. left.maxSlot \in Nat /\ left.maxSlot >= 1
    BY <1>1, <2>3 DEF RoomOK, Room
  <2>9. Occupancy(left) <= left.maxSlot /\ ~IsFull(left)
    BY <1>1, <2>3, <2>7, <2>8 DEF IsFull
  <2>10. ASSUME left.maxSlot <= SlotLimit
         PROVE  SlotsOK(left)
    <3>1. SlotsOK(room)
      BY <1>1, <2>3, <2>10 DEF RoomOK
    <3>2. \A j, k \in Seats(left) : j.slot = k.slot => j = k
      BY <1>1, <2>4, <3>1 DEF SlotsOK
    <3>3. \A j \in Seats(left) : j.slot <= left.maxSlot
      BY <1>1, <2>3, <2>4, <3>1 DEF SlotsOK
    <3>4. ASSUME NEW j \in Seats(left), j # heir
          PROVE  "OWNER" \notin left.members[j].flags
      <4>1. j \in Seats(room) /\ j # room.owner /\ j \in MemberId
        BY <1>1, <1>4, <2>4, <2>5, <3>4
      <4>2. left.members[j].flags = room.members[j].flags
        BY <1>1, <2>3, <2>4, <3>4, <4>1
      <4> QED BY <3>1, <4>1, <4>2 DEF SlotsOK
    <3> QED BY <2>3, <3>2, <3>3, <3>4 DEF SlotsOK
  <2> QED BY <1>1, <2>1, <2>3, <2>4, <2>6, <2>8, <2>9, <2>10 DEF RoomOK
<1> QED BY <1>3, <1>4
\* A room that differs from a sound one in nothing the invariant reads is
\* sound: its members' users and OWNER bits, owner, size and FULL bit agree.
LEMMA SameSeatsSound ==
  ASSUME NEW room \in Room, RoomOK(room), NEW new \in Room,
         \A i \in MemberId :
           /\ new.members[i].user = room.members[i].user
           /\ "OWNER" \in new.members[i].flags
                <=> "OWNER" \in room.members[i].flags,
         new.owner = room.owner, new.maxSlot = room.maxSlot,
         "FULL" \in new.flags <=> "FULL" \in room.flags
  PROVE  RoomOK(new)
<1>1. Seats(new) = Seats(room)
  BY DEF Seats
<1>2. Seats(room) \subseteq MemberId
  BY DEF Seats
<1>3. Occupancy(new) = Occupancy(room)
  BY <1>1 DEF Occupancy
<1>4. IsFull(new) <=> IsFull(room)
  BY <1>3 DEF IsFull
<1>5. \A i, j \in Seats(new) : new.members[i].user = new.members[j].user => i = j
  BY <1>1, <1>2 DEF RoomOK
<1>6. SlotsOK(room) => SlotsOK(new)
  BY <1>1, <1>2 DEF SlotsOK
<1> QED BY <1>1, <1>3, <1>4, <1>5, <1>6 DEF RoomOK

\* A masked update changes only bits it is allowed to.
LEMMA MaskedFlagsKeep ==
  ASSUME NEW Bits, NEW flags \in SUBSET Bits, NEW protected, NEW bit \in protected,
         NEW flag \in [filter : SUBSET Bits, attr : SUBSET Bits]
  PROVE  /\ MaskedFlags(flags, flag, protected) \in SUBSET Bits
         /\ bit \in MaskedFlags(flags, flag, protected) <=> bit \in flags
BY DEF MaskedFlags

\* SetRoomDataInternal leaves a room sound, with or without a new mask.
LEMMA RoomDataSound ==
  ASSUME NEW room \in Room, room.live, RoomOK(room),
         NEW flag \in RoomFlagRequests, NEW mask \in SUBSET (1..SlotLimit)
  PROVE  LET flagged == [room EXCEPT !.flags = MaskedFlags(@, flag, {"FULL"})]
             masked == RecomputeRoomSlotCounts([flagged EXCEPT !.mask = mask])
         IN  /\ flagged \in Room /\ flagged.live /\ RoomOK(flagged)
             /\ masked \in Room /\ masked.live /\ RoomOK(masked)
<1> DEFINE flags == MaskedFlags(room.flags, flag, {"FULL"})
           flagged == [room EXCEPT !.flags = flags]
           remasked == [flagged EXCEPT !.mask = mask]
           masked == RecomputeRoomSlotCounts(remasked)
<1>1. /\ flags \in SUBSET RoomFlagBits
      /\ "FULL" \in flags <=> "FULL" \in room.flags
  <2>1. room.flags \in SUBSET RoomFlagBits
    BY DEF Room
  <2>2. flag \in [filter : SUBSET RoomFlagBits, attr : SUBSET RoomFlagBits]
    BY MatchingConstants
  <2> QED BY <2>1, <2>2 DEF MaskedFlags
<1> HIDE DEF flags
<1>2. /\ flagged \in Room /\ flagged.live /\ flagged.members = room.members
      /\ flagged.owner = room.owner /\ flagged.maxSlot = room.maxSlot
      /\ flagged.flags = flags
  BY <1>1 DEF Room
<1> HIDE DEF flagged
<1>3. /\ remasked \in Room /\ remasked.live /\ remasked.members = room.members
      /\ remasked.owner = room.owner /\ remasked.maxSlot = room.maxSlot
      /\ remasked.flags = flags
  BY <1>2 DEF Room
<1> HIDE DEF remasked
<1>4. /\ masked \in Room /\ masked.live /\ masked.members = room.members
      /\ masked.owner = room.owner /\ masked.maxSlot = room.maxSlot
      /\ masked.flags = flags
  BY <1>3, RecomputeType
<1> HIDE DEF masked
<1>5. RoomOK(flagged)
  BY <1>1, <1>2, SameSeatsSound
<1>6. RoomOK(masked)
  BY <1>1, <1>4, SameSeatsSound
<1> QED BY <1>2, <1>4, <1>5, <1>6 DEF masked, remasked, flagged, flags

\* SetRoomMemberDataInternal leaves a room sound.
LEMMA MemberDataSound ==
  ASSUME NEW room \in Room, room.live, RoomOK(room), NEW i \in Seats(room),
         NEW flag \in MemberFlagRequests
  PROVE  LET new == [room EXCEPT !.members[i].flags =
                                    MaskedFlags(@, flag, {"OWNER"})]
         IN  new \in Room /\ new.live /\ RoomOK(new)
<1> DEFINE flags == MaskedFlags(room.members[i].flags, flag, {"OWNER"})
           m == [room.members[i] EXCEPT !.flags = flags]
           seats == [room.members EXCEPT ![i] = m]
           new == [room EXCEPT !.members = seats]
<1>1. i \in MemberId /\ room.members \in [MemberId -> Member]
      /\ room.members[i] \in Member
  BY DEF Seats, Room
<1>2. /\ flags \in SUBSET MemberFlagBits
      /\ "OWNER" \in flags <=> "OWNER" \in room.members[i].flags
  BY <1>1, MaskedFlagsKeep, MatchingConstants DEF Member
<1> HIDE DEF flags
<1>3. m \in Member /\ m.flags = flags /\ m.user = room.members[i].user
  BY <1>1, <1>2 DEF Member
<1>4. new = [room EXCEPT !.members[i].flags = flags]
  BY DEF Room
<1> HIDE DEF m
<1>5. /\ seats \in [MemberId -> Member]
      /\ \A j \in MemberId : seats[j] = IF j = i THEN m ELSE room.members[j]
  BY <1>1, <1>3
<1> HIDE DEF seats
<1>6. /\ new \in Room /\ new.live /\ new.members = seats
      /\ new.owner = room.owner /\ new.maxSlot = room.maxSlot
      /\ new.flags = room.flags
  BY <1>5 DEF Room
<1> HIDE DEF new
<1>7. RoomOK(new)
  BY <1>2, <1>3, <1>5, <1>6, SameSeatsSound
<1> QED BY <1>4, <1>6, <1>7 DEF flags

\* A kick leaves a room sound, whether or not the member is blocked.
LEMMA KickSound ==
  ASSUME NEW room \in Room, room.live, RoomOK(room),
         NEW target \in Seats(room), target # room.owner, NEW block \in BOOLEAN
  PROVE  LET kicked == room.members[target].user
             left == RecomputeRoomSlotCounts(RemoveMember(room, target))
             new == [left EXCEPT !.blocked = IF block THEN @ \cup {kicked} ELSE @]
         IN  new \in Room /\ new.live /\ RoomOK(new)
<1> DEFINE kicked == room.members[target].user
           left == RecomputeRoomSlotCounts(RemoveMember(room, target))
           blocked == IF block THEN left.blocked \cup {kicked} ELSE left.blocked
           new == [left EXCEPT !.blocked = blocked]
<1>1. left \in Room /\ left.live /\ RoomOK(left)
  BY RemoveSound
<1> HIDE DEF left
<1>2. kicked \in Users
  BY DEF Seats, Room, Member
<1>3. blocked \in SUBSET Users
  BY <1>1, <1>2 DEF Room
<1> HIDE DEF blocked
<1>4. /\ new \in Room /\ new.live /\ new.members = left.members
      /\ new.owner = left.owner /\ new.maxSlot = left.maxSlot
      /\ new.flags = left.flags
  BY <1>1, <1>3 DEF Room
<1> HIDE DEF new
<1>5. RoomOK(new)
  BY <1>1, <1>4, SameSeatsSound
<1> QED BY <1>4, <1>5 DEF new, blocked, left
-----------------------------------------------------------------------------
(* The session's records *)

\* Forgetting a room keeps the session's type.
LEMMA ResetRoomStateType ==
  ASSUME NEW s \in Session, NEW r
  PROVE  ResetRoomState(s, r) \in Session
<1> DEFINE reset == [s EXCEPT !.roomId = 0, !.myMemberId = NoMemberId,
                             !.isRoomOwner = FALSE]
<1>1. 0 \in 0..MaxRooms
  BY MatchingConstants
<1>2. reset \in Session
  BY <1>1 DEF Session
<1>3. ResetRoomState(s, r) = s \/ ResetRoomState(s, r) = reset
  BY DEF ResetRoomState
<1> QED BY <1>2, <1>3

\* Entering a room keeps the session's type: the world and lobby are cut to
\* sixteen bits.
LEMMA EnteredRoomType ==
  ASSUME NEW s \in Session, NEW r \in RoomId, NEW i \in MemberId,
         NEW owner \in BOOLEAN, NEW room \in Room
  PROVE  EnteredRoom(s, r, i, owner, room) \in Session
<1>1. room.world % WidthMod \in 0..(WidthMod - 1)
  BY MatchingConstants DEF Room
<1>2. room.lobby % WidthMod \in 0..(WidthMod - 1)
  BY MatchingConstants DEF Room
<1>3. 0 \in 0..MaxRooms /\ r \in 0..MaxRooms
  BY MatchingConstants DEF RoomId
<1> DEFINE w == room.world % WidthMod
           l == room.lobby % WidthMod
<1>4. w \in 0..(WidthMod - 1) /\ l \in 0..(WidthMod - 1)
  BY <1>1, <1>2
<1> HIDE DEF w, l
<1>5. EnteredRoom(s, r, i, owner, room) =
        [s EXCEPT !.creating = 0, !.roomId = r, !.myMemberId = i,
                  !.isRoomOwner = owner, !.worldId = w, !.lobbyId = l]
  BY DEF EnteredRoom, w, l
<1> QED BY <1>3, <1>4, <1>5 DEF Session

-----------------------------------------------------------------------------
(* The invariant is inductive *)

\* Replacing one room by a sound one keeps the table sound.
LEMMA RoomUpdate ==
  ASSUME rooms \in [RoomId -> Room], RoomsOK,
         NEW r \in RoomId, NEW new \in Room, new.live => RoomOK(new),
         rooms' = [rooms EXCEPT ![r] = new]
  PROVE  rooms' \in [RoomId -> Room] /\ RoomsOK'
<1>1. rooms' \in [RoomId -> Room]
  OBVIOUS
<1>2. ASSUME NEW q \in RoomId, rooms'[q].live
      PROVE  RoomOK(rooms'[q])
  <2>1. CASE q = r
    BY <1>2, <2>1
  <2>2. CASE q # r
    BY <1>2, <2>2 DEF RoomsOK
  <2> QED BY <2>1, <2>2
<1> QED BY <1>1, <1>2 DEF RoomsOK

\* The index entries of a room are of the index's type.
LEMMA EntriesType ==
  ASSUME NEW room \in Room, NEW r \in RoomId
  PROVE  /\ WorldEntries(room, r) \subseteq Keys \X Nat \X RoomId
         /\ LobbyEntries(room, r) \subseteq Keys \X Nat \X RoomId
BY DEF WorldEntries, LobbyEntries, Room

\* The invariant holds at the start.
LEMMA InvInit == Init => IInv
<1> SUFFICES ASSUME Init PROVE IInv
  OBVIOUS
<1>1. rooms \in [RoomId -> Room] /\ \A r \in RoomId : ~rooms[r].live
  BY NoRoomType DEF Init
<1>2. sess \in [Users -> Session]
  BY FreshSessionType DEF Init
<1>3. nextRoomId \in 1..(MaxRooms + 1)
  BY MatchingConstants DEF Init
<1>4. worldRooms = {} /\ lobbyRooms = {}
  BY DEF Init
<1> QED BY <1>1, <1>2, <1>3, <1>4 DEF IInv, TypeOK, RoomsOK

\* A member's departure, by leaving or by disconnecting.
LEMMA DepartStep ==
  ASSUME IInv, NEW r \in RoomId, rooms[r].live, NEW i \in Seats(rooms[r]),
         Depart(r, i)
  PROVE  /\ rooms' \in [RoomId -> Room] /\ RoomsOK'
         /\ worldRooms' \subseteq Keys \X Nat \X RoomId
         /\ lobbyRooms' \subseteq Keys \X Nat \X RoomId
<1>1. rooms[r] \in Room /\ RoomOK(rooms[r])
  BY DEF IInv, TypeOK, RoomsOK
<1>2. rooms \in [RoomId -> Room] /\ RoomsOK
  BY DEF IInv, TypeOK
<1>3. rooms' \in [RoomId -> Room] /\ RoomsOK'
  <2>1. CASE rooms' = [rooms EXCEPT ![r] = NoRoom]
    BY <1>2, <2>1, NoRoomType, RoomUpdate
  <2>2. CASE \E left \in AfterDeparture(rooms[r], i) :
               rooms' = [rooms EXCEPT ![r] = left]
    <3>1. PICK left \in AfterDeparture(rooms[r], i) :
                 rooms' = [rooms EXCEPT ![r] = left]
      BY <2>2
    <3>2. left \in Room /\ left.live /\ RoomOK(left)
      BY <1>1, DepartureSound
    <3> QED BY <1>2, <3>1, <3>2, RoomUpdate
  <2> QED BY <2>1, <2>2 DEF Depart
<1>4. /\ worldRooms' \subseteq worldRooms /\ lobbyRooms' \subseteq lobbyRooms
  BY DEF Depart
<1> QED BY <1>3, <1>4 DEF IInv, TypeOK

\* Every step preserves the invariant: one case per action.
LEMMA InvStep == IInv /\ [Next]_vars => IInv'
<1> SUFFICES ASSUME IInv, [Next]_vars PROVE IInv'
  OBVIOUS
<1> USE DEF IInv
<1>1. /\ rooms \in [RoomId -> Room]
      /\ worldRooms \subseteq Keys \X Nat \X RoomId
      /\ lobbyRooms \subseteq Keys \X Nat \X RoomId
      /\ nextRoomId \in 1..(MaxRooms + 1)
      /\ sess \in [Users -> Session]
  BY DEF TypeOK
<1>2. ASSUME UNCHANGED vars
      PROVE  IInv'
  BY <1>2 DEF vars, TypeOK, RoomsOK
<1>3. ASSUME NEW u \in Users, UNCHANGED <<rooms, worldRooms, lobbyRooms>>,
             NEW s \in Session, sess' = [sess EXCEPT ![u] = s],
             nextRoomId' \in 1..(MaxRooms + 1)
      PROVE  IInv'
  BY <1>1, <1>3 DEF TypeOK, RoomsOK
<1>4. ASSUME NEW u \in Users, SessionNext(u)
      PROVE  IInv'
  <2>1. sess[u] \in Session
    BY <1>1
  <2>2. ASSUME NEW k \in Keys, CmdLogin(u, k)
        PROVE  IInv'
    <3>1. FreshSession(k, TRUE) \in Session
      BY FreshSessionType
    <3> QED BY <1>1, <1>3, <2>2, <3>1 DEF CmdLogin
  <2>3. ASSUME CmdContextStart(u)
        PROVE  IInv'
    <3>1. [sess[u] EXCEPT !.initialized = TRUE] \in Session
      BY <2>1 DEF Session
    <3> QED BY <1>1, <1>3, <2>3, <3>1 DEF CmdContextStart
  <2>4. ASSUME CmdContextStop(u)
        PROVE  IInv'
    <3>1. [sess[u] EXCEPT !.initialized = FALSE] \in Session
      BY <2>1 DEF Session
    <3> QED BY <1>1, <1>3, <2>4, <3>1 DEF CmdContextStop
  <2>5. ASSUME CmdCreateRoom(u)
        PROVE  IInv'
    <3>1. nextRoomId \in 0..MaxRooms /\ nextRoomId' \in 1..(MaxRooms + 1)
      BY <1>1, <2>5, MatchingConstants DEF CmdCreateRoom
    <3>2. [sess[u] EXCEPT !.creating = nextRoomId] \in Session
      BY <2>1, <3>1 DEF Session
    <3> QED BY <1>1, <1>3, <2>5, <3>1, <3>2 DEF CmdCreateRoom
  <2>6. ASSUME NEW req \in CreateRequests, PublishRoom(u, req)
        PROVE  IInv'
    <3> DEFINE r == sess[u].creating
    <3>1. PICK s \in 1..(SlotLimit + 1) :
            /\ IsAllocatedSlot(NoRoom, s)
            /\ rooms' = [rooms EXCEPT ![r] = NewRoom(u, req, s)]
            /\ worldRooms' = worldRooms \cup WorldEntries(NewRoom(u, req, s), r)
            /\ lobbyRooms' = lobbyRooms \cup LobbyEntries(NewRoom(u, req, s), r)
            /\ sess' = [sess EXCEPT ![u] = EnteredRoom(sess[u], r,
                          NewRoom(u, req, s).owner, TRUE, NewRoom(u, req, s))]
      BY <1>1, <2>6 DEF PublishRoom
    <3> DEFINE room == NewRoom(u, req, s)
    <3>2. r \in RoomId
      BY <2>1, <2>6, MatchingConstants DEF PublishRoom, Session, RoomId
    <3>3. req \in CreateRequest
      BY MatchingConstants
    <3>4. room \in Room /\ room.live /\ RoomOK(room) /\ room.owner \in MemberId
      BY <2>1, <3>1, <3>3, NewRoomSound
    <3> HIDE DEF room, r
    <3>5. rooms' \in [RoomId -> Room] /\ RoomsOK'
      BY <1>1, <3>1, <3>2, <3>4, RoomUpdate DEF room
    <3>6. /\ worldRooms' \subseteq Keys \X Nat \X RoomId
          /\ lobbyRooms' \subseteq Keys \X Nat \X RoomId
      BY <1>1, <3>1, <3>2, <3>4, EntriesType DEF room
    <3>7. EnteredRoom(sess[u], r, room.owner, TRUE, room) \in Session
      BY <2>1, <3>2, <3>4, EnteredRoomType
    <3>8. sess' \in [Users -> Session]
      BY <1>1, <3>1, <3>7 DEF room
    <3> QED BY <1>1, <2>6, <3>5, <3>6, <3>8 DEF TypeOK, PublishRoom
  <2>7. ASSUME NEW r \in RoomId, NEW blocks \in JoinBlockLists,
               CmdJoinRoom(u, r, blocks)
        PROVE  IInv'
    <3> DEFINE member == [user |-> u, flags |-> {}, blocks |-> blocks]
               joined(s) == MarkFull(RecomputeRoomSlotCounts(
                                       AddMember(rooms[r], s, member)))
               id(s) == [slot |-> s, gen |-> joined(s).counter]
    <3>1. PICK s \in 1..(SlotLimit + 1) :
            /\ IsAllocatedSlot(rooms[r], s)
            /\ rooms' = [rooms EXCEPT ![r] = joined(s)]
            /\ sess' = [sess EXCEPT ![u] =
                          EnteredRoom(sess[u], r, id(s), FALSE, joined(s))]
      BY <1>1, <2>7 DEF CmdJoinRoom
    <3>2. /\ rooms[r] \in Room /\ rooms[r].live /\ RoomOK(rooms[r])
          /\ MayJoin(rooms[r], u, blocks) /\ blocks \in SUBSET Users
      BY <1>1, <2>7, MatchingConstants DEF CmdJoinRoom, Found, RoomsOK
    <3>3. /\ joined(s) \in Room /\ joined(s).live /\ RoomOK(joined(s))
          /\ id(s) \in MemberId
      BY <3>1, <3>2, JoinSound
    <3> HIDE DEF joined, id
    <3>4. rooms' \in [RoomId -> Room] /\ RoomsOK'
      BY <1>1, <3>1, <3>3, RoomUpdate
    <3>5. EnteredRoom(sess[u], r, id(s), FALSE, joined(s)) \in Session
      BY <2>1, <3>3, EnteredRoomType
    <3>6. sess' \in [Users -> Session]
      BY <1>1, <3>1, <3>5
    <3> QED BY <1>1, <2>7, <3>4, <3>6 DEF TypeOK, CmdJoinRoom
  <2>8. ASSUME NEW r \in RoomId, CmdLeaveRoom(u, r)
        PROVE  IInv'
    <3>1. PICK i \in SeatsOf(rooms[r], u) : Depart(r, i)
      BY <2>8 DEF CmdLeaveRoom
    <3>2. i \in Seats(rooms[r]) /\ rooms[r].live
      BY <2>8, MatchingConstants DEF CmdLeaveRoom, Found, Seats, SeatsOf
    <3>3. /\ rooms' \in [RoomId -> Room] /\ RoomsOK'
          /\ worldRooms' \subseteq Keys \X Nat \X RoomId
          /\ lobbyRooms' \subseteq Keys \X Nat \X RoomId
      BY <3>1, <3>2, DepartStep
    <3>4. sess' \in [Users -> Session]
      BY <1>1, <2>1, <2>8, ResetRoomStateType DEF CmdLeaveRoom
    <3> QED BY <1>1, <2>8, <3>3, <3>4 DEF TypeOK, CmdLeaveRoom
  <2>9. ASSUME NEW r \in RoomId, NEW target \in MemberId, NEW block \in BOOLEAN,
               CmdKickoutRoomMember(u, r, target, block)
        PROVE  IInv'
    <3> DEFINE kicked == rooms[r].members[target].user
               left == RecomputeRoomSlotCounts(RemoveMember(rooms[r], target))
               new == [left EXCEPT !.blocked =
                         IF block THEN @ \cup {kicked} ELSE @]
    <3>1. /\ target \in Seats(rooms[r]) /\ target # rooms[r].owner
          /\ rooms' = [rooms EXCEPT ![r] = new]
          /\ UNCHANGED <<worldRooms, lobbyRooms, nextRoomId, sess>>
      BY <2>9 DEF CmdKickoutRoomMember
    <3>2. rooms[r] \in Room /\ rooms[r].live /\ RoomOK(rooms[r])
      BY <1>1, <2>9 DEF CmdKickoutRoomMember, Found, RoomsOK
    <3>3. new \in Room /\ new.live /\ RoomOK(new)
      BY <3>1, <3>2, KickSound
    <3> HIDE DEF new
    <3>4. rooms' \in [RoomId -> Room] /\ RoomsOK'
      BY <1>1, <3>1, <3>3, RoomUpdate
    <3> QED BY <1>1, <3>1, <3>4 DEF TypeOK
  <2>10. ASSUME NEW r \in RoomId, NEW flag \in RoomFlagRequests,
                NEW masks \in {{}} \cup {{m} : m \in MaskRequests},
                CmdSetRoomDataInternal(u, r, flag, masks)
         PROVE  IInv'
    <3> DEFINE flagged == [rooms[r] EXCEPT !.flags = MaskedFlags(@, flag, {"FULL"})]
               masked(m) == RecomputeRoomSlotCounts([flagged EXCEPT !.mask = m])
    <3>1. /\ UNCHANGED <<worldRooms, lobbyRooms, nextRoomId, sess>>
          /\ \/ rooms' = [rooms EXCEPT ![r] = flagged]
             \/ \E m \in masks : rooms' = [rooms EXCEPT ![r] = masked(m)]
      BY <2>10 DEF CmdSetRoomDataInternal
    <3>2. rooms[r] \in Room /\ rooms[r].live /\ RoomOK(rooms[r])
      BY <1>1, <2>10 DEF CmdSetRoomDataInternal, Found, RoomsOK
    <3>3. \A m \in masks : m \in SUBSET (1..SlotLimit)
      <4>1. \A m \in masks : m \in MaskRequests
        OBVIOUS
      <4>2. MaskRequests \subseteq SUBSET (1..SlotLimit)
        BY MatchingConstants
      <4> QED BY <4>1, <4>2
    <3>4. flagged \in Room /\ RoomOK(flagged)
      BY <3>2, RoomDataSound
    <3>5. \A m \in masks : masked(m) \in Room /\ RoomOK(masked(m))
      BY <3>2, <3>3, RoomDataSound
    <3> HIDE DEF flagged, masked
    <3>6. rooms' \in [RoomId -> Room] /\ RoomsOK'
      BY <1>1, <3>1, <3>4, <3>5, RoomUpdate
    <3> QED BY <1>1, <3>1, <3>6 DEF TypeOK
  <2>11. ASSUME NEW r \in RoomId, NEW i \in MemberId,
                NEW flag \in MemberFlagRequests,
                CmdSetRoomMemberDataInternal(u, r, i, flag)
         PROVE  IInv'
    <3> DEFINE new == [rooms[r] EXCEPT !.members[i].flags =
                         MaskedFlags(@, flag, {"OWNER"})]
    <3>1. /\ i \in Seats(rooms[r])
          /\ rooms' = [rooms EXCEPT ![r] = new]
          /\ UNCHANGED <<worldRooms, lobbyRooms, nextRoomId, sess>>
      BY <1>1, <2>11 DEF CmdSetRoomMemberDataInternal
    <3>2. rooms[r] \in Room /\ rooms[r].live /\ RoomOK(rooms[r])
      BY <1>1, <2>11 DEF CmdSetRoomMemberDataInternal, Found, RoomsOK
    <3>3. new \in Room /\ RoomOK(new)
      BY <3>1, <3>2, MemberDataSound
    <3> HIDE DEF new
    <3>4. rooms' \in [RoomId -> Room] /\ RoomsOK'
      BY <1>1, <3>1, <3>3, RoomUpdate
    <3> QED BY <1>1, <3>1, <3>4 DEF TypeOK
  <2>12. ASSUME Disconnect(u)
         PROVE  IInv'
    <3> DEFINE r == sess[u].roomId
    <3>1. FreshSession(sess[u].key, FALSE) \in Session
      BY <2>1, FreshSessionType DEF Session
    <3>2. sess' \in [Users -> Session] /\ nextRoomId' = nextRoomId
      BY <1>1, <2>12, <3>1 DEF Disconnect
    <3>3. CASE UNCHANGED <<rooms, worldRooms, lobbyRooms>>
      BY <1>1, <3>2, <3>3 DEF TypeOK, RoomsOK
    <3>4. CASE /\ r \in RoomId /\ Found(u, r)
               /\ \E i \in SeatsOf(rooms[r], u) : Depart(r, i)
      <4>1. PICK i \in SeatsOf(rooms[r], u) : Depart(r, i)
        BY <3>4
      <4>2. i \in Seats(rooms[r]) /\ rooms[r].live
        BY <3>4, MatchingConstants DEF Found, Seats, SeatsOf
      <4>3. /\ rooms' \in [RoomId -> Room] /\ RoomsOK'
            /\ worldRooms' \subseteq Keys \X Nat \X RoomId
            /\ lobbyRooms' \subseteq Keys \X Nat \X RoomId
        BY <3>4, <4>1, <4>2, DepartStep
      <4> QED BY <1>1, <3>2, <4>3 DEF TypeOK
    <3> QED BY <2>12, <3>3, <3>4 DEF Disconnect
  <2> QED BY <1>4, <2>2, <2>3, <2>4, <2>5, <2>6, <2>7, <2>8, <2>9, <2>10,
             <2>11, <2>12 DEF SessionNext
<1> QED BY <1>2, <1>4 DEF Next

-----------------------------------------------------------------------------
(* Theorems *)

\* The invariant holds in every behaviour.
LEMMA Inductive == Spec => []IInv
<1> QED BY InvInit, InvStep, PTL DEF Spec

\* The variables have their types in every behaviour: the member-id counter
\* and the 16-bit session fields wrap where the code's types wrap.
THEOREM TypeCorrect == Spec => []TypeOK
<1>1. IInv => TypeOK
  BY DEF IInv
<1> QED BY <1>1, Inductive, PTL

\* No room that the slot mask can describe seats a player twice, two players
\* in one slot, or anybody beyond its size.
THEOREM SeatingAlwaysSound == Spec => []SeatingSound
<1>1. IInv => SeatingSound
  <2> SUFFICES ASSUME IInv, NEW r \in RoomId, rooms[r].live,
                      rooms[r].maxSlot <= SlotLimit
               PROVE  LET room == rooms[r] IN
                      /\ \A i, j \in Seats(room) :
                           \/ i.slot = j.slot
                           \/ room.members[i].user = room.members[j].user
                           => i = j
                      /\ TakenSlots(room) \subseteq 1..room.maxSlot
    BY DEF SeatingSound, LiveRooms
  <2>1. rooms[r] \in Room /\ RoomOK(rooms[r]) /\ SlotsOK(rooms[r])
    BY DEF IInv, TypeOK, RoomsOK, RoomOK
  <2>2. \A i \in Seats(rooms[r]) : i.slot \in 1..rooms[r].maxSlot
    BY <2>1, MatchingConstants DEF SlotsOK, Seats, MemberId, Room
  <2> QED BY <2>1, <2>2 DEF RoomOK, SlotsOK, TakenSlots
<1> QED BY <1>1, Inductive, PTL

\* In such a room the owner is seated, carries the OWNER bit, and is the only
\* member who does.
THEOREM OwnerAlwaysSound == Spec => []OwnerSound
<1>1. IInv => OwnerSound
  <2> SUFFICES ASSUME IInv, NEW r \in RoomId, rooms[r].live,
                      rooms[r].maxSlot <= SlotLimit
               PROVE  {i \in Seats(rooms[r]) :
                         "OWNER" \in rooms[r].members[i].flags}
                        = {rooms[r].owner}
    BY DEF OwnerSound, LiveRooms
  <2>1. RoomOK(rooms[r]) /\ SlotsOK(rooms[r])
    BY DEF IInv, RoomsOK, RoomOK
  <2> QED BY <2>1 DEF RoomOK, SlotsOK
<1> QED BY <1>1, Inductive, PTL

\* The FULL bit agrees with the occupancy of every live room, of any size.
THEOREM FullFlagAlwaysAgrees == Spec => []FullFlagAgrees
<1>1. IInv => FullFlagAgrees
  BY DEF IInv, RoomsOK, RoomOK, FullFlagAgrees, LiveRooms
<1> QED BY <1>1, Inductive, PTL

-----------------------------------------------------------------------------
(* The cached slot counts of one room *)

\* The cached counts are those RecomputeRoomSlotCounts would find.
CountsOK(room) ==
  /\ room.publicSlots = Cardinality(PublicSlots(room))
  /\ room.privateSlots = Cardinality(PrivateSlots(room))
  /\ room.openPublicSlots = Cardinality(PublicSlots(room) \ TakenSlots(room))
  /\ room.openPrivateSlots = Cardinality(PrivateSlots(room) \ TakenSlots(room))

\* Two rooms with the same players, size and masks need the same counts.
LEMMA SameCounts ==
  ASSUME NEW room \in Room, CountsOK(room), NEW new \in Room,
         \A i \in MemberId : new.members[i].user = room.members[i].user,
         new.maxSlot = room.maxSlot,
         new.mask = room.mask, new.groupMask = room.groupMask,
         new.publicSlots = room.publicSlots, new.privateSlots = room.privateSlots,
         new.openPublicSlots = room.openPublicSlots,
         new.openPrivateSlots = room.openPrivateSlots
  PROVE  CountsOK(new)
<1>1. ValidSlots(new) = ValidSlots(room)
  BY DEF ValidSlots
<1>2. PrivateSlots(new) = PrivateSlots(room) /\ PublicSlots(new) = PublicSlots(room)
  BY <1>1 DEF PrivateSlots, PublicSlots
<1>3. Seats(new) = Seats(room)
  BY DEF Seats
<1>4. TakenSlots(new) = TakenSlots(room)
  BY <1>3 DEF TakenSlots
<1> QED BY <1>2, <1>4 DEF CountsOK

\* RecomputeRoomSlotCounts makes the counts right and keeps the masks.
LEMMA Recomputed ==
  ASSUME NEW room \in Room
  PROVE  LET new == RecomputeRoomSlotCounts(room) IN
         /\ CountsOK(new)
         /\ new.mask = room.mask /\ new.groupMask = room.groupMask
<1> DEFINE new == RecomputeRoomSlotCounts(room)
<1>1. /\ new.members = room.members /\ new.maxSlot = room.maxSlot
      /\ new.mask = room.mask /\ new.groupMask = room.groupMask
      /\ new.publicSlots = Cardinality(PublicSlots(room))
      /\ new.privateSlots = Cardinality(PrivateSlots(room))
      /\ new.openPublicSlots = Cardinality(PublicSlots(room) \ TakenSlots(room))
      /\ new.openPrivateSlots = Cardinality(PrivateSlots(room) \ TakenSlots(room))
  BY DEF RecomputeRoomSlotCounts, Room
<1> HIDE DEF new
<1>2. ValidSlots(new) = ValidSlots(room)
  BY <1>1 DEF ValidSlots
<1>3. PrivateSlots(new) = PrivateSlots(room) /\ PublicSlots(new) = PublicSlots(room)
  BY <1>1, <1>2 DEF PrivateSlots, PublicSlots
<1>4. TakenSlots(new) = TakenSlots(room)
  BY <1>1 DEF TakenSlots, Seats
<1>5. CountsOK(new)
  BY <1>1, <1>3, <1>4 DEF CountsOK
<1> QED BY <1>1, <1>5 DEF new

-----------------------------------------------------------------------------
(* What a step may do to a room *)

\* A room that goes on stays the one it is: its size, its key and its place are
\* fixed, nobody is taken off its block list, and exact counts stay exact.
Continues(room, new) ==
  /\ new \in Room /\ new.live
  /\ new.maxSlot = room.maxSlot
  /\ new.key = room.key /\ new.world = room.world /\ new.lobby = room.lobby
  /\ room.blocked \subseteq new.blocked
  /\ CountsOK(room) => CountsOK(new)

SameMembers(room, new, members) ==
  \A i \in members :
    /\ new.members[i].user = room.members[i].user
    /\ new.members[i].blocks = room.members[i].blocks

Keeps(room, new) ==
  /\ Continues(room, new)
  /\ SameMembers(room, new, MemberId)
  /\ new.owner = room.owner

Joins(room, new, u, blocks, id) ==
  /\ Continues(room, new)
  /\ MayJoin(room, u, blocks)
  /\ id \in MemberId
  /\ room.maxSlot <= SlotLimit => id \notin Seats(room)
  /\ new.members = [room.members EXCEPT
                       ![id] = [user |-> u, flags |-> {}, blocks |-> blocks]]
  /\ new.owner = room.owner

Departs(room, new, i) ==
  /\ Continues(room, new)
  /\ i \in Seats(room)
  /\ Seats(new) = Seats(room) \ {i}
  /\ SameMembers(room, new, Seats(new))
  /\ IF i = room.owner THEN new.owner \in Seats(new) ELSE new.owner = room.owner

Opens(new, u, id) ==
  /\ new \in Room /\ new.live /\ RoomOK(new)
  /\ CountsOK(new)
  /\ Seats(new) = {id} /\ new.members[id].user = u /\ new.members[id].blocks = {}
  /\ \E req \in CreateRequests :
       new.maxSlot = IF req.maxSlots % WidthMod < 1 THEN 1 ELSE req.maxSlots % WidthMod

\* A player who joins takes one seat and moves nobody.
LEMMA JoinEffect ==
  ASSUME NEW room \in Room, room.live, RoomOK(room),
         NEW u \in Users, NEW blocks \in SUBSET Users,
         MayJoin(room, u, blocks),
         NEW s \in 1..(SlotLimit + 1), IsAllocatedSlot(room, s)
  PROVE  LET member == [user |-> u, flags |-> {}, blocks |-> blocks]
             joined == MarkFull(RecomputeRoomSlotCounts(AddMember(room, s, member)))
         IN  Joins(room, joined, u, blocks, [slot |-> s, gen |-> joined.counter])
<1> DEFINE member == [user |-> u, flags |-> {}, blocks |-> blocks]
           added == AddMember(room, s, member)
           counted == RecomputeRoomSlotCounts(added)
           joined == MarkFull(counted)
           id == [slot |-> s, gen |-> added.counter]
<1>1. member \in Member
  BY DEF Member
<1>2. /\ added \in Room /\ id \in MemberId
      /\ added.members = [room.members EXCEPT ![id] = member]
      /\ added.owner = room.owner /\ added.maxSlot = room.maxSlot
      /\ added.live = room.live /\ added.key = room.key
      /\ added.world = room.world /\ added.lobby = room.lobby
      /\ added.blocked = room.blocked
  <2>1. PICK m \in Member : m = member
    BY <1>1
  <2>2. LET new == AddMember(room, s, m)
            place == [slot |-> s, gen |-> new.counter] IN
        /\ new \in Room
        /\ place \in MemberId
        /\ new.counter = NextCounter(room)
        /\ new.members = [room.members EXCEPT ![place] = m]
        /\ new.owner = room.owner /\ new.maxSlot = room.maxSlot
        /\ new.live = room.live /\ new.key = room.key
        /\ new.world = room.world /\ new.lobby = room.lobby
        /\ new.flags = room.flags /\ new.blocked = room.blocked
    BY ONLY room \in Room, s \in 1..(SlotLimit + 1), m \in Member, AddMemberType
  <2> QED BY <2>1, <2>2
<1> HIDE DEF added
<1>3. /\ counted \in Room
      /\ counted.members = added.members /\ counted.owner = room.owner
      /\ counted.maxSlot = room.maxSlot /\ counted.counter = added.counter
      /\ counted.live = room.live /\ counted.key = room.key
      /\ counted.world = room.world /\ counted.lobby = room.lobby
      /\ counted.blocked = room.blocked
      /\ CountsOK(counted)
  BY <1>2, RecomputeType, Recomputed
<1> HIDE DEF counted
<1>4. /\ joined \in Room
      /\ joined.members = counted.members /\ joined.owner = room.owner
      /\ joined.maxSlot = room.maxSlot /\ joined.counter = added.counter
      /\ joined.live = room.live /\ joined.key = room.key
      /\ joined.world = room.world /\ joined.lobby = room.lobby
      /\ joined.blocked = room.blocked
  BY <1>3, MarkFullType
<1>5. /\ joined.mask = counted.mask /\ joined.groupMask = counted.groupMask
      /\ joined.publicSlots = counted.publicSlots
      /\ joined.privateSlots = counted.privateSlots
      /\ joined.openPublicSlots = counted.openPublicSlots
      /\ joined.openPrivateSlots = counted.openPrivateSlots
  BY <1>3 DEF MarkFull, Room
<1> HIDE DEF joined
<1>6. CountsOK(joined)
  BY <1>3, <1>4, <1>5, SameCounts
<1>7. Continues(room, joined)
  BY <1>4, <1>6 DEF Continues
<1>8. room.maxSlot <= SlotLimit => id \notin Seats(room)
  <2>1. room.maxSlot <= SlotLimit => s \notin TakenSlots(room)
    BY AllocatedSlotFits DEF MayJoin
  <2> QED BY <2>1 DEF TakenSlots
<1> QED BY <1>2, <1>3, <1>4, <1>7, <1>8 DEF Joins, joined, counted, added

\* Giving up a seat moves nobody else and leaves the owner's id as it is.
LEMMA RemoveEffect ==
  ASSUME NEW room \in Room, room.live, RoomOK(room), NEW i \in Seats(room)
  PROVE  LET left == RecomputeRoomSlotCounts(RemoveMember(room, i)) IN
         /\ Continues(room, left) /\ CountsOK(left)
         /\ left.blocked = room.blocked
         /\ Seats(left) = Seats(room) \ {i}
         /\ SameMembers(room, left, Seats(left))
         /\ left.owner = room.owner
<1> DEFINE gone == RemoveMember(room, i)
           left == RecomputeRoomSlotCounts(gone)
<1>1. i \in MemberId
  BY DEF Seats
<1>2. /\ gone \in Room
      /\ gone.key = room.key /\ gone.world = room.world /\ gone.lobby = room.lobby
      /\ gone.blocked = room.blocked
  BY <1>1, RemoveMemberType
<1> HIDE DEF gone
<1>3. /\ left.key = room.key /\ left.world = room.world /\ left.lobby = room.lobby
      /\ left.blocked = room.blocked /\ CountsOK(left)
  BY <1>2, RecomputeType, Recomputed
<1>4. /\ left \in Room /\ left.live
      /\ Seats(left) = Seats(room) \ {i}
      /\ \A j \in Seats(left) : left.members[j] = room.members[j]
      /\ left.maxSlot = room.maxSlot /\ left.owner = room.owner
  BY RemoveSound DEF gone
<1> HIDE DEF left
<1> QED BY <1>3, <1>4 DEF Continues, SameMembers, left, gone

\* Whoever leaves while others stay gives up one seat; an heir is one of those who stay.
LEMMA DepartureEffect ==
  ASSUME NEW room \in Room, room.live, RoomOK(room), NEW i \in Seats(room),
         NEW left \in AfterDeparture(room, i)
  PROVE  Departs(room, left, i)
<1> DEFINE gone == RecomputeRoomSlotCounts(RemoveMember(room, i))
<1>1. /\ Continues(room, gone) /\ CountsOK(gone)
      /\ gone.blocked = room.blocked
      /\ Seats(gone) = Seats(room) \ {i}
      /\ SameMembers(room, gone, Seats(gone))
      /\ gone.owner = room.owner
  BY RemoveEffect
<1>2. IF i = room.owner THEN \E heir \in Seats(gone) : left = MakeOwner(gone, heir)
      ELSE left = gone
  BY DEF AfterDeparture
<1> HIDE DEF gone
<1>3. CASE i # room.owner
  BY <1>1, <1>2, <1>3 DEF Departs
<1>4. CASE i = room.owner
  <2>1. PICK heir \in Seats(gone) : left = MakeOwner(gone, heir)
    BY <1>2, <1>4
  <2>2. heir \in MemberId /\ gone \in Room
    BY <1>1 DEF Seats, Continues
  <2>3. /\ left \in Room /\ left.live = gone.live /\ left.owner = heir
        /\ left.maxSlot = gone.maxSlot
        /\ left.key = gone.key /\ left.world = gone.world /\ left.lobby = gone.lobby
        /\ left.blocked = gone.blocked
        /\ \A j \in MemberId :
             /\ left.members[j].user = gone.members[j].user
             /\ left.members[j].blocks = gone.members[j].blocks
    BY <2>1, <2>2, MakeOwnerType
  <2>4. /\ left.mask = gone.mask /\ left.groupMask = gone.groupMask
        /\ left.publicSlots = gone.publicSlots
        /\ left.privateSlots = gone.privateSlots
        /\ left.openPublicSlots = gone.openPublicSlots
        /\ left.openPrivateSlots = gone.openPrivateSlots
    BY <2>1, <2>2 DEF MakeOwner, Room
  <2>5. CountsOK(left)
    BY <1>1, <2>2, <2>3, <2>4, SameCounts
  <2>6. Seats(left) = Seats(gone)
    BY <2>3 DEF Seats
  <2>7. Seats(gone) \subseteq MemberId
    BY DEF Seats
  <2>8. SameMembers(room, left, Seats(left))
    BY <1>1, <2>3, <2>6, <2>7 DEF SameMembers
  <2>9. Continues(room, left)
    BY <1>1, <2>3, <2>5 DEF Continues
  <2> QED BY <1>1, <1>4, <2>1, <2>3, <2>6, <2>8, <2>9 DEF Departs
<1> QED BY <1>3, <1>4

\* A kick is a departure, after which more may be refused.
LEMMA KickEffect ==
  ASSUME NEW room \in Room, room.live, RoomOK(room),
         NEW i \in Seats(room), i # room.owner, NEW block \in BOOLEAN
  PROVE  LET kicked == room.members[i].user
             left == RecomputeRoomSlotCounts(RemoveMember(room, i))
             new == [left EXCEPT !.blocked = IF block THEN @ \cup {kicked} ELSE @]
         IN  Departs(room, new, i)
<1> DEFINE kicked == room.members[i].user
           left == RecomputeRoomSlotCounts(RemoveMember(room, i))
           refused == IF block THEN left.blocked \cup {kicked} ELSE left.blocked
           new == [left EXCEPT !.blocked = refused]
<1>1. /\ Continues(room, left) /\ CountsOK(left)
      /\ left.blocked = room.blocked
      /\ Seats(left) = Seats(room) \ {i}
      /\ SameMembers(room, left, Seats(left))
      /\ left.owner = room.owner
  BY RemoveEffect
<1> HIDE DEF left
<1>2. kicked \in Users
  BY DEF Seats, Room, Member
<1> HIDE DEF kicked
<1>3. left \in Room /\ left.blocked \in SUBSET Users
  BY <1>1 DEF Continues, Room
<1>4. refused \in SUBSET Users /\ room.blocked \subseteq refused
  BY <1>1, <1>2, <1>3
<1> HIDE DEF refused
<1>5. /\ new \in Room
      /\ new.live = left.live /\ new.maxSlot = left.maxSlot /\ new.owner = left.owner
      /\ new.key = left.key /\ new.world = left.world /\ new.lobby = left.lobby
      /\ new.blocked = refused /\ new.members = left.members
      /\ new.mask = left.mask /\ new.groupMask = left.groupMask
      /\ new.publicSlots = left.publicSlots /\ new.privateSlots = left.privateSlots
      /\ new.openPublicSlots = left.openPublicSlots
      /\ new.openPrivateSlots = left.openPrivateSlots
  BY <1>3, <1>4 DEF Room
<1>6. new = [left EXCEPT !.blocked = IF block THEN @ \cup {kicked} ELSE @]
  BY <1>3 DEF refused, Room
<1> HIDE DEF new
<1>7. CountsOK(new)
  BY <1>1, <1>3, <1>5, SameCounts
<1>8. Continues(room, new)
  BY <1>1, <1>4, <1>5, <1>7 DEF Continues
<1>9. Seats(new) = Seats(left)
  BY <1>5 DEF Seats
<1>10. SameMembers(room, new, Seats(new))
  BY <1>1, <1>5, <1>9 DEF SameMembers
<1>11. Departs(room, new, i)
  BY <1>1, <1>5, <1>8, <1>9, <1>10 DEF Departs
<1> QED BY <1>6, <1>11 DEF left, kicked

\* SetRoomDataInternal moves nobody, with or without a new mask.
LEMMA RoomDataEffect ==
  ASSUME NEW room \in Room, room.live, RoomOK(room),
         NEW flag \in RoomFlagRequests, NEW mask \in SUBSET (1..SlotLimit)
  PROVE  LET flagged == [room EXCEPT !.flags = MaskedFlags(@, flag, {"FULL"})]
             masked == RecomputeRoomSlotCounts([flagged EXCEPT !.mask = mask])
         IN  Keeps(room, flagged) /\ Keeps(room, masked)
<1> DEFINE flagged == [room EXCEPT !.flags = MaskedFlags(@, flag, {"FULL"})]
           remasked == [flagged EXCEPT !.mask = mask]
           masked == RecomputeRoomSlotCounts(remasked)
<1>1. flagged \in Room /\ flagged.live /\ masked \in Room /\ masked.live
  BY RoomDataSound
<1>2. /\ flagged.maxSlot = room.maxSlot /\ flagged.owner = room.owner
      /\ flagged.key = room.key /\ flagged.world = room.world
      /\ flagged.lobby = room.lobby
      /\ flagged.blocked = room.blocked /\ flagged.members = room.members
      /\ flagged.mask = room.mask /\ flagged.groupMask = room.groupMask
      /\ flagged.publicSlots = room.publicSlots
      /\ flagged.privateSlots = room.privateSlots
      /\ flagged.openPublicSlots = room.openPublicSlots
      /\ flagged.openPrivateSlots = room.openPrivateSlots
  BY DEF Room
<1> HIDE DEF flagged
<1>3. Keeps(room, flagged)
  <2>1. CountsOK(room) => CountsOK(flagged)
    BY <1>1, <1>2, SameCounts
  <2> QED BY <1>1, <1>2, <2>1 DEF Keeps, Continues, SameMembers
<1>4. /\ remasked \in Room
      /\ remasked.maxSlot = room.maxSlot /\ remasked.owner = room.owner
      /\ remasked.key = room.key /\ remasked.world = room.world
      /\ remasked.lobby = room.lobby
      /\ remasked.blocked = room.blocked /\ remasked.members = room.members
  BY <1>1, <1>2 DEF Room
<1> HIDE DEF remasked
<1>5. /\ masked.maxSlot = room.maxSlot /\ masked.owner = room.owner
      /\ masked.key = room.key /\ masked.world = room.world
      /\ masked.lobby = room.lobby
      /\ masked.blocked = room.blocked /\ masked.members = room.members
      /\ CountsOK(masked)
  BY <1>4, RecomputeType, Recomputed
<1> HIDE DEF masked
<1>6. Keeps(room, masked)
  BY <1>1, <1>5 DEF Keeps, Continues, SameMembers
<1> QED BY <1>3, <1>6 DEF masked, remasked, flagged

\* SetRoomMemberDataInternal moves nobody.
LEMMA MemberDataEffect ==
  ASSUME NEW room \in Room, room.live, RoomOK(room), NEW i \in Seats(room),
         NEW flag \in MemberFlagRequests
  PROVE  Keeps(room, [room EXCEPT !.members[i].flags =
                                    MaskedFlags(@, flag, {"OWNER"})])
<1> DEFINE m == [room.members[i] EXCEPT !.flags = MaskedFlags(@, flag, {"OWNER"})]
           seats == [room.members EXCEPT ![i] = m]
           new == [room EXCEPT !.members[i].flags = MaskedFlags(@, flag, {"OWNER"})]
<1>1. new \in Room /\ new.live
  BY MemberDataSound
<1>2. i \in MemberId /\ room.members \in [MemberId -> Member]
  BY DEF Seats, Room
<1>3. m.user = room.members[i].user /\ m.blocks = room.members[i].blocks
  BY <1>2 DEF Member
<1>4. new = [room EXCEPT !.members = seats]
  BY DEF Room
<1> HIDE DEF m, new
<1>5. /\ new.maxSlot = room.maxSlot /\ new.owner = room.owner
      /\ new.key = room.key /\ new.world = room.world /\ new.lobby = room.lobby
      /\ new.blocked = room.blocked /\ new.members = seats
      /\ new.mask = room.mask /\ new.groupMask = room.groupMask
      /\ new.publicSlots = room.publicSlots /\ new.privateSlots = room.privateSlots
      /\ new.openPublicSlots = room.openPublicSlots
      /\ new.openPrivateSlots = room.openPrivateSlots
  BY <1>4 DEF Room
<1>6. SameMembers(room, new, MemberId)
  <2>1. \A j \in MemberId : seats[j] = IF j = i THEN m ELSE room.members[j]
    BY <1>2
  <2> QED BY <1>3, <1>5, <2>1 DEF SameMembers
<1>7. CountsOK(room) => CountsOK(new)
  BY <1>1, <1>5, <1>6, SameCounts DEF SameMembers
<1>8. Keeps(room, new)
  BY <1>1, <1>5, <1>6, <1>7 DEF Keeps, Continues
<1> QED BY <1>8 DEF new
\* A new room seats its creator alone, in the size it was asked for.
LEMMA NewRoomEffect ==
  ASSUME NEW u \in Users, NEW req \in CreateRequests, sess[u] \in Session,
         NEW s \in 1..(SlotLimit + 1), IsAllocatedSlot(NoRoom, s)
  PROVE  LET new == NewRoom(u, req, s) IN Opens(new, u, new.owner)
<1> DEFINE new == NewRoom(u, req, s)
<1>1. req \in CreateRequest
  BY MatchingConstants
<1>2. /\ new \in Room /\ new.live /\ RoomOK(new) /\ new.owner \in MemberId
      /\ Seats(new) = {new.owner}
      /\ new.members[new.owner] = [user |-> u, flags |-> {"OWNER"}, blocks |-> {}]
      /\ new.maxSlot = IF req.maxSlots % WidthMod < 1 THEN 1
                       ELSE req.maxSlots % WidthMod
      /\ \E owned \in Room : new = RecomputeRoomSlotCounts(owned)
  BY <1>1, NewRoomSound
<1> HIDE DEF new
<1>3. CountsOK(new)
  BY <1>2, Recomputed
<1> QED BY <1>2, <1>3 DEF Opens, new

-----------------------------------------------------------------------------
(* Room ids *)

\* An id that is not in use has no room behind it; ids in use and ids drawn for
\* a room yet to be published were drawn before; no two sessions hold one id.
IdsOK ==
  /\ \A r \in RoomId : rooms[r].live \/ rooms[r] = NoRoom
  /\ \A r \in RoomId : rooms[r].live => r < nextRoomId
  /\ \A u \in Users : sess[u].creating # 0 =>
       /\ sess[u].online
       /\ sess[u].creating < nextRoomId
       /\ ~rooms[sess[u].creating].live
       /\ \A v \in Users : sess[v].creating = sess[u].creating => v = u

\* Whoever holds an id goes on holding it, and nobody comes to hold one.
DrawsKept ==
  /\ nextRoomId' = nextRoomId
  /\ \A v \in Users : /\ sess'[v].creating = sess[v].creating
                      /\ sess[v].creating # 0 => sess'[v] = sess[v]

Draws(u) ==
  /\ nextRoomId \in RoomId /\ nextRoomId' = nextRoomId + 1
  /\ sess[u].creating = 0
  /\ sess' = [sess EXCEPT ![u].creating = nextRoomId]
  /\ sess[u].online

Publishes(u, new) ==
  /\ sess[u].creating \in RoomId
  /\ \E id \in MemberId : Opens(new, u, id)
  /\ rooms' = [rooms EXCEPT ![sess[u].creating] = new]
  /\ \E s \in Session : s.creating = 0 /\ sess' = [sess EXCEPT ![u] = s]
  /\ nextRoomId' = nextRoomId

\* The last member's departure closes the room.
Closes(room, new) == new = NoRoom /\ \E i \in MemberId : Seats(room) = {i}

Changes(room, new, u) ==
  \/ Keeps(room, new)
  \/ \E blocks \in SUBSET Users, id \in MemberId : Joins(room, new, u, blocks, id)
  \/ \E i \in MemberId : Departs(room, new, i)
  \/ Closes(room, new)

Affects(r, new, u) ==
  /\ rooms[r].live
  /\ rooms' = [rooms EXCEPT ![r] = new]
  /\ Changes(rooms[r], new, u)
  /\ DrawsKept

\* What a departure does to the room it is from.
LEMMA DepartKinds ==
  ASSUME IInv, NEW u \in Users, NEW r \in RoomId, rooms[r].live,
         NEW i \in Seats(rooms[r]), Depart(r, i), DrawsKept
  PROVE  \E new : Affects(r, new, u)
<1>1. rooms[r] \in Room /\ RoomOK(rooms[r]) /\ i \in MemberId
  BY DEF IInv, TypeOK, RoomsOK, Seats
<1>2. CASE Seats(rooms[r]) = {i} /\ rooms' = [rooms EXCEPT ![r] = NoRoom]
  BY <1>1, <1>2 DEF Affects, Changes, Closes
<1>3. CASE \E left \in AfterDeparture(rooms[r], i) : rooms' = [rooms EXCEPT ![r] = left]
  <2>1. PICK left \in AfterDeparture(rooms[r], i) : rooms' = [rooms EXCEPT ![r] = left]
    BY <1>3
  <2>2. Departs(rooms[r], left, i)
    BY <1>1, DepartureEffect
  <2>3. Affects(r, left, u)
    BY <1>1, <2>1, <2>2 DEF Affects, Changes
  <2> QED BY <2>3
<1> QED BY <1>2, <1>3 DEF Depart

\* A command of an idle or signed-off session leaves every drawn id where it is.
LEMMA IdleKeepsDraws ==
  ASSUME IInv, IdsOK, NEW u \in Users, Idle(u) \/ ~sess[u].online,
         NEW s, s.creating = 0, sess' = [sess EXCEPT ![u] = s],
         nextRoomId' = nextRoomId
  PROVE  DrawsKept
<1>1. sess[u].creating = 0
  BY DEF IdsOK, Idle
<1>2. \A v \in Users : sess'[v] = IF v = u THEN s ELSE sess[v]
  BY DEF IInv, TypeOK
<1> QED BY <1>1, <1>2 DEF DrawsKept

\* Every command draws an id, opens a room under one, changes one live room, or
\* leaves rooms and ids alone.
LEMMA StepKinds ==
  ASSUME IInv, IdsOK, NEW u \in Users, SessionNext(u)
  PROVE  \/ UNCHANGED rooms /\ (DrawsKept \/ Draws(u))
         \/ \E new : Publishes(u, new)
         \/ \E r \in RoomId : \E new : Affects(r, new, u)
<1>1. /\ rooms \in [RoomId -> Room]
      /\ sess \in [Users -> Session] /\ sess[u] \in Session
      /\ nextRoomId \in 1..(MaxRooms + 1)
      /\ \A r \in RoomId : rooms[r].live => rooms[r] \in Room /\ RoomOK(rooms[r])
  BY DEF IInv, TypeOK, RoomsOK
<1>2. ASSUME NEW k \in Keys, CmdLogin(u, k)
      PROVE  UNCHANGED rooms /\ DrawsKept
  <2>1. FreshSession(k, TRUE).creating = 0
    BY DEF FreshSession
  <2> QED BY <1>2, <2>1, IdleKeepsDraws DEF CmdLogin
<1>3. ASSUME CmdContextStart(u) \/ CmdContextStop(u)
      PROVE  UNCHANGED rooms /\ DrawsKept
  <2>1. \A b \in BOOLEAN : [sess[u] EXCEPT !.initialized = b].creating = sess[u].creating
    BY <1>1 DEF Session
  <2>2. PICK b \in BOOLEAN : sess' = [sess EXCEPT ![u] = [sess[u] EXCEPT !.initialized = b]]
    BY <1>3 DEF CmdContextStart, CmdContextStop
  <2>3. Idle(u) /\ nextRoomId' = nextRoomId /\ UNCHANGED rooms
    BY <1>3 DEF CmdContextStart, CmdContextStop
  <2>4. [sess[u] EXCEPT !.initialized = b].creating = 0
    BY <2>1, <2>3 DEF Idle
  <2>5. DrawsKept
    BY <2>2, <2>3, <2>4, IdleKeepsDraws
  <2> QED BY <2>3, <2>5
<1>4. ASSUME CmdCreateRoom(u)
      PROVE  UNCHANGED rooms /\ Draws(u)
  BY <1>1, <1>4, MatchingConstants DEF CmdCreateRoom, Idle, Draws, RoomId
<1>5. ASSUME NEW req \in CreateRequests, PublishRoom(u, req)
      PROVE  \E new : Publishes(u, new)
  <2> DEFINE r == sess[u].creating
  <2>1. PICK s \in 1..(SlotLimit + 1) :
          /\ IsAllocatedSlot(NoRoom, s)
          /\ rooms' = [rooms EXCEPT ![r] = NewRoom(u, req, s)]
          /\ sess' = [sess EXCEPT ![u] = EnteredRoom(sess[u], r,
                        NewRoom(u, req, s).owner, TRUE, NewRoom(u, req, s))]
    BY <1>1, <1>5 DEF PublishRoom
  <2> DEFINE new == NewRoom(u, req, s)
             entered == EnteredRoom(sess[u], r, new.owner, TRUE, new)
  <2>2. Opens(new, u, new.owner)
    BY <1>1, <2>1, NewRoomEffect
  <2>3. r \in RoomId /\ nextRoomId' = nextRoomId
    BY <1>1, <1>5, MatchingConstants DEF PublishRoom, Session, RoomId
  <2>4. new \in Room /\ new.owner \in MemberId
    BY <2>2 DEF Opens, RoomOK, Seats
  <2>5. rooms' = [rooms EXCEPT ![r] = new] /\ sess' = [sess EXCEPT ![u] = entered]
    BY <2>1
  <2> HIDE DEF new, r
  <2>6. entered \in Session
    BY <1>1, <2>3, <2>4, EnteredRoomType
  <2>7. entered.creating = 0
    BY <1>1 DEF EnteredRoom, Session
  <2> HIDE DEF entered
  <2>8. Publishes(u, new)
    BY <2>2, <2>3, <2>4, <2>5, <2>6, <2>7 DEF Publishes, r
  <2> QED BY <2>8
<1>6. ASSUME NEW r \in RoomId, NEW blocks \in JoinBlockLists, CmdJoinRoom(u, r, blocks)
      PROVE  \E new : Affects(r, new, u)
  <2> DEFINE member == [user |-> u, flags |-> {}, blocks |-> blocks]
             joined(s) == MarkFull(RecomputeRoomSlotCounts(
                                     AddMember(rooms[r], s, member)))
             id(s) == [slot |-> s, gen |-> joined(s).counter]
             entered(s) == EnteredRoom(sess[u], r, id(s), FALSE, joined(s))
  <2>1. PICK s \in 1..(SlotLimit + 1) :
          /\ IsAllocatedSlot(rooms[r], s)
          /\ rooms' = [rooms EXCEPT ![r] = joined(s)]
          /\ sess' = [sess EXCEPT ![u] = entered(s)]
    BY <1>1, <1>6 DEF CmdJoinRoom
  <2>2. /\ rooms[r] \in Room /\ rooms[r].live /\ RoomOK(rooms[r])
        /\ MayJoin(rooms[r], u, blocks) /\ blocks \in SUBSET Users
        /\ Idle(u) /\ nextRoomId' = nextRoomId
    BY <1>1, <1>6, MatchingConstants DEF CmdJoinRoom, Found
  <2>3. Joins(rooms[r], joined(s), u, blocks, id(s))
    BY <2>1, <2>2, JoinEffect
  <2>4. entered(s).creating = 0
    BY <1>1 DEF EnteredRoom, Session
  <2> HIDE DEF joined, id, entered
  <2>5. DrawsKept
    BY <2>1, <2>2, <2>4, IdleKeepsDraws
  <2>6. id(s) \in MemberId
    BY <2>3 DEF Joins
  <2>7. Affects(r, joined(s), u)
    BY <2>1, <2>2, <2>3, <2>5, <2>6 DEF Affects, Changes
  <2> QED BY <2>7
<1>7. ASSUME NEW r \in RoomId, CmdLeaveRoom(u, r)
      PROVE  \E new : Affects(r, new, u)
  <2>1. PICK i \in SeatsOf(rooms[r], u) : Depart(r, i)
    BY <1>7 DEF CmdLeaveRoom
  <2>2. i \in Seats(rooms[r]) /\ rooms[r].live
    BY <1>7, MatchingConstants DEF CmdLeaveRoom, Found, Seats, SeatsOf
  <2>3. /\ Idle(u) /\ nextRoomId' = nextRoomId
        /\ sess' = [sess EXCEPT ![u] = ResetRoomState(sess[u], r)]
    BY <1>1, <1>7 DEF CmdLeaveRoom
  <2>4. ResetRoomState(sess[u], r).creating = 0
    BY <1>1, <2>3 DEF ResetRoomState, Idle, Session
  <2>5. DrawsKept
    BY <2>3, <2>4, IdleKeepsDraws
  <2> QED BY <2>1, <2>2, <2>5, DepartKinds
<1>8. ASSUME NEW r \in RoomId, NEW target \in MemberId, NEW block \in BOOLEAN,
             CmdKickoutRoomMember(u, r, target, block)
      PROVE  \E new : Affects(r, new, u)
  <2> DEFINE kicked == rooms[r].members[target].user
             left == RecomputeRoomSlotCounts(RemoveMember(rooms[r], target))
             new == [left EXCEPT !.blocked = IF block THEN @ \cup {kicked} ELSE @]
  <2>1. /\ target \in Seats(rooms[r]) /\ target # rooms[r].owner
        /\ rooms' = [rooms EXCEPT ![r] = new]
        /\ UNCHANGED <<nextRoomId, sess>> /\ rooms[r].live
    BY <1>8 DEF CmdKickoutRoomMember, Found
  <2>2. Departs(rooms[r], new, target)
    BY <1>1, <2>1, KickEffect
  <2> HIDE DEF new
  <2>3. DrawsKept
    BY <2>1 DEF DrawsKept
  <2>4. Affects(r, new, u)
    BY <2>1, <2>2, <2>3 DEF Affects, Changes
  <2> QED BY <2>4
<1>9. ASSUME NEW r \in RoomId, NEW flag \in RoomFlagRequests,
             NEW masks \in {{}} \cup {{m} : m \in MaskRequests},
             CmdSetRoomDataInternal(u, r, flag, masks)
      PROVE  \E new : Affects(r, new, u)
  <2> DEFINE flagged == [rooms[r] EXCEPT !.flags = MaskedFlags(@, flag, {"FULL"})]
             masked(m) == RecomputeRoomSlotCounts([flagged EXCEPT !.mask = m])
  <2>1. /\ UNCHANGED <<nextRoomId, sess>> /\ rooms[r].live
        /\ \/ rooms' = [rooms EXCEPT ![r] = flagged]
           \/ \E m \in masks : rooms' = [rooms EXCEPT ![r] = masked(m)]
    BY <1>9 DEF CmdSetRoomDataInternal, Found
  <2>2. \A m \in masks : m \in SUBSET (1..SlotLimit)
    <3>1. \A m \in masks : m \in MaskRequests
      OBVIOUS
    <3>2. MaskRequests \subseteq SUBSET (1..SlotLimit)
      BY MatchingConstants
    <3> QED BY <3>1, <3>2
  <2>3. Keeps(rooms[r], flagged)
    <3>1. {} \in SUBSET (1..SlotLimit)
      OBVIOUS
    <3> QED BY <1>1, <2>1, <3>1, RoomDataEffect
  <2>4. \A m \in masks : Keeps(rooms[r], masked(m))
    BY <1>1, <2>1, <2>2, RoomDataEffect
  <2> HIDE DEF flagged, masked
  <2>5. DrawsKept
    BY <2>1 DEF DrawsKept
  <2>6. PICK new : rooms' = [rooms EXCEPT ![r] = new] /\ Keeps(rooms[r], new)
    BY <2>1, <2>3, <2>4
  <2>7. Affects(r, new, u)
    BY <2>1, <2>5, <2>6 DEF Affects, Changes
  <2> QED BY <2>7
<1>10. ASSUME NEW r \in RoomId, NEW i \in MemberId, NEW flag \in MemberFlagRequests,
              CmdSetRoomMemberDataInternal(u, r, i, flag)
       PROVE  \E new : Affects(r, new, u)
  <2> DEFINE new == [rooms[r] EXCEPT !.members[i].flags =
                       MaskedFlags(@, flag, {"OWNER"})]
  <2>1. /\ i \in Seats(rooms[r]) /\ rooms[r].live
        /\ rooms' = [rooms EXCEPT ![r] = new]
        /\ UNCHANGED <<nextRoomId, sess>>
    BY <1>1, <1>10 DEF CmdSetRoomMemberDataInternal, Found
  <2>2. Keeps(rooms[r], new)
    BY <1>1, <2>1, MemberDataEffect
  <2> HIDE DEF new
  <2>3. DrawsKept
    BY <2>1 DEF DrawsKept
  <2>4. Affects(r, new, u)
    BY <2>1, <2>2, <2>3 DEF Affects, Changes
  <2> QED BY <2>4
<1>11. ASSUME Disconnect(u)
       PROVE  \/ UNCHANGED rooms /\ DrawsKept
              \/ \E r \in RoomId : \E new : Affects(r, new, u)
  <2> DEFINE r == sess[u].roomId
  <2>1. FreshSession(sess[u].key, FALSE).creating = 0
    BY DEF FreshSession
  <2>2. /\ Idle(u) /\ nextRoomId' = nextRoomId
        /\ sess' = [sess EXCEPT ![u] = FreshSession(sess[u].key, FALSE)]
    BY <1>1, <1>11 DEF Disconnect
  <2>3. DrawsKept
    BY <2>1, <2>2, IdleKeepsDraws
  <2>4. CASE UNCHANGED rooms
    BY <2>3, <2>4
  <2>5. CASE /\ r \in RoomId /\ Found(u, r)
             /\ \E i \in SeatsOf(rooms[r], u) : Depart(r, i)
    <3>1. PICK i \in SeatsOf(rooms[r], u) : Depart(r, i)
      BY <2>5
    <3>2. i \in Seats(rooms[r]) /\ rooms[r].live
      BY <2>5, MatchingConstants DEF Found, Seats, SeatsOf
    <3>3. \E new : Affects(r, new, u)
      BY <2>3, <2>5, <3>1, <3>2, DepartKinds
    <3> QED BY <2>5, <3>3
  <2> QED BY <1>11, <2>4, <2>5 DEF Disconnect
<1> QED BY <1>2, <1>3, <1>4, <1>5, <1>6, <1>7, <1>8, <1>9, <1>10, <1>11 DEF SessionNext
\* The ids stay sound, whichever kind of step is taken.
LEMMA IdsStep ==
  ASSUME IInv, IdsOK, NEW u \in Users, SessionNext(u)
  PROVE  IdsOK'
<1>1. /\ rooms \in [RoomId -> Room] /\ sess \in [Users -> Session]
      /\ nextRoomId \in Nat
  BY MatchingConstants DEF IInv, TypeOK
<1>2. /\ \A r \in RoomId : r \in Nat
      /\ \A v \in Users : sess[v].creating # 0 => sess[v].creating \in RoomId
  BY <1>1, MatchingConstants DEF RoomId, Session
<1>3. CASE UNCHANGED rooms /\ DrawsKept
  BY <1>3 DEF IdsOK, DrawsKept
<1>4. CASE UNCHANGED rooms /\ Draws(u)
  <2>1. \A v \in Users : sess'[v].creating = IF v = u THEN nextRoomId ELSE sess[v].creating
    BY <1>1, <1>4 DEF Draws, Session
  <2>2. \A v \in Users : sess'[v].online = sess[v].online
    BY <1>1, <1>4 DEF Draws, Session
  <2>3. /\ nextRoomId' = nextRoomId + 1 /\ nextRoomId \in RoomId
        /\ sess[u].online /\ rooms' = rooms
    BY <1>4 DEF Draws
  <2>4. ~rooms[nextRoomId].live
    BY <1>1, <2>3 DEF IdsOK
  <2>5. \A v \in Users : sess'[v].creating # 0 =>
          /\ sess'[v].online
          /\ sess'[v].creating < nextRoomId + 1
          /\ ~rooms[sess'[v].creating].live
          /\ \A w \in Users : sess'[w].creating = sess'[v].creating => w = v
    <3> TAKE v \in Users
    <3> HAVE sess'[v].creating # 0
    <3>1. CASE v = u
      <4>1. \A w \in Users : sess[w].creating # nextRoomId
        <5>1. nextRoomId # 0
          BY <2>3, MatchingConstants DEF RoomId
        <5>2. ASSUME NEW w \in Users, sess[w].creating # 0
              PROVE  sess[w].creating < nextRoomId /\ sess[w].creating \in Nat
          BY <1>2, <5>2 DEF IdsOK
        <5> QED BY <1>1, <5>1, <5>2
      <4> QED BY <1>1, <2>1, <2>2, <2>3, <2>4, <3>1, <4>1
    <3>2. CASE v # u
      <4>1. sess'[v].creating = sess[v].creating /\ sess[v].creating # 0
        BY <2>1, <3>2
      <4>2. sess[v].creating \in Nat /\ sess[v].creating < nextRoomId
        BY <1>2, <4>1 DEF IdsOK
      <4>3. \A w \in Users : sess'[w].creating = sess'[v].creating => w = v
        BY <1>1, <2>1, <4>1, <4>2 DEF IdsOK
      <4> QED BY <1>1, <2>2, <4>1, <4>2, <4>3 DEF IdsOK
    <3> QED BY <3>1, <3>2
  <2>6. \A r \in RoomId : rooms[r].live => r < nextRoomId + 1
    BY <1>1, <1>2 DEF IdsOK
  <2> QED BY <2>3, <2>5, <2>6 DEF IdsOK
<1>5. CASE \E new : Publishes(u, new)
  <2> DEFINE q == sess[u].creating
  <2>1. PICK new : Publishes(u, new)
    BY <1>5
  <2>2. /\ q \in RoomId /\ q # 0 /\ new.live
        /\ rooms' = [rooms EXCEPT ![q] = new] /\ nextRoomId' = nextRoomId
    BY <2>1, MatchingConstants DEF Publishes, Opens, RoomId
  <2>3. PICK s \in Session : s.creating = 0 /\ sess' = [sess EXCEPT ![u] = s]
    BY <2>1 DEF Publishes
  <2>4. \A v \in Users : sess'[v] = IF v = u THEN s ELSE sess[v]
    BY <1>1, <2>3
  <2>5. \A r \in RoomId : rooms'[r] = IF r = q THEN new ELSE rooms[r]
    BY <1>1, <2>2
  <2>6. q < nextRoomId /\ \A v \in Users : sess[v].creating = q => v = u
    BY <2>2 DEF IdsOK
  <2> HIDE DEF q
  <2>7. /\ \A r \in RoomId : rooms'[r].live \/ rooms'[r] = NoRoom
        /\ \A r \in RoomId : rooms'[r].live => r < nextRoomId
    BY <2>2, <2>5, <2>6 DEF IdsOK
  <2>8. \A v \in Users : sess'[v].creating # 0 =>
          /\ v # u /\ sess'[v] = sess[v] /\ sess[v].creating \in RoomId
          /\ sess[v].creating # q
    BY <1>2, <2>3, <2>4, <2>6
  <2>9. \A v \in Users : sess'[v].creating # 0 =>
          /\ sess'[v].online
          /\ sess'[v].creating < nextRoomId
          /\ ~rooms'[sess'[v].creating].live
          /\ \A w \in Users : sess'[w].creating = sess'[v].creating => w = v
    <3> TAKE v \in Users
    <3> HAVE sess'[v].creating # 0
    <3>1. /\ sess'[v] = sess[v] /\ sess[v].creating # 0
          /\ rooms'[sess[v].creating] = rooms[sess[v].creating]
      BY <2>5, <2>8
    <3>2. ASSUME NEW w \in Users, sess'[w].creating = sess'[v].creating
          PROVE  w = v
      BY <2>8, <3>1, <3>2 DEF IdsOK
    <3> QED BY <3>1, <3>2 DEF IdsOK
  <2> QED BY <2>2, <2>7, <2>9 DEF IdsOK
<1>6. CASE \E r \in RoomId : \E new : Affects(r, new, u)
  <2>1. PICK r \in RoomId : \E new : Affects(r, new, u)
    BY <1>6
  <2>2. PICK new : Affects(r, new, u)
    BY <2>1
  <2>3. /\ rooms[r].live /\ DrawsKept
        /\ \A q \in RoomId : rooms'[q] = IF q = r THEN new ELSE rooms[q]
    BY <1>1, <2>2 DEF Affects
  <2>4. new.live \/ new = NoRoom
    BY <2>2 DEF Affects, Changes, Keeps, Joins, Departs, Closes, Continues
  <2>5. ~NoRoom.live
    BY NoRoomType
  <2>6. /\ \A q \in RoomId : rooms'[q].live \/ rooms'[q] = NoRoom
        /\ \A q \in RoomId : rooms'[q].live => q < nextRoomId
    BY <2>3, <2>4 DEF IdsOK
  <2>7. \A v \in Users : sess[v].creating # 0 =>
          rooms'[sess[v].creating] = rooms[sess[v].creating]
    BY <1>2, <2>3 DEF IdsOK
  <2> QED BY <2>3, <2>6, <2>7 DEF IdsOK, DrawsKept
<1> QED BY <1>3, <1>4, <1>5, <1>6, StepKinds

-----------------------------------------------------------------------------
(* What a change of one room preserves *)

RefusalsOK(room) ==
  \A i, j \in Seats(room) :
    i # j => room.members[i].user \notin room.members[j].blocks

LiveOK(room) == CountsOK(room) /\ RefusalsOK(room)

\* A new room has nobody to refuse, and its counts are right.
LEMMA OpensOK ==
  ASSUME NEW new, NEW u \in Users, NEW id \in MemberId, Opens(new, u, id)
  PROVE  LiveOK(new)
BY DEF Opens, LiveOK, RefusalsOK

\* Whatever happens to a room, its counts stay right and no two who refuse each
\* other come to share it.
LEMMA ChangesOK ==
  ASSUME NEW room \in Room, LiveOK(room), NEW new, new.live, NEW u \in Users,
         Changes(room, new, u)
  PROVE  LiveOK(new)
<1>1. Seats(room) \subseteq MemberId
  BY DEF Seats
<1>2. CASE Keeps(room, new)
  <2>1. Seats(new) = Seats(room)
    BY <1>2 DEF Keeps, SameMembers, Seats
  <2>2. CountsOK(new)
    BY <1>2 DEF Keeps, Continues, LiveOK
  <2>3. RefusalsOK(new)
    BY <1>1, <1>2, <2>1 DEF Keeps, SameMembers, RefusalsOK, LiveOK
  <2> QED BY <2>2, <2>3 DEF LiveOK
<1>3. ASSUME NEW blocks \in SUBSET Users, NEW id \in MemberId,
             Joins(room, new, u, blocks, id)
      PROVE  LiveOK(new)
  <2> DEFINE member == [user |-> u, flags |-> {}, blocks |-> blocks]
  <2>1. member \in Member /\ member.user = u /\ member.blocks = blocks /\ u # Nobody
    BY MatchingConstants DEF Member
  <2>2. new.members = [room.members EXCEPT ![id] = member]
    BY <1>3 DEF Joins
  <2> HIDE DEF member
  <2>3. Seats(new) = Seats(room) \cup {id}
    BY <2>1, <2>2, SeatsAdd
  <2>4. \A i \in MemberId : new.members[i] = IF i = id THEN member ELSE room.members[i]
    BY <2>2 DEF Room
  <2>5. \A i \in Seats(room) :
          room.members[i].user \notin blocks /\ u \notin room.members[i].blocks
    BY <1>3 DEF Joins, MayJoin, BlockedByMember
  <2>6. ASSUME NEW i \in Seats(new), NEW j \in Seats(new), i # j
        PROVE  new.members[i].user \notin new.members[j].blocks
    <3>1. CASE i = id
      <4>1. j \in Seats(room) /\ new.members[j] = room.members[j]
        BY <1>1, <2>3, <2>4, <2>6, <3>1
      <4>2. new.members[i].user = u
        BY <2>1, <2>4, <3>1
      <4> QED BY <2>5, <4>1, <4>2
    <3>2. CASE j = id
      <4>1. i \in Seats(room) /\ new.members[i] = room.members[i]
        BY <1>1, <2>3, <2>4, <2>6, <3>2
      <4>2. new.members[j].blocks = blocks
        BY <2>1, <2>4, <3>2
      <4> QED BY <2>5, <4>1, <4>2
    <3>3. CASE i # id /\ j # id
      <4>1. /\ i \in Seats(room) /\ new.members[i] = room.members[i]
            /\ j \in Seats(room) /\ new.members[j] = room.members[j]
        BY <1>1, <2>3, <2>4, <3>3
      <4> QED BY <2>6, <4>1 DEF LiveOK, RefusalsOK
    <3> QED BY <3>1, <3>2, <3>3
  <2>7. CountsOK(new)
    BY <1>3 DEF Joins, Continues, LiveOK
  <2> QED BY <2>6, <2>7 DEF LiveOK, RefusalsOK
<1>4. ASSUME NEW i \in MemberId, Departs(room, new, i)
      PROVE  LiveOK(new)
  <2>1. /\ CountsOK(new) /\ Seats(new) \subseteq Seats(room)
        /\ SameMembers(room, new, Seats(new))
    BY <1>4 DEF Departs, Continues, LiveOK
  <2>2. RefusalsOK(new)
    BY <2>1 DEF SameMembers, RefusalsOK, LiveOK
  <2> QED BY <2>1, <2>2 DEF LiveOK
<1>5. CASE Closes(room, new)
  BY <1>5, NoRoomType DEF Closes
<1> QED BY <1>2, <1>3, <1>4, <1>5 DEF Changes
-----------------------------------------------------------------------------
(* The strengthened invariant *)

SInv == IInv /\ IdsOK /\ \A r \in RoomId : rooms[r].live => LiveOK(rooms[r])

\* What a step does to each room, its number being all that matters.
LEMMA RoomStep ==
  ASSUME SInv, [Next]_vars, NEW r \in RoomId
  PROVE  \/ rooms'[r] = rooms[r]
         \/ /\ ~rooms[r].live
            /\ \E u \in Users, id \in MemberId : Opens(rooms'[r], u, id)
         \/ /\ rooms[r].live
            /\ \E u \in Users : Changes(rooms[r], rooms'[r], u)
<1>1. rooms \in [RoomId -> Room] /\ IInv /\ IdsOK
  BY DEF SInv, IInv, TypeOK
<1>2. CASE UNCHANGED vars
  BY <1>2 DEF vars
<1>3. ASSUME NEW u \in Users, SessionNext(u)
      PROVE  \/ rooms'[r] = rooms[r]
             \/ /\ ~rooms[r].live
                /\ \E v \in Users, id \in MemberId : Opens(rooms'[r], v, id)
             \/ /\ rooms[r].live
                /\ \E v \in Users : Changes(rooms[r], rooms'[r], v)
  <2>1. CASE UNCHANGED rooms
    BY <2>1
  <2>2. ASSUME NEW new, Publishes(u, new)
        PROVE  \/ rooms'[r] = rooms[r]
               \/ /\ ~rooms[r].live
                  /\ \E v \in Users, id \in MemberId : Opens(rooms'[r], v, id)
    <3>1. sess[u].creating \in RoomId /\ sess[u].creating # 0
      BY <2>2, MatchingConstants DEF Publishes, RoomId
    <3>2. ~rooms[sess[u].creating].live
      BY <1>1, <3>1 DEF IdsOK
    <3> QED BY <1>1, <2>2, <3>1, <3>2 DEF Publishes
  <2>3. ASSUME NEW q \in RoomId, NEW new, Affects(q, new, u)
        PROVE  \/ rooms'[r] = rooms[r]
               \/ /\ rooms[r].live
                  /\ \E v \in Users : Changes(rooms[r], rooms'[r], v)
    BY <1>1, <2>3 DEF Affects
  <2> QED BY <1>1, <1>3, <2>1, <2>2, <2>3, StepKinds
<1> QED BY <1>2, <1>3 DEF Next

\* The strengthened invariant holds in every behaviour.
LEMMA StrongInductive == Spec => []SInv
<1>1. Init => SInv
  <2> SUFFICES ASSUME Init PROVE SInv
    OBVIOUS
  <2>1. \A r \in RoomId : rooms[r] = NoRoom /\ ~rooms[r].live
    BY NoRoomType DEF Init
  <2>2. \A u \in Users : sess[u].creating = 0
    BY DEF Init, FreshSession
  <2> QED BY <2>1, <2>2, InvInit DEF SInv, IdsOK
<1>2. SInv /\ [Next]_vars => SInv'
  <2> SUFFICES ASSUME SInv, [Next]_vars PROVE SInv'
    OBVIOUS
  <2>1. IInv /\ IdsOK
    BY DEF SInv
  <2>2. IInv'
    BY <2>1, InvStep
  <2>3. IdsOK'
    <3>1. CASE UNCHANGED vars
      BY <2>1, <3>1 DEF vars, IdsOK
    <3>2. CASE \E u \in Users : SessionNext(u)
      BY <2>1, <3>2, IdsStep
    <3> QED BY <3>1, <3>2 DEF Next
  <2>4. ASSUME NEW r \in RoomId, rooms'[r].live
        PROVE  LiveOK(rooms'[r])
    <3>1. rooms[r] \in Room /\ (rooms[r].live => LiveOK(rooms[r]))
      BY <2>1 DEF SInv, IInv, TypeOK
    <3>2. CASE rooms'[r] = rooms[r]
      BY <2>4, <3>1, <3>2
    <3>3. CASE \E u \in Users, id \in MemberId : Opens(rooms'[r], u, id)
      BY <3>3, OpensOK
    <3>4. CASE rooms[r].live /\ \E u \in Users : Changes(rooms[r], rooms'[r], u)
      BY <2>4, <3>1, <3>4, ChangesOK
    <3> QED BY <3>2, <3>3, <3>4, RoomStep
  <2> QED BY <2>2, <2>3, <2>4 DEF SInv
<1> QED BY <1>1, <1>2, PTL DEF Spec

-----------------------------------------------------------------------------
(* Theorems *)

\* Ownership of a room passes on only when its owner has given up the seat, and
\* only to somebody who was in the room and stays there.
THEOREM HandoverOrderly == Spec => OwnershipHandover
<1>1. ASSUME SInv, [Next]_vars, NEW r \in RoomId,
             rooms[r].live, rooms'[r].live, rooms'[r].owner # rooms[r].owner
      PROVE  /\ rooms[r].owner \notin Seats(rooms'[r])
             /\ rooms'[r].owner \in Seats(rooms[r]) \cap Seats(rooms'[r])
  <2>1. PICK u \in Users : Changes(rooms[r], rooms'[r], u)
    BY <1>1, RoomStep
  <2>2. rooms'[r] # NoRoom
    BY <1>1, NoRoomType
  <2>3. PICK i \in MemberId : Departs(rooms[r], rooms'[r], i)
    BY <1>1, <2>1, <2>2 DEF Changes, Keeps, Joins, Closes
  <2> QED BY <1>1, <2>3 DEF Departs
<1>2. SInv /\ [Next]_vars =>
        [\A r \in RoomId :
           rooms[r].live /\ rooms'[r].live /\ rooms'[r].owner # rooms[r].owner =>
             /\ rooms[r].owner \notin Seats(rooms'[r])
             /\ rooms'[r].owner \in Seats(rooms[r]) \cap Seats(rooms'[r])]_vars
  BY <1>1
<1> QED BY <1>2, StrongInductive, PTL DEF Spec, OwnershipHandover

\* Nobody comes to share a room with somebody he refuses or who refuses him, and a
\* player on a room's block list does not come in while the room lives.
THEOREM RefusalsHold == Spec => BlocksHold
<1>1. SInv => NoRefusedPair
  BY DEF SInv, LiveOK, RefusalsOK, NoRefusedPair, LiveRooms
<1>2. ASSUME SInv, [Next]_vars, NEW r \in RoomId, NEW u \in Users,
             rooms[r].live, rooms'[r].live,
             u \in rooms[r].blocked, SeatsOf(rooms[r], u) = {}
      PROVE  u \in rooms'[r].blocked /\ SeatsOf(rooms'[r], u) = {}
  <2>1. rooms[r] \in Room /\ u # Nobody /\ Seats(rooms[r]) \subseteq MemberId
    BY <1>2, MatchingConstants DEF SInv, IInv, TypeOK, Seats
  <2>2. CASE rooms'[r] = rooms[r]
    BY <1>2, <2>2
  <2>3. ASSUME NEW v \in Users, Changes(rooms[r], rooms'[r], v)
        PROVE  u \in rooms'[r].blocked /\ SeatsOf(rooms'[r], u) = {}
    <3>1. rooms'[r] # NoRoom
      BY <1>2, NoRoomType
    <3>2. CASE Keeps(rooms[r], rooms'[r])
      BY <1>2, <3>2 DEF Keeps, Continues, SameMembers, SeatsOf
    <3>3. ASSUME NEW blocks \in SUBSET Users, NEW id \in MemberId,
                 Joins(rooms[r], rooms'[r], v, blocks, id)
          PROVE  u \in rooms'[r].blocked /\ SeatsOf(rooms'[r], u) = {}
      <4> DEFINE member == [user |-> v, flags |-> {}, blocks |-> blocks]
      <4>1. v # u
        BY <1>2, <3>3 DEF Joins, MayJoin
      <4>2. rooms'[r].members = [rooms[r].members EXCEPT ![id] = member]
        BY <3>3 DEF Joins
      <4>3. member.user = v
        OBVIOUS
      <4> HIDE DEF member
      <4>4. \A i \in MemberId :
              rooms'[r].members[i] = IF i = id THEN member ELSE rooms[r].members[i]
        BY <2>1, <4>2 DEF Room
      <4>5. SeatsOf(rooms'[r], u) = {}
        BY <1>2, <4>1, <4>3, <4>4 DEF SeatsOf
      <4> QED BY <1>2, <3>3, <4>5 DEF Joins, Continues
    <3>4. ASSUME NEW i \in MemberId, Departs(rooms[r], rooms'[r], i)
          PROVE  u \in rooms'[r].blocked /\ SeatsOf(rooms'[r], u) = {}
      <4>1. ASSUME NEW j \in SeatsOf(rooms'[r], u)
            PROVE  FALSE
        <5>1. j \in Seats(rooms'[r]) /\ rooms'[r].members[j].user = u
          BY <2>1 DEF SeatsOf, Seats
        <5>2. j \in MemberId /\ rooms[r].members[j].user = u
          BY <3>4, <5>1 DEF Departs, SameMembers, Seats
        <5> QED BY <1>2, <5>2 DEF SeatsOf
      <4> QED BY <1>2, <3>4, <4>1 DEF Departs, Continues
    <3> QED BY <2>3, <3>1, <3>2, <3>3, <3>4 DEF Changes, Closes
  <2> QED BY <1>2, <2>2, <2>3, RoomStep
<1>3. SInv /\ [Next]_vars =>
        [\A r \in RoomId, u \in Users :
           /\ rooms[r].live /\ rooms'[r].live
           /\ u \in rooms[r].blocked /\ SeatsOf(rooms[r], u) = {}
           => /\ u \in rooms'[r].blocked
              /\ SeatsOf(rooms'[r], u) = {}]_vars
  BY <1>2
<1> QED BY <1>1, <1>3, StrongInductive, PTL DEF Spec, BlocksHold, KickBlockHolds

\* In every room that the slot mask can describe, the cached counts of public and
\* private slots add up to the room's size, and those of the open slots to its free
\* seats.
THEOREM SlotCountsAlwaysExact == Spec => []SlotCountsExact
<1>1. ASSUME NEW room \in Room, RoomOK(room), LiveOK(room), room.maxSlot <= SlotLimit
      PROVE  /\ room.publicSlots + room.privateSlots = room.maxSlot
             /\ room.openPublicSlots + room.openPrivateSlots + Occupancy(room)
                  = room.maxSlot
             /\ room.openPublicSlots <= room.publicSlots
             /\ room.openPrivateSlots <= room.privateSlots
  <2> DEFINE V == ValidSlots(room)
             P == PublicSlots(room)
             Q == PrivateSlots(room)
             T == TakenSlots(room)
  <2>1. room.maxSlot \in Nat /\ V = 1..room.maxSlot
    BY <1>1, MatchingConstants DEF Room, ValidSlots
  <2>2. IsFiniteSet(V) /\ Cardinality(V) = room.maxSlot
    <3>1. /\ IsFiniteSet(1..room.maxSlot)
          /\ Cardinality(1..room.maxSlot) =
               IF 1 > room.maxSlot THEN 0 ELSE room.maxSlot - 1 + 1
      BY <2>1, FS_Interval
    <3> QED BY <2>1, <3>1
  <2>3. /\ Q \in SUBSET V /\ P = V \ Q
    BY DEF PrivateSlots, PublicSlots
  <2>4. T \in SUBSET V
    BY <1>1, <2>1, MatchingConstants DEF RoomOK, SlotsOK, TakenSlots, Seats, MemberId
  <2>5. IsFiniteSet(T) /\ Cardinality(T) = Occupancy(room)
    <3> DEFINE S == Seats(room)
               slot == [i \in S |-> i.slot]
    <3>1. IsFiniteSet(S)
      BY SeatsFinite
    <3>2. slot \in Bijection(S, T)
      <4>1. slot \in [S -> T]
        BY DEF TakenSlots
      <4>2. \A i, j \in S : slot[i] = slot[j] => i = j
        BY <1>1 DEF RoomOK, SlotsOK
      <4>3. \A t \in T : \E i \in S : slot[i] = t
        BY DEF TakenSlots
      <4> QED BY <4>1, <4>2, <4>3 DEF Bijection, Injection, IsInjective, Surjection
    <3> QED BY <3>1, <3>2, FS_Bijection DEF Occupancy, ExistsBijection
  <2> HIDE DEF V, P, Q, T
  <2>6. Cardinality(V \ T) = Cardinality(V) - Cardinality(T)
    <3>1. V \cap T = T
      BY <2>4
    <3> QED BY <2>2, <3>1, FS_Difference
  <2>7. ASSUME NEW A \in SUBSET V, NEW B, A \cap B = {}, B \in SUBSET V
        PROVE  /\ Cardinality(A \cup B) = Cardinality(A) + Cardinality(B)
               /\ Cardinality(A) \in Nat /\ Cardinality(B) \in Nat
    <3>1. IsFiniteSet(A) /\ IsFiniteSet(B)
      BY <2>2, <2>7, FS_Subset
    <3>2. Cardinality(A \cap B) = 0
      BY <2>7, FS_EmptySet
    <3>3. Cardinality(A) \in Nat /\ Cardinality(B) \in Nat
      BY <3>1, FS_CardinalityType
    <3>4. Cardinality(A \cup B) =
            Cardinality(A) + Cardinality(B) - Cardinality(A \cap B)
      BY <3>1, FS_Union
    <3> QED BY <3>2, <3>3, <3>4
  <2>8. Cardinality(P) + Cardinality(Q) = Cardinality(V)
    <3>1. P \cup Q = V /\ P \cap Q = {} /\ P \in SUBSET V
      BY <2>3
    <3> QED BY <2>3, <2>7, <3>1
  <2>9. Cardinality(P \ T) + Cardinality(Q \ T) = Cardinality(V \ T)
    <3>1. /\ (P \ T) \cup (Q \ T) = V \ T /\ (P \ T) \cap (Q \ T) = {}
          /\ P \ T \in SUBSET V /\ Q \ T \in SUBSET V
      BY <2>3
    <3> QED BY <2>7, <3>1
  <2>10. ASSUME NEW A \in SUBSET V
         PROVE  /\ Cardinality(A \ T) <= Cardinality(A)
                /\ Cardinality(A) \in Nat /\ Cardinality(A \ T) \in Nat
    <3>1. IsFiniteSet(A)
      BY <2>2, FS_Subset
    <3>2. A \ T \in SUBSET A
      OBVIOUS
    <3> QED BY <3>1, <3>2, FS_Subset, FS_CardinalityType
  <2>11. /\ room.publicSlots = Cardinality(P) /\ room.privateSlots = Cardinality(Q)
         /\ room.openPublicSlots = Cardinality(P \ T)
         /\ room.openPrivateSlots = Cardinality(Q \ T)
    BY <1>1 DEF LiveOK, CountsOK, P, Q, T
  <2>12. /\ Cardinality(P \ T) <= Cardinality(P)
         /\ Cardinality(Q \ T) <= Cardinality(Q)
    BY <2>3, <2>10
  <2>13. Cardinality(T) \in Nat
    BY <2>5, FS_CardinalityType
  <2> QED BY <2>1, <2>2, <2>5, <2>6, <2>8, <2>9, <2>11, <2>12, <2>13
<1>2. SInv => SlotCountsExact
  <2> SUFFICES ASSUME SInv, NEW r \in RoomId, rooms[r].live,
                      rooms[r].maxSlot <= SlotLimit
               PROVE  LET room == rooms[r] IN
                      /\ room.publicSlots + room.privateSlots = room.maxSlot
                      /\ room.openPublicSlots + room.openPrivateSlots + Occupancy(room)
                           = room.maxSlot
                      /\ room.openPublicSlots <= room.publicSlots
                      /\ room.openPrivateSlots <= room.privateSlots
    BY DEF SlotCountsExact, LiveRooms
  <2>1. rooms[r] \in Room /\ RoomOK(rooms[r]) /\ LiveOK(rooms[r])
    BY DEF SInv, IInv, TypeOK, RoomsOK
  <2> QED BY <1>1, <2>1
<1> QED BY <1>2, StrongInductive, PTL
-----------------------------------------------------------------------------
(* The room table implements RoomMembership *)

\* What RoomMembership sees of the table, one name for each of its variables.
Retired == {r \in RoomId : Spent(r)}
Capacities == [r \in RoomId |-> rooms[r].maxSlot]
OccupantsOf == [r \in RoomId |-> Occupants(rooms[r])]
Leader(room) == IF room.live THEN room.members[room.owner].user ELSE Nobody
Leaders == [r \in RoomId |-> Leader(rooms[r])]

\* No request asks for a room larger than the slot mask can describe; in a larger
\* one a member id may be handed out twice, and its first holder is forgotten.
SmallRequests == \A req \in CreateRequests : req.maxSlots % WidthMod <= SlotLimit

SmallRooms == \A r \in RoomId : rooms[r].live => rooms[r].maxSlot <= SlotLimit

\* Changing one room changes one value of each of the abstract variables.
LEMMA AbstractUpdate ==
  ASSUME rooms \in [RoomId -> Room], NEW r \in RoomId, NEW new,
         rooms' = [rooms EXCEPT ![r] = new]
  PROVE  /\ LiveRooms' = IF new.live THEN LiveRooms \cup {r} ELSE LiveRooms \ {r}
         /\ Capacities' = [Capacities EXCEPT ![r] = new.maxSlot]
         /\ OccupantsOf' = [OccupantsOf EXCEPT ![r] = Occupants(new)]
         /\ Leaders' = [Leaders EXCEPT ![r] = Leader(new)]
<1>1. \A q \in RoomId : rooms'[q] = IF q = r THEN new ELSE rooms[q]
  OBVIOUS
<1>2. LiveRooms' = IF new.live THEN LiveRooms \cup {r} ELSE LiveRooms \ {r}
  BY <1>1 DEF LiveRooms
<1>3. Capacities' = [Capacities EXCEPT ![r] = new.maxSlot]
  BY <1>1 DEF Capacities
<1>4. OccupantsOf' = [OccupantsOf EXCEPT ![r] = Occupants(new)]
  BY <1>1 DEF OccupantsOf
<1>5. Leaders' = [Leaders EXCEPT ![r] = Leader(new)]
  BY <1>1 DEF Leaders
<1> QED BY <1>2, <1>3, <1>4, <1>5

\* RoomMembership counts as FiniteSets does.
LEMMA SameCardinality == \A S : Membership!Cardinality(S) = Cardinality(S)
BY DEF Membership!Cardinality, Cardinality

\* There are no more occupants than seats taken.
LEMMA FewOccupants ==
  ASSUME NEW room \in Room
  PROVE  Cardinality(Occupants(room)) <= Occupancy(room)
         /\ Cardinality(Occupants(room)) \in Nat
<1> DEFINE S == Seats(room)
           user == [i \in S |-> room.members[i].user]
<1>1. IsFiniteSet(S)
  BY SeatsFinite
<1>2. user \in Surjection(S, Occupants(room))
  BY DEF Surjection, Occupants
<1>3. /\ IsFiniteSet(Occupants(room))
      /\ Cardinality(Occupants(room)) <= Cardinality(S)
  BY <1>1, <1>2, FS_Surjection
<1> QED BY <1>3, FS_CardinalityType DEF Occupancy

\* An idle step, and one that draws an id, retire nothing.
LEMMA RetiredKept ==
  ASSUME IInv, IdsOK, NEW u \in Users, UNCHANGED rooms, DrawsKept \/ Draws(u)
  PROVE  Retired' = Retired
<1>1. sess \in [Users -> Session] /\ nextRoomId \in Nat /\ 0 \notin RoomId
      /\ RoomId \subseteq Nat
  BY MatchingConstants DEF IInv, TypeOK, RoomId
<1>2. CASE DrawsKept
  BY <1>2 DEF DrawsKept, Retired, Spent
<1>3. CASE Draws(u)
  <2>1. \A v \in Users : sess'[v].creating = IF v = u THEN nextRoomId ELSE sess[v].creating
    BY <1>1, <1>3 DEF Draws, Session
  <2>2. nextRoomId' = nextRoomId + 1 /\ sess[u].creating = 0
    BY <1>3 DEF Draws
  <2>3. ASSUME NEW r \in RoomId
        PROVE  Spent(r)' <=> Spent(r)
    <3>1. r \in Nat /\ r # 0
      BY <1>1
    <3>2. CASE r = nextRoomId
      BY <2>1, <3>1, <3>2 DEF Spent
    <3>3. CASE r # nextRoomId
      <4>1. (r < nextRoomId + 1) <=> (r < nextRoomId)
        BY <1>1, <3>1, <3>3
      <4>2. \A v \in Users : sess'[v].creating # r <=> sess[v].creating # r
        BY <2>1, <2>2, <3>1, <3>3
      <4>3. rooms'[r].live <=> rooms[r].live
        OBVIOUS
      <4> QED BY <2>2, <4>1, <4>2, <4>3 DEF Spent
    <3> QED BY <3>2, <3>3
  <2> QED BY <2>3 DEF Retired
<1> QED BY <1>2, <1>3

\* Publishing a room opens it.
LEMMA PublishOpens ==
  ASSUME IInv, IdsOK, NEW u \in Users, NEW new, Publishes(u, new),
         NEW r \in RoomId, r = sess[u].creating
  PROVE  Membership!Open(r, u)
<1>1. /\ rooms \in [RoomId -> Room] /\ sess \in [Users -> Session]
      /\ r \in RoomId /\ r # 0 /\ rooms' = [rooms EXCEPT ![r] = new]
      /\ nextRoomId' = nextRoomId
  BY MatchingConstants DEF IInv, TypeOK, Publishes, RoomId
<1>2. PICK s \in Session : s.creating = 0 /\ sess' = [sess EXCEPT ![u] = s]
  BY DEF Publishes
<1>3. PICK id \in MemberId : Opens(new, u, id)
  BY DEF Publishes
<1>4. ~rooms[r].live
  BY <1>1 DEF IdsOK
<1>5. \A v \in Users : sess'[v] = IF v = u THEN s ELSE sess[v]
  BY <1>1, <1>2
<1>6. /\ new.live /\ new.maxSlot \in Nat \ {0}
      /\ Occupants(new) = {u} /\ Leader(new) = u
  <2>1. new.maxSlot \in Nat /\ new.maxSlot >= 1
    BY <1>3 DEF Opens, RoomOK, Room
  <2>2. Seats(new) = {id} /\ new.members[id].user = u /\ new.owner = id /\ new.live
    BY <1>3 DEF Opens, RoomOK
  <2> QED BY <2>1, <2>2 DEF Occupants, Leader
<1>7. r \notin LiveRooms /\ r \notin Retired
  BY <1>1, <1>4 DEF LiveRooms, Retired, Spent
<1>8. /\ LiveRooms' = LiveRooms \cup {r}
      /\ Capacities' = [Capacities EXCEPT ![r] = new.maxSlot]
      /\ OccupantsOf' = [OccupantsOf EXCEPT ![r] = {u}]
      /\ Leaders' = [Leaders EXCEPT ![r] = u]
  <2>1. /\ LiveRooms' = IF new.live THEN LiveRooms \cup {r} ELSE LiveRooms \ {r}
        /\ Capacities' = [Capacities EXCEPT ![r] = new.maxSlot]
        /\ OccupantsOf' = [OccupantsOf EXCEPT ![r] = Occupants(new)]
        /\ Leaders' = [Leaders EXCEPT ![r] = Leader(new)]
    BY <1>1, AbstractUpdate
  <2> QED BY <1>6, <2>1
<1>9. Retired' = Retired
  <2>1. ASSUME NEW q \in RoomId
        PROVE  Spent(q)' <=> Spent(q)
    <3>1. CASE q = r
      BY <1>1, <1>6, <1>7, <3>1 DEF Spent, Retired
    <3>2. CASE q # r
      <4>1. rooms'[q] = rooms[q]
        BY <1>1, <3>2
      <4>2. \A v \in Users : sess'[v].creating # q <=> sess[v].creating # q
        BY <1>1, <1>2, <1>5, <3>2, MatchingConstants DEF RoomId
      <4> QED BY <1>1, <4>1, <4>2 DEF Spent
    <3> QED BY <3>1, <3>2
  <2> QED BY <2>1 DEF Retired
<1>10. Capacities'[r] = new.maxSlot
  BY <1>1, <1>8 DEF Capacities
<1>11. /\ r \notin LiveRooms \cup Retired
       /\ Capacities'[r] \in Nat \ {0}
       /\ Capacities' = [Capacities EXCEPT ![r] = Capacities'[r]]
  BY <1>6, <1>7, <1>8, <1>10
<1> QED BY <1>8, <1>9, <1>11
        DEF Membership!Open, Retired, Capacities, OccupantsOf, Leaders, Leader
\* A step that leaves what RoomMembership sees as it is.
LEMMA KeepsStutters ==
  ASSUME IInv, IdsOK, NEW u \in Users, NEW r \in RoomId, NEW new,
         rooms[r].live, rooms' = [rooms EXCEPT ![r] = new], DrawsKept,
         Keeps(rooms[r], new)
  PROVE  UNCHANGED Membership!vars
<1>1. rooms \in [RoomId -> Room] /\ rooms[r] \in Room /\ RoomOK(rooms[r])
  BY DEF IInv, TypeOK, RoomsOK
<1>2. Seats(new) = Seats(rooms[r]) /\ Seats(new) \subseteq MemberId
  BY DEF Keeps, SameMembers, Seats
<1>3. /\ new.live /\ new.maxSlot = rooms[r].maxSlot
      /\ Occupants(new) = Occupants(rooms[r])
      /\ Leader(new) = Leader(rooms[r])
  <2>1. new.live /\ new.maxSlot = rooms[r].maxSlot
    BY DEF Keeps, Continues
  <2>2. Occupants(new) = Occupants(rooms[r])
    BY <1>2 DEF Keeps, SameMembers, Occupants
  <2>3. rooms[r].owner \in MemberId
    BY <1>1, <1>2 DEF RoomOK
  <2>4. Leader(new) = Leader(rooms[r])
    BY <2>1, <2>3 DEF Keeps, SameMembers, Leader
  <2> QED BY <2>1, <2>2, <2>4
<1>4. \A q \in RoomId : rooms'[q] = IF q = r THEN new ELSE rooms[q]
  BY <1>1
<1>5. LiveRooms' = LiveRooms /\ Retired' = Retired
  BY <1>3, <1>4 DEF LiveRooms, Retired, Spent, DrawsKept
<1>6. /\ Capacities' = Capacities /\ OccupantsOf' = OccupantsOf
      /\ Leaders' = Leaders
  BY <1>3, <1>4 DEF Capacities, OccupantsOf, Leaders
<1> QED BY <1>5, <1>6
        DEF Membership!vars, Retired, Capacities, OccupantsOf, Leaders, Leader

\* Joining a room enters it, below its capacity.
LEMMA JoinEnters ==
  ASSUME IInv, IdsOK, SmallRooms, NEW u \in Users, NEW r \in RoomId, NEW new,
         rooms[r].live, rooms' = [rooms EXCEPT ![r] = new], DrawsKept,
         NEW blocks \in SUBSET Users, NEW id \in MemberId,
         Joins(rooms[r], new, u, blocks, id)
  PROVE  Membership!Enter(r, u)
<1> DEFINE room == rooms[r]
           member == [user |-> u, flags |-> {}, blocks |-> blocks]
<1>1. /\ rooms \in [RoomId -> Room] /\ room \in Room /\ RoomOK(room)
      /\ room.maxSlot <= SlotLimit
  BY DEF IInv, TypeOK, RoomsOK, SmallRooms
<1>2. /\ new.live /\ new.maxSlot = room.maxSlot /\ new.owner = room.owner
      /\ id \notin Seats(room) /\ MayJoin(room, u, blocks)
      /\ new.members = [room.members EXCEPT ![id] = member]
  BY <1>1 DEF Joins, Continues
<1>3. member.user = u /\ member \in Member /\ u # Nobody
  BY MatchingConstants DEF Member
<1> HIDE DEF member
<1>4. /\ \A i \in MemberId : new.members[i] = IF i = id THEN member ELSE room.members[i]
      /\ Seats(new) = Seats(room) \cup {id}
  <2>1. Seats(new) = Seats(room) \cup {id}
    BY <1>1, <1>2, <1>3, SeatsAdd
  <2> QED BY <1>1, <1>2, <2>1 DEF Room
<1>5. Seats(room) \subseteq MemberId /\ room.owner \in Seats(room) /\ room.live
  BY <1>1 DEF Seats, RoomOK
<1>6. Occupants(new) = Occupants(room) \cup {u}
  BY <1>2, <1>3, <1>4, <1>5 DEF Occupants
<1>7. Leader(new) = Leader(room)
  BY <1>2, <1>4, <1>5 DEF Leader
<1>8. u \notin Occupants(room)
  BY <1>2, <1>5 DEF MayJoin, SeatsOf, Occupants
<1>9. Cardinality(Occupants(room)) < room.maxSlot
  <2>1. room.maxSlot \in Nat /\ Occupancy(room) \in Nat /\ ~(Occupancy(room) >= room.maxSlot)
    BY <1>1, <1>2, SeatsFinite DEF Room, MayJoin, IsFull
  <2>2. /\ Cardinality(Occupants(room)) <= Occupancy(room)
        /\ Cardinality(Occupants(room)) \in Nat
    BY <1>1, FewOccupants
  <2> QED BY <2>1, <2>2
<1> HIDE DEF room
<1>10. \A q \in RoomId : rooms'[q] = IF q = r THEN new ELSE rooms[q]
  BY <1>1
<1>11. /\ LiveRooms' = LiveRooms /\ Retired' = Retired /\ Capacities' = Capacities
       /\ Leaders' = Leaders
  <2>1. LiveRooms' = LiveRooms /\ Retired' = Retired
    BY <1>2, <1>5, <1>10 DEF room, LiveRooms, Retired, Spent, DrawsKept
  <2>2. Capacities' = Capacities /\ Leaders' = Leaders
    BY <1>2, <1>7, <1>10 DEF room, Capacities, Leaders
  <2> QED BY <2>1, <2>2
<1>12. OccupantsOf' = [OccupantsOf EXCEPT ![r] = OccupantsOf[r] \cup {u}]
  <2>1. OccupantsOf' = [OccupantsOf EXCEPT ![r] = Occupants(new)]
    BY <1>1, AbstractUpdate
  <2>2. OccupantsOf[r] = Occupants(room)
    BY DEF room, OccupantsOf
  <2> QED BY <1>6, <2>1, <2>2
<1>13. /\ r \in LiveRooms /\ u \notin OccupantsOf[r]
       /\ Cardinality(OccupantsOf[r]) < Capacities[r]
  BY <1>5, <1>8, <1>9 DEF room, LiveRooms, OccupantsOf, Capacities
<1>14. Membership!Cardinality(OccupantsOf[r]) < Capacities[r]
  BY <1>13, SameCardinality
<1> QED BY <1>11, <1>12, <1>13, <1>14
        DEF Membership!Enter, Retired, Capacities, OccupantsOf, Leaders, Leader

\* A departure leaves the room to those who stay, with one of them in the lead.
LEMMA DepartLeaves ==
  ASSUME IInv, IInv', IdsOK, NEW u \in Users, NEW r \in RoomId, NEW new,
         rooms[r].live, rooms' = [rooms EXCEPT ![r] = new], DrawsKept,
         NEW i \in MemberId, Departs(rooms[r], new, i)
  PROVE  \E w \in Users : Membership!Leave(r, w)
<1> DEFINE room == rooms[r]
<1>1. /\ rooms \in [RoomId -> Room] /\ room \in Room /\ RoomOK(room) /\ room.live
  BY DEF IInv, TypeOK, RoomsOK
<1>2. /\ new.live /\ new.maxSlot = room.maxSlot
      /\ i \in Seats(room) /\ Seats(new) = Seats(room) \ {i}
      /\ \A j \in Seats(new) : new.members[j].user = room.members[j].user
  BY DEF Departs, Continues, SameMembers
<1>3. RoomOK(new)
  <2>1. rooms'[r] = new
    BY <1>1
  <2> QED BY <1>2, <2>1 DEF IInv, RoomsOK
<1>4. PICK w \in Users :
        /\ w = room.members[i].user
        /\ \A j \in Seats(room) : room.members[j].user = w => j = i
  BY <1>1, <1>2 DEF RoomOK, Seats, Room, Member
<1> HIDE DEF room
<1>5. Occupants(new) = Occupants(room) \ {w}
  BY <1>2, <1>4 DEF Occupants
<1>6. w \in Occupants(room) /\ Occupants(room) # {w}
  <2>1. new.owner \in Seats(new)
    BY <1>3 DEF RoomOK
  <2>2. room.members[new.owner].user \in Occupants(room)
    BY <1>2, <2>1 DEF Occupants
  <2>3. room.members[new.owner].user # w
    BY <1>2, <1>4, <2>1
  <2> QED BY <1>2, <1>4, <2>2, <2>3 DEF Occupants
<1>7. \/ Leader(room) # w /\ Leader(new) = Leader(room)
      \/ Leader(room) = w /\ Leader(new) \in Occupants(room) \ {w}
  <2>1. /\ room.owner \in Seats(room) /\ new.owner \in Seats(new)
        /\ Leader(room) = room.members[room.owner].user
        /\ Leader(new) = room.members[new.owner].user
    BY <1>1, <1>2, <1>3 DEF RoomOK, Leader
  <2>2. CASE i # room.owner
    <3>1. new.owner = room.owner
      BY <2>2 DEF Departs, room
    <3> QED BY <1>4, <2>1, <2>2, <3>1
  <2>3. CASE i = room.owner
    <3>1. Leader(room) = w
      BY <1>4, <2>1, <2>3
    <3>2. Leader(new) \in Occupants(new)
      BY <1>2, <2>1 DEF Occupants
    <3> QED BY <1>5, <3>1, <3>2
  <2> QED BY <2>2, <2>3
<1>8. \A q \in RoomId : rooms'[q] = IF q = r THEN new ELSE rooms[q]
  BY <1>1
<1>9. LiveRooms' = LiveRooms /\ Retired' = Retired /\ Capacities' = Capacities
  <2>1. LiveRooms' = LiveRooms /\ Retired' = Retired
    BY <1>2, <1>8 DEF LiveRooms, Retired, Spent, DrawsKept
  <2>2. Capacities' = Capacities
    BY <1>2, <1>8 DEF Capacities, room
  <2> QED BY <2>1, <2>2
<1>10. /\ OccupantsOf[r] = Occupants(room) /\ Leaders[r] = Leader(room)
       /\ r \in LiveRooms
  BY DEF room, OccupantsOf, Leaders, LiveRooms
<1>11. OccupantsOf' = [OccupantsOf EXCEPT ![r] = OccupantsOf[r] \ {w}]
  <2>1. OccupantsOf' = [OccupantsOf EXCEPT ![r] = Occupants(new)]
    BY <1>1, AbstractUpdate
  <2> QED BY <1>5, <1>10, <2>1
<1>12. \/ Leaders[r] # w /\ Leaders' = Leaders
       \/ /\ Leaders[r] = w
          /\ \E heir \in OccupantsOf[r] \ {w} : Leaders' = [Leaders EXCEPT ![r] = heir]
  <2>1. Leaders' = [Leaders EXCEPT ![r] = Leader(new)]
    BY <1>1, AbstractUpdate
  <2>2. CASE Leader(room) # w /\ Leader(new) = Leader(room)
    <3>1. Leaders' = Leaders
      BY <1>8, <2>2 DEF Leaders, room
    <3> QED BY <1>10, <2>2, <3>1
  <2>3. CASE Leader(room) = w /\ Leader(new) \in Occupants(room) \ {w}
    BY <1>10, <2>1, <2>3
  <2> QED BY <1>7, <2>2, <2>3
<1>13. Membership!Leave(r, w)
  BY <1>6, <1>9, <1>10, <1>11, <1>12
     DEF Membership!Leave, Retired, Capacities, OccupantsOf, Leaders, Leader
<1> QED BY <1>13

\* The last member's departure closes the room and spends its id.
LEMMA CloseCloses ==
  ASSUME IInv, IdsOK, NEW u \in Users, NEW r \in RoomId,
         rooms[r].live, rooms' = [rooms EXCEPT ![r] = NoRoom], DrawsKept,
         NEW i \in MemberId, Seats(rooms[r]) = {i}
  PROVE  \E w \in Users : Membership!Close(r, w)
<1>1. rooms \in [RoomId -> Room] /\ rooms[r] \in Room
  BY DEF IInv, TypeOK
<1>2. PICK w \in Users : Occupants(rooms[r]) = {w}
  BY <1>1 DEF Seats, Room, Member, Occupants
<1>3. ~NoRoom.live /\ NoRoom.maxSlot = 0 /\ Occupants(NoRoom) = {} /\ Leader(NoRoom) = Nobody
  <2>1. ~NoRoom.live /\ Seats(NoRoom) = {}
    BY NoRoomType
  <2> QED BY <2>1 DEF Occupants, Leader, NoRoom
<1>4. /\ LiveRooms' = LiveRooms \ {r}
      /\ Capacities' = [Capacities EXCEPT ![r] = 0]
      /\ OccupantsOf' = [OccupantsOf EXCEPT ![r] = {}]
      /\ Leaders' = [Leaders EXCEPT ![r] = Nobody]
  <2>1. /\ LiveRooms' = IF NoRoom.live THEN LiveRooms \cup {r} ELSE LiveRooms \ {r}
        /\ Capacities' = [Capacities EXCEPT ![r] = NoRoom.maxSlot]
        /\ OccupantsOf' = [OccupantsOf EXCEPT ![r] = Occupants(NoRoom)]
        /\ Leaders' = [Leaders EXCEPT ![r] = Leader(NoRoom)]
    BY <1>1, AbstractUpdate
  <2> QED BY <1>3, <2>1
<1>5. Retired' = Retired \cup {r}
  <2>1. \A q \in RoomId : rooms'[q] = IF q = r THEN NoRoom ELSE rooms[q]
    BY <1>1
  <2>2. r < nextRoomId /\ \A v \in Users : sess[v].creating # r
    BY MatchingConstants DEF IdsOK, RoomId
  <2>3. Spent(r)'
    BY <1>3, <2>1, <2>2 DEF Spent, DrawsKept
  <2>4. \A q \in RoomId : q # r => (Spent(q)' <=> Spent(q))
    BY <2>1 DEF Spent, DrawsKept
  <2> QED BY <2>3, <2>4 DEF Retired
<1>6. r \in LiveRooms /\ OccupantsOf[r] = {w}
  BY <1>2 DEF LiveRooms, OccupantsOf
<1>7. Membership!Close(r, w)
  BY <1>4, <1>5, <1>6
     DEF Membership!Close, Retired, Capacities, OccupantsOf, Leaders, Leader
<1> QED BY <1>7
\* Every step of the table is one step of RoomMembership, or none.
LEMMA MembershipStep ==
  ASSUME SInv, IInv', SmallRooms, [Next]_vars
  PROVE  [Membership!Next]_Membership!vars
<1>1. IInv /\ IdsOK
  BY DEF SInv
<1>2. CASE UNCHANGED vars
  <2>1. /\ LiveRooms' = LiveRooms /\ Retired' = Retired /\ Capacities' = Capacities
        /\ OccupantsOf' = OccupantsOf /\ Leaders' = Leaders
    BY <1>2 DEF vars, LiveRooms, Retired, Spent, Capacities, OccupantsOf, Leaders
  <2> QED BY <2>1
          DEF Membership!vars, Retired, Capacities, OccupantsOf, Leaders, Leader
<1>3. ASSUME NEW u \in Users, SessionNext(u)
      PROVE  [Membership!Next]_Membership!vars
  <2>1. CASE UNCHANGED rooms /\ (DrawsKept \/ Draws(u))
    <3>1. /\ LiveRooms' = LiveRooms /\ Capacities' = Capacities
          /\ OccupantsOf' = OccupantsOf /\ Leaders' = Leaders
      BY <2>1 DEF LiveRooms, Capacities, OccupantsOf, Leaders
    <3>2. Retired' = Retired
      BY <1>1, <2>1, RetiredKept
    <3> QED BY <3>1, <3>2
            DEF Membership!vars, Retired, Capacities, OccupantsOf, Leaders, Leader
  <2>2. ASSUME NEW new, Publishes(u, new)
        PROVE  Membership!Next
    <3>1. PICK r \in RoomId : r = sess[u].creating
      BY <2>2 DEF Publishes
    <3>2. Membership!Open(r, u)
      BY <1>1, <2>2, <3>1, PublishOpens
    <3> QED BY <3>2 DEF Membership!Next
  <2>3. ASSUME NEW r \in RoomId, NEW new, Affects(r, new, u)
        PROVE  [Membership!Next]_Membership!vars
    <3>1. /\ rooms[r].live /\ rooms' = [rooms EXCEPT ![r] = new] /\ DrawsKept
          /\ Changes(rooms[r], new, u)
      BY <2>3 DEF Affects
    <3>2. CASE Keeps(rooms[r], new)
      <4>1. UNCHANGED Membership!vars
        BY <1>1, <3>1, <3>2, KeepsStutters
      <4> QED BY <4>1
    <3>3. ASSUME NEW blocks \in SUBSET Users, NEW id \in MemberId,
                 Joins(rooms[r], new, u, blocks, id)
          PROVE  Membership!Next
      <4>1. Membership!Enter(r, u)
        BY <1>1, <3>1, <3>3, JoinEnters
      <4> QED BY <4>1 DEF Membership!Next
    <3>4. ASSUME NEW i \in MemberId, Departs(rooms[r], new, i)
          PROVE  Membership!Next
      <4>1. PICK w \in Users : Membership!Leave(r, w)
        BY <1>1, <3>1, <3>4, DepartLeaves
      <4> QED BY <4>1 DEF Membership!Next
    <3>5. CASE Closes(rooms[r], new)
      <4>1. PICK i \in MemberId : Seats(rooms[r]) = {i}
        BY <3>5 DEF Closes
      <4>2. rooms' = [rooms EXCEPT ![r] = NoRoom]
        BY <3>1, <3>5 DEF Closes
      <4>3. PICK w \in Users : Membership!Close(r, w)
        BY <1>1, <3>1, <4>1, <4>2, CloseCloses
      <4> QED BY <4>3 DEF Membership!Next
    <3> QED BY <3>1, <3>2, <3>3, <3>4, <3>5 DEF Changes
  <2> QED BY <1>1, <1>3, <2>1, <2>2, <2>3, StepKinds
<1> QED BY <1>2, <1>3 DEF Next

\* With requests the slot mask can describe, every room stays one it can.
LEMMA SmallRoomsStep ==
  ASSUME SmallRequests, SInv, SmallRooms, [Next]_vars
  PROVE  SmallRooms'
<1> SUFFICES ASSUME NEW r \in RoomId, rooms'[r].live
             PROVE  rooms'[r].maxSlot <= SlotLimit
  BY DEF SmallRooms
<1>1. CASE rooms'[r] = rooms[r]
  BY <1>1 DEF SmallRooms
<1>2. ASSUME NEW u \in Users, NEW id \in MemberId, Opens(rooms'[r], u, id)
      PROVE  rooms'[r].maxSlot <= SlotLimit
  <2>1. PICK req \in CreateRequests :
          rooms'[r].maxSlot = IF req.maxSlots % WidthMod < 1 THEN 1
                              ELSE req.maxSlots % WidthMod
    BY <1>2 DEF Opens
  <2>2. req.maxSlots % WidthMod <= SlotLimit
    BY DEF SmallRequests
  <2>3. 1 <= SlotLimit
    BY MatchingConstants
  <2> QED BY <2>1, <2>2, <2>3
<1>3. ASSUME NEW u \in Users, rooms[r].live, Changes(rooms[r], rooms'[r], u)
      PROVE  rooms'[r].maxSlot <= SlotLimit
  <2>1. rooms'[r] # NoRoom
    BY NoRoomType
  <2>2. rooms'[r].maxSlot = rooms[r].maxSlot
    BY <1>3, <2>1 DEF Changes, Keeps, Joins, Departs, Closes, Continues
  <2> QED BY <1>3, <2>2 DEF SmallRooms
<1> QED BY <1>1, <1>2, <1>3, RoomStep

\* The room table carries out RoomMembership, as long as no request asks for a room
\* larger than the slot mask can describe: rooms open under ids never used before,
\* fill to their capacity and no further, always have one of their occupants in the
\* lead, and are gone with the last one.
THEOREM MembershipCarriedOut ==
  ASSUME SmallRequests
  PROVE  Spec => ImplementsMembership
<1>1. Init => SmallRooms /\ Membership!Init
  <2> SUFFICES ASSUME Init PROVE SmallRooms /\ Membership!Init
    OBVIOUS
  <2>1. /\ rooms = [r \in RoomId |-> NoRoom] /\ ~NoRoom.live /\ Seats(NoRoom) = {}
        /\ nextRoomId = 1
    BY NoRoomType DEF Init
  <2>2. SmallRooms /\ LiveRooms = {}
    BY <2>1 DEF SmallRooms, LiveRooms
  <2>3. Retired = {}
    BY <2>1, MatchingConstants DEF Retired, Spent, RoomId
  <2>4. /\ NoRoom.maxSlot = 0 /\ Occupants(NoRoom) = {} /\ Leader(NoRoom) = Nobody
    BY <2>1 DEF Occupants, Leader, NoRoom
  <2>5. /\ Capacities = [r \in RoomId |-> 0] /\ OccupantsOf = [r \in RoomId |-> {}]
        /\ Leaders = [r \in RoomId |-> Nobody]
    BY <2>1, <2>4 DEF Capacities, OccupantsOf, Leaders
  <2> QED BY <2>2, <2>3, <2>5
          DEF Membership!Init, Retired, Capacities, OccupantsOf, Leaders, Leader
<1>2. SInv /\ SmallRooms /\ [Next]_vars => SmallRooms'
  BY SmallRoomsStep
<1>3. SInv /\ SInv' /\ SmallRooms /\ [Next]_vars => [Membership!Next]_Membership!vars
  BY MembershipStep DEF SInv
<1> QED BY <1>1, <1>2, <1>3, StrongInductive, PTL
        DEF Spec, ImplementsMembership, Membership!Spec

-----------------------------------------------------------------------------
(* Ranks: the pages of a search *)

Rank(M, r) == Cardinality({q \in M : q <= r})

\* The ranks of the members of a set of room ids are 1, 2, .. up to its size,
\* each taken once.
LEMMA RankEnumerates ==
  ASSUME NEW M \in SUBSET RoomId
  PROVE  /\ IsFiniteSet(M) /\ Cardinality(M) \in 0..MaxRooms
         /\ \A r \in M : Rank(M, r) \in 1..Cardinality(M)
         /\ \A r, q \in M : Rank(M, r) = Rank(M, q) => r = q
         /\ \A k \in 1..Cardinality(M) : \E r \in M : Rank(M, r) = k
<1> DEFINE n == Cardinality(M)
           upto(r) == {q \in M : q <= r}
           rank == [r \in M |-> Rank(M, r)]
<1>1. /\ IsFiniteSet(RoomId) /\ Cardinality(RoomId) = MaxRooms
      /\ RoomId \subseteq Nat /\ MaxRooms \in Nat
  BY FS_Interval, MatchingConstants DEF RoomId
<1>2. IsFiniteSet(M) /\ n \in Nat /\ n <= MaxRooms
  BY <1>1, FS_Subset, FS_CardinalityType
<1>3. ASSUME NEW r \in M
      PROVE  /\ IsFiniteSet(upto(r)) /\ Rank(M, r) \in Nat
             /\ Rank(M, r) <= n /\ Rank(M, r) >= 1
  <2>1. upto(r) \in SUBSET M /\ r \in upto(r)
    BY <1>1
  <2>2. IsFiniteSet(upto(r)) /\ Cardinality(upto(r)) <= n
    BY <1>2, <2>1, FS_Subset
  <2>3. Cardinality(upto(r)) \in Nat /\ Cardinality(upto(r)) # 0
    BY <2>1, <2>2, FS_CardinalityType, FS_EmptySet
  <2> QED BY <1>2, <2>2, <2>3 DEF Rank
<1>4. ASSUME NEW r \in M, NEW q \in M, r < q
      PROVE  Rank(M, r) # Rank(M, q)
  <2>1. upto(r) \cup {q} \in SUBSET upto(q) /\ q \notin upto(r)
    <3>1. \A p \in M : p \in Nat
      BY <1>1
    <3>2. \A p \in upto(r) : p \in M /\ p <= q
      BY <1>4, <3>1
    <3>3. q \in upto(q) /\ q \notin upto(r)
      BY <1>4, <3>1
    <3> QED BY <3>2, <3>3
  <2>2. Cardinality(upto(r) \cup {q}) = Cardinality(upto(r)) + 1
    BY <1>3, <2>1, FS_AddElement
  <2>3. Cardinality(upto(r) \cup {q}) <= Cardinality(upto(q))
    BY <1>3, <2>1, FS_Subset
  <2>4. Rank(M, r) = Cardinality(upto(r)) /\ Rank(M, q) = Cardinality(upto(q))
    BY DEF Rank
  <2> QED BY <1>3, <2>2, <2>3, <2>4
<1>5. \A r, q \in M : Rank(M, r) = Rank(M, q) => r = q
  <2> SUFFICES ASSUME NEW r \in M, NEW q \in M, r # q
               PROVE  Rank(M, r) # Rank(M, q)
    OBVIOUS
  <2>1. r < q \/ q < r
    BY <1>1
  <2> QED BY <1>4, <2>1
<1>6. \A r \in M : Rank(M, r) \in 1..n
  <2> TAKE r \in M
  <2>1. Rank(M, r) \in Nat /\ Rank(M, r) <= n /\ Rank(M, r) >= 1
    BY <1>3
  <2> HIDE DEF n
  <2> QED BY <1>2, <2>1
<1>7. \A k \in 1..n : \E r \in M : Rank(M, r) = k
  <2>1. IsFiniteSet(1..n) /\ Cardinality(1..n) = n
    BY <1>2, FS_Interval
  <2>2. rank \in Injection(M, 1..n)
    <3>1. \A r \in M : Rank(M, r) \in 1..n
      BY <1>6
    <3>2. rank \in [M -> 1..n]
      BY <3>1
    <3> QED BY <1>5, <3>2 DEF Injection, IsInjective
  <2>3. rank \in Surjection(M, 1..n)
    BY <2>1, <2>2, FS_Injection
  <2> QED BY <2>3 DEF Surjection
<1>8. n \in 0..MaxRooms
  <2> HIDE DEF n
  <2> QED BY <1>1, <1>2
<1> QED BY <1>2, <1>5, <1>6, <1>7, <1>8

-----------------------------------------------------------------------------
(* One search *)

\* The rooms that u may be shown of a place, and those with a seat to offer.
Shown(u, place) ==
  {r \in LiveRooms : /\ rooms[r].key = sess[u].key
                     /\ InPlace(rooms[r], place)
                     /\ "HIDDEN" \notin rooms[r].flags}
Offered(u, place) == {r \in Shown(u, place) : "FULL" \notin rooms[r].flags}

\* When the indexes agree with the rooms, the rooms an index lists for u are
\* the live rooms of his pool that are in the place.
LEMMA CandidatesFound ==
  ASSUME TypeOK, IndexAgrees, NEW u \in Users, NEW place \in Places
  PROVE  {r \in Candidates(u, place) : RoomMatchesFilters(rooms[r], {"FULL"}, {})}
           = Offered(u, place)
<1>1. place.world \in Nat /\ place.lobby \in Nat
  BY MatchingConstants DEF Places, CreateRequest
<1>2. /\ \A k, w, r : <<k, w, r>> \in worldRooms <=>
           r \in LiveRooms /\ k = rooms[r].key /\ w = rooms[r].world /\ w # 0
      /\ \A k, l, r : <<k, l, r>> \in lobbyRooms <=>
           /\ r \in LiveRooms /\ k = rooms[r].key /\ l = rooms[r].lobby
           /\ rooms[r].world = 0 /\ l # 0
  BY DEF IndexAgrees
<1>3. Candidates(u, place) =
        {r \in LiveRooms : rooms[r].key = sess[u].key /\ InPlace(rooms[r], place)}
  <2>1. CASE place.world # 0
    BY <1>2, <2>1 DEF Candidates, InPlace, LiveRooms
  <2>2. CASE place.world = 0 /\ place.lobby # 0
    BY <1>2, <2>2 DEF Candidates, InPlace, LiveRooms
  <2>3. CASE place.world = 0 /\ place.lobby = 0
    BY <2>3 DEF Candidates, InPlace
  <2> QED BY <2>1, <2>2, <2>3
<1>4. \A r \in LiveRooms : RoomMatchesFilters(rooms[r], {"FULL"}, {}) <=>
        "HIDDEN" \notin rooms[r].flags /\ "FULL" \notin rooms[r].flags
  BY DEF RoomMatchesFilters
<1> QED BY <1>3, <1>4 DEF Offered, Shown

\* Page k of a search for one room a page is the k-th room on offer, and the
\* page is empty when there is none.
LEMMA PageOf ==
  ASSUME TypeOK, IndexAgrees, NEW u \in Users, NEW place \in Places,
         NEW k \in 1 .. 1 + MaxRooms
  PROVE  LET M == Offered(u, place)
             page == SearchRoom(u, place, {"FULL"}, {}, k, 1) IN
         /\ page # <<>> <=> k <= Cardinality(M)
         /\ k <= Cardinality(M) => page[1] \in M /\ Rank(M, page[1]) = k
<1> DEFINE M == Offered(u, place)
           n == Cardinality(M)
           page == SearchRoom(u, place, {"FULL"}, {}, k, 1)
           last == IF n < k + 1 - 1 THEN n ELSE k + 1 - 1
           len == IF k <= last THEN last - k + 1 ELSE 0
           nth(i) == CHOOSE r \in M : Rank(M, r) = k + i - 1
<1>1. M \in SUBSET RoomId
  BY DEF Offered, Shown, LiveRooms
<1>2. page = [i \in 1 .. len |-> nth(i)]
  <2> DEFINE C == {r \in Candidates(u, place) :
                    RoomMatchesFilters(rooms[r], {"FULL"}, {})}
             m == Cardinality(C)
             end == IF m < k + 1 - 1 THEN m ELSE k + 1 - 1
  <2>1. C = M
    BY CandidatesFound
  <2>2. page = [i \in 1 .. (IF k <= end THEN end - k + 1 ELSE 0) |->
                  CHOOSE r \in C : Rank(C, r) = k + i - 1]
    BY DEF SearchRoom, Rank
  <2> HIDE DEF C, page, M
  <2> QED BY <2>1, <2>2
<1>3. n \in Nat /\ \A j \in 1..n : \E r \in M : Rank(M, r) = j
  BY <1>1, RankEnumerates
<1>4. k \in Nat /\ k >= 1
  BY MatchingConstants
<1> HIDE DEF M, n, page
<1>5. CASE n < k
  <2>1. len = 0
    BY <1>3, <1>4, <1>5
  <2>2. page = <<>>
    BY <1>2, <2>1
  <2> QED BY <1>3, <1>4, <1>5, <2>2 DEF n, M, page
<1>6. CASE k <= n
  <2>1. len = 1
    BY <1>3, <1>4, <1>6
  <2>2. page = [i \in 1..1 |-> nth(i)]
    BY <1>2, <2>1
  <2>3. DOMAIN page = {1} /\ page[1] = nth(1)
    BY <2>2
  <2>4. page # <<>>
    BY <2>3
  <2>5. k \in 1..n /\ k + 1 - 1 = k
    BY <1>3, <1>4, <1>6
  <2>6. nth(1) \in M /\ Rank(M, nth(1)) = k
    BY <1>3, <2>5
  <2> QED BY <1>6, <2>3, <2>4, <2>6 DEF n, M, page
<1> QED BY <1>3, <1>4, <1>5, <1>6

\* The search conjunct of RoomsFound.
SearchComplete ==
  \A u \in Users, place \in Places :
    LET shown == {r \in LiveRooms :
                    /\ rooms[r].key = sess[u].key
                    /\ InPlace(rooms[r], place)
                    /\ "HIDDEN" \notin rooms[r].flags}
        pages == [start \in 1 .. 1 + MaxRooms |->
                    SearchRoom(u, place, {"FULL"}, {}, start, 1)]
        found == {pages[i][1] : i \in {j \in DOMAIN pages : pages[j] # <<>>}}
    IN  /\ found \subseteq shown
        /\ \A r \in shown : IsFull(rooms[r]) \/ r \in found
        /\ \A r \in found : IsFull(rooms[r]) => rooms[r].maxSlot = 1
        /\ \A i, j \in DOMAIN pages :
             pages[i] # <<>> /\ pages[i] = pages[j] => i = j

\* When the indexes agree with the rooms and the FULL bits with the seats, the
\* pages show every room there is to show, once.
LEMMA SearchFindsAll ==
  ASSUME IInv, IndexAgrees
  PROVE  SearchComplete
<1> SUFFICES ASSUME NEW u \in Users, NEW place \in Places
             PROVE  LET shown == Shown(u, place)
                        pages == [start \in 1 .. 1 + MaxRooms |->
                                    SearchRoom(u, place, {"FULL"}, {}, start, 1)]
                        found == {pages[i][1] :
                                    i \in {j \in DOMAIN pages : pages[j] # <<>>}}
                    IN  /\ found \subseteq shown
                        /\ \A r \in shown : IsFull(rooms[r]) \/ r \in found
                        /\ \A r \in found : IsFull(rooms[r]) => rooms[r].maxSlot = 1
                        /\ \A i, j \in DOMAIN pages :
                             pages[i] # <<>> /\ pages[i] = pages[j] => i = j
  BY DEF SearchComplete, Shown
<1> DEFINE M == Offered(u, place)
           P == 1 .. 1 + MaxRooms
           pages == [start \in P |-> SearchRoom(u, place, {"FULL"}, {}, start, 1)]
           found == {pages[i][1] : i \in {j \in DOMAIN pages : pages[j] # <<>>}}
<1>1. TypeOK /\ RoomsOK
  BY DEF IInv
<1>2. M \in SUBSET RoomId /\ MaxRooms \in Nat
  BY MatchingConstants DEF Offered, Shown, LiveRooms
<1>3. /\ Cardinality(M) \in 0..MaxRooms
      /\ \A r \in M : Rank(M, r) \in 1..Cardinality(M)
      /\ \A r, q \in M : Rank(M, r) = Rank(M, q) => r = q
  BY <1>2, RankEnumerates
<1>4. \A k \in P :
        /\ pages[k] # <<>> <=> k <= Cardinality(M)
        /\ k <= Cardinality(M) => pages[k][1] \in M /\ Rank(M, pages[k][1]) = k
  BY <1>1, PageOf
<1>5. DOMAIN pages = P
  OBVIOUS
<1> HIDE DEF M, pages
<1>6. found = M
  <2>1. \A i \in P : pages[i] # <<>> => pages[i][1] \in M
    BY <1>4
  <2>2. ASSUME NEW r \in M
        PROVE  r \in found
    <3>1. Rank(M, r) \in P /\ Rank(M, r) <= Cardinality(M)
      BY <1>2, <1>3
    <3>2. pages[Rank(M, r)] # <<>> /\ pages[Rank(M, r)][1] = r
      BY <1>3, <1>4, <3>1
    <3> QED BY <1>5, <3>1, <3>2
  <2> QED BY <1>5, <2>1, <2>2
<1>7. \A r \in LiveRooms :
        /\ "FULL" \in rooms[r].flags => IsFull(rooms[r])
        /\ IsFull(rooms[r]) /\ "FULL" \notin rooms[r].flags => rooms[r].maxSlot = 1
  <2> TAKE r \in LiveRooms
  <2>1. RoomOK(rooms[r]) /\ rooms[r].maxSlot \in Nat
    BY <1>1 DEF TypeOK, RoomsOK, LiveRooms, Room
  <2> QED BY <2>1 DEF RoomOK
<1>8. /\ M \subseteq Shown(u, place) /\ Shown(u, place) \subseteq LiveRooms
      /\ \A r \in Shown(u, place) : r \in M <=> "FULL" \notin rooms[r].flags
  BY DEF M, Offered, Shown
<1>9. \A i, j \in P : pages[i] # <<>> /\ pages[i] = pages[j] => i = j
  BY <1>4
<1> QED BY <1>5, <1>6, <1>7, <1>8, <1>9 DEF pages

-----------------------------------------------------------------------------
(* What a command does to rooms, indexes and the caller's session *)

IndexKept == UNCHANGED <<worldRooms, lobbyRooms>>
OthersKept(u) == \A v \in Users : v # u => sess'[v] = sess[v]

\* u remembers what it did before; it remembers no room; it has come to
\* remember room r and the seat i there.
Remembers(u) ==
  /\ sess'[u].roomId = sess[u].roomId
  /\ sess'[u].myMemberId = sess[u].myMemberId
  /\ sess'[u].isRoomOwner = sess[u].isRoomOwner
ForgetsAll(u) == sess'[u].roomId = 0 /\ ~sess'[u].isRoomOwner
Forgets(u, r) == ForgetsAll(u) \/ (sess[u].roomId # r /\ sess'[u] = sess[u])
Enters(u, r, i) == sess'[u].roomId = r /\ sess'[u].myMemberId = i

\* No room, and nothing an index lists, is touched.
Quiet(u) == UNCHANGED rooms /\ IndexKept /\ (Remembers(u) \/ ForgetsAll(u))

\* A room is opened under an unused id, and listed.
OpensListed(u, q, new) ==
  /\ ~rooms[q].live
  /\ Opens(new, u, new.owner) /\ new.owner \in MemberId /\ new.owner.slot = 1
  /\ rooms' = [rooms EXCEPT ![q] = new]
  /\ worldRooms' = worldRooms \cup WorldEntries(new, q)
  /\ lobbyRooms' = lobbyRooms \cup LobbyEntries(new, q)
  /\ Enters(u, q, new.owner)

\* u joins a room; nobody who is seated in one of the slots that a mask can
\* name loses the seat.
JoinsSeated(u, r, new) ==
  /\ rooms[r].live /\ rooms' = [rooms EXCEPT ![r] = new] /\ IndexKept
  /\ \E blocks \in SUBSET Users, id \in MemberId :
       /\ Joins(rooms[r], new, u, blocks, id)
       /\ id.slot <= SlotLimit => id \notin Seats(rooms[r])
       /\ Enters(u, r, id) /\ ~sess'[u].isRoomOwner

\* u gives up the seat i and forgets the room, which goes on without it.
Leaves(u, r, i, new) ==
  /\ rooms[r].live /\ rooms' = [rooms EXCEPT ![r] = new] /\ IndexKept
  /\ rooms[r].members[i].user = u
  /\ Departs(rooms[r], new, i)
  /\ Forgets(u, r)

\* u was the last one: the room is closed and unlisted.
Unlists(u, r, i) ==
  /\ rooms[r].live /\ rooms' = [rooms EXCEPT ![r] = NoRoom]
  /\ rooms[r].members[i].user = u /\ Seats(rooms[r]) = {i}
  /\ worldRooms' = worldRooms \ WorldEntries(rooms[r], r)
  /\ lobbyRooms' = lobbyRooms \ LobbyEntries(rooms[r], r)
  /\ Forgets(u, r)

\* A member other than the owner is put out of the room, unknown to his session.
Kicks(u, r, i, new) ==
  /\ rooms[r].live /\ rooms' = [rooms EXCEPT ![r] = new] /\ IndexKept
  /\ i # rooms[r].owner /\ Departs(rooms[r], new, i)
  /\ sess' = sess

\* Data of the room or of a member is set.
Edits(u, r, new) ==
  /\ rooms[r].live /\ rooms' = [rooms EXCEPT ![r] = new] /\ IndexKept
  /\ Keeps(rooms[r], new)
  /\ sess' = sess

Acts(u) ==
  \/ Quiet(u)
  \/ \E q \in RoomId : \E new : OpensListed(u, q, new)
  \/ \E r \in RoomId : \E new : JoinsSeated(u, r, new)
  \/ \E r \in RoomId, i \in MemberId : \E new : Leaves(u, r, i, new)
  \/ \E r \in RoomId, i \in MemberId : Unlists(u, r, i)
  \/ \E r \in RoomId, i \in MemberId : \E new : Kicks(u, r, i, new)
  \/ \E r \in RoomId : \E new : Edits(u, r, new)

\* A departure of u's own, after which its session has forgotten the room.
LEMMA DepartActs ==
  ASSUME IInv, NEW u \in Users, NEW r \in RoomId, rooms[r].live,
         NEW i \in SeatsOf(rooms[r], u), Depart(r, i), Forgets(u, r)
  PROVE  Acts(u)
<1>1. /\ rooms[r] \in Room /\ RoomOK(rooms[r])
      /\ i \in MemberId /\ i \in Seats(rooms[r]) /\ rooms[r].members[i].user = u
  BY MatchingConstants DEF IInv, TypeOK, RoomsOK, SeatsOf, Seats
<1>2. CASE /\ Seats(rooms[r]) = {i}
           /\ rooms' = [rooms EXCEPT ![r] = NoRoom]
           /\ worldRooms' = worldRooms \ WorldEntries(rooms[r], r)
           /\ lobbyRooms' = lobbyRooms \ LobbyEntries(rooms[r], r)
  <2>1. Unlists(u, r, i)
    BY <1>1, <1>2 DEF Unlists
  <2> QED BY <1>1, <2>1 DEF Acts
<1>3. CASE /\ \E left \in AfterDeparture(rooms[r], i) :
                rooms' = [rooms EXCEPT ![r] = left]
           /\ UNCHANGED <<worldRooms, lobbyRooms>>
  <2>1. PICK left \in AfterDeparture(rooms[r], i) : rooms' = [rooms EXCEPT ![r] = left]
    BY <1>3
  <2>2. Departs(rooms[r], left, i)
    BY <1>1, DepartureEffect
  <2>3. Leaves(u, r, i, left)
    BY <1>1, <1>3, <2>1, <2>2 DEF Leaves, IndexKept
  <2> QED BY <1>1, <2>3 DEF Acts
<1> QED BY <1>2, <1>3 DEF Depart

\* Every command is one of these acts, and changes no session but the caller's.
LEMMA CommandActs ==
  ASSUME IInv, IdsOK, NEW u \in Users, SessionNext(u)
  PROVE  Acts(u) /\ OthersKept(u)
<1>1. /\ rooms \in [RoomId -> Room]
      /\ sess \in [Users -> Session] /\ sess[u] \in Session
      /\ \A r \in RoomId : rooms[r].live => rooms[r] \in Room /\ RoomOK(rooms[r])
  BY DEF IInv, TypeOK, RoomsOK
<1>2. ASSUME NEW s, sess' = [sess EXCEPT ![u] = s]
      PROVE  sess'[u] = s /\ OthersKept(u)
  BY <1>1, <1>2 DEF OthersKept
<1>3. ASSUME NEW k \in Keys, CmdLogin(u, k)
      PROVE  Acts(u) /\ OthersKept(u)
  <2>1. sess'[u] = FreshSession(k, TRUE) /\ OthersKept(u)
    BY <1>2, <1>3 DEF CmdLogin
  <2>2. Quiet(u)
    BY <1>3, <2>1 DEF CmdLogin, FreshSession, Quiet, IndexKept, ForgetsAll
  <2> QED BY <2>1, <2>2 DEF Acts
<1>4. ASSUME CmdContextStart(u) \/ CmdContextStop(u)
      PROVE  Acts(u) /\ OthersKept(u)
  <2>1. PICK b \in BOOLEAN : sess' = [sess EXCEPT ![u] = [sess[u] EXCEPT !.initialized = b]]
    BY <1>4 DEF CmdContextStart, CmdContextStop
  <2>2. sess'[u] = [sess[u] EXCEPT !.initialized = b] /\ OthersKept(u)
    BY <1>2, <2>1
  <2>3. Remembers(u)
    BY <1>1, <2>2 DEF Remembers, Session
  <2>4. Quiet(u)
    BY <1>4, <2>3 DEF CmdContextStart, CmdContextStop, Quiet, IndexKept
  <2> QED BY <2>2, <2>4 DEF Acts
<1>5. ASSUME CmdCreateRoom(u)
      PROVE  Acts(u) /\ OthersKept(u)
  <2>1. sess'[u] = [sess[u] EXCEPT !.creating = nextRoomId] /\ OthersKept(u)
    BY <1>2, <1>5 DEF CmdCreateRoom
  <2>2. Remembers(u)
    BY <1>1, <2>1 DEF Remembers, Session
  <2>3. Quiet(u)
    BY <1>5, <2>2 DEF CmdCreateRoom, Quiet, IndexKept
  <2> QED BY <2>1, <2>3 DEF Acts
<1>6. ASSUME NEW req \in CreateRequests, PublishRoom(u, req)
      PROVE  Acts(u) /\ OthersKept(u)
  <2>1. PICK q \in RoomId : q = sess[u].creating
    BY <1>1, <1>6, MatchingConstants DEF PublishRoom, Session, RoomId
  <2>2. PICK s \in 1..(SlotLimit + 1) :
          /\ IsAllocatedSlot(NoRoom, s)
          /\ rooms' = [rooms EXCEPT ![q] = NewRoom(u, req, s)]
          /\ worldRooms' = worldRooms \cup WorldEntries(NewRoom(u, req, s), q)
          /\ lobbyRooms' = lobbyRooms \cup LobbyEntries(NewRoom(u, req, s), q)
          /\ sess' = [sess EXCEPT ![u] = EnteredRoom(sess[u], q,
                        NewRoom(u, req, s).owner, TRUE, NewRoom(u, req, s))]
    BY <1>1, <1>6, <2>1 DEF PublishRoom
  <2> DEFINE new == NewRoom(u, req, s)
  <2>3. req \in CreateRequest
    BY MatchingConstants
  <2>4. /\ Opens(new, u, new.owner)
        /\ new.owner \in MemberId /\ new.owner.slot = 1
    BY <1>1, <2>2, <2>3, NewRoomEffect, NewRoomSound
  <2> HIDE DEF new
  <2>5. sess'[u] = EnteredRoom(sess[u], q, new.owner, TRUE, new) /\ OthersKept(u)
    BY <1>2, <2>2 DEF new
  <2>6. Enters(u, q, new.owner)
    BY <1>1, <2>5 DEF Enters, EnteredRoom, Session
  <2>7. ~rooms[q].live
    BY <1>6, <2>1 DEF IdsOK, PublishRoom
  <2>8. OpensListed(u, q, new)
    BY <2>2, <2>4, <2>6, <2>7 DEF OpensListed, new
  <2> QED BY <2>5, <2>8 DEF Acts
<1>7. ASSUME NEW r \in RoomId, NEW blocks \in JoinBlockLists, CmdJoinRoom(u, r, blocks)
      PROVE  Acts(u) /\ OthersKept(u)
  <2> DEFINE member == [user |-> u, flags |-> {}, blocks |-> blocks]
             joined(s) == MarkFull(RecomputeRoomSlotCounts(
                                     AddMember(rooms[r], s, member)))
             id(s) == [slot |-> s, gen |-> joined(s).counter]
             entered(s) == EnteredRoom(sess[u], r, id(s), FALSE, joined(s))
  <2>1. PICK s \in 1..(SlotLimit + 1) :
          /\ IsAllocatedSlot(rooms[r], s)
          /\ rooms' = [rooms EXCEPT ![r] = joined(s)]
          /\ sess' = [sess EXCEPT ![u] = entered(s)]
    BY <1>1, <1>7 DEF CmdJoinRoom
  <2>2. /\ rooms[r] \in Room /\ rooms[r].live /\ RoomOK(rooms[r])
        /\ MayJoin(rooms[r], u, blocks) /\ blocks \in SUBSET Users
        /\ IndexKept
    BY <1>1, <1>7, MatchingConstants DEF CmdJoinRoom, Found, IndexKept
  <2>3. Joins(rooms[r], joined(s), u, blocks, id(s)) /\ id(s) \in MemberId
    BY <2>1, <2>2, JoinEffect DEF Joins
  <2>4. /\ entered(s).roomId = r /\ entered(s).myMemberId = id(s)
        /\ ~entered(s).isRoomOwner
    BY <1>1 DEF EnteredRoom, Session
  <2>5. id(s).slot <= SlotLimit => id(s) \notin Seats(rooms[r])
    BY <2>1 DEF IsAllocatedSlot, TakenSlots
  <2> HIDE DEF joined, id, entered
  <2>6. sess'[u] = entered(s) /\ OthersKept(u)
    BY <1>2, <2>1
  <2>7. JoinsSeated(u, r, joined(s))
    BY <2>1, <2>2, <2>3, <2>4, <2>5, <2>6 DEF JoinsSeated, Enters
  <2> QED BY <2>6, <2>7 DEF Acts
<1>8. ASSUME NEW r \in RoomId, CmdLeaveRoom(u, r)
      PROVE  Acts(u) /\ OthersKept(u)
  <2>1. PICK i \in SeatsOf(rooms[r], u) : Depart(r, i)
    BY <1>8 DEF CmdLeaveRoom
  <2>2. rooms[r].live
    BY <1>8 DEF CmdLeaveRoom, Found
  <2>3. sess'[u] = ResetRoomState(sess[u], r) /\ OthersKept(u)
    BY <1>2, <1>8 DEF CmdLeaveRoom
  <2>4. Forgets(u, r)
    BY <1>1, <2>3 DEF Forgets, ForgetsAll, ResetRoomState, Session
  <2> QED BY <2>1, <2>2, <2>3, <2>4, DepartActs
<1>9. ASSUME NEW r \in RoomId, NEW target \in MemberId, NEW block \in BOOLEAN,
             CmdKickoutRoomMember(u, r, target, block)
      PROVE  Acts(u) /\ OthersKept(u)
  <2> DEFINE kicked == rooms[r].members[target].user
             left == RecomputeRoomSlotCounts(RemoveMember(rooms[r], target))
             new == [left EXCEPT !.blocked = IF block THEN @ \cup {kicked} ELSE @]
  <2>1. /\ target \in Seats(rooms[r]) /\ target # rooms[r].owner
        /\ rooms' = [rooms EXCEPT ![r] = new]
        /\ IndexKept /\ sess' = sess /\ rooms[r].live
    BY <1>9 DEF CmdKickoutRoomMember, Found, IndexKept
  <2>2. Departs(rooms[r], new, target)
    BY <1>1, <2>1, KickEffect
  <2> HIDE DEF new
  <2>3. Kicks(u, r, target, new)
    BY <2>1, <2>2 DEF Kicks
  <2> QED BY <2>1, <2>3 DEF Acts, OthersKept
<1>10. ASSUME NEW r \in RoomId, NEW flag \in RoomFlagRequests,
              NEW masks \in {{}} \cup {{m} : m \in MaskRequests},
              CmdSetRoomDataInternal(u, r, flag, masks)
       PROVE  Acts(u) /\ OthersKept(u)
  <2> DEFINE flagged == [rooms[r] EXCEPT !.flags = MaskedFlags(@, flag, {"FULL"})]
             masked(m) == RecomputeRoomSlotCounts([flagged EXCEPT !.mask = m])
  <2>1. /\ IndexKept /\ sess' = sess /\ rooms[r].live
        /\ \/ rooms' = [rooms EXCEPT ![r] = flagged]
           \/ \E m \in masks : rooms' = [rooms EXCEPT ![r] = masked(m)]
    BY <1>10 DEF CmdSetRoomDataInternal, Found, IndexKept
  <2>2. \A m \in masks : m \in SUBSET (1..SlotLimit)
    <3>1. \A m \in masks : m \in MaskRequests
      OBVIOUS
    <3>2. MaskRequests \subseteq SUBSET (1..SlotLimit)
      BY MatchingConstants
    <3> QED BY <3>1, <3>2
  <2>3. Keeps(rooms[r], flagged)
    <3>1. {} \in SUBSET (1..SlotLimit)
      OBVIOUS
    <3> QED BY <1>1, <2>1, <3>1, RoomDataEffect
  <2>4. \A m \in masks : Keeps(rooms[r], masked(m))
    BY <1>1, <2>1, <2>2, RoomDataEffect
  <2> HIDE DEF flagged, masked
  <2>5. PICK new : rooms' = [rooms EXCEPT ![r] = new] /\ Keeps(rooms[r], new)
    BY <2>1, <2>3, <2>4
  <2>6. Edits(u, r, new)
    BY <2>1, <2>5 DEF Edits
  <2> QED BY <2>1, <2>6 DEF Acts, OthersKept
<1>11. ASSUME NEW r \in RoomId, NEW i \in MemberId, NEW flag \in MemberFlagRequests,
              CmdSetRoomMemberDataInternal(u, r, i, flag)
       PROVE  Acts(u) /\ OthersKept(u)
  <2> DEFINE new == [rooms[r] EXCEPT !.members[i].flags =
                       MaskedFlags(@, flag, {"OWNER"})]
  <2>1. /\ i \in Seats(rooms[r]) /\ rooms[r].live
        /\ rooms' = [rooms EXCEPT ![r] = new]
        /\ IndexKept /\ sess' = sess
    BY <1>1, <1>11 DEF CmdSetRoomMemberDataInternal, Found, IndexKept
  <2>2. Keeps(rooms[r], new)
    BY <1>1, <2>1, MemberDataEffect
  <2> HIDE DEF new
  <2>3. Edits(u, r, new)
    BY <2>1, <2>2 DEF Edits
  <2> QED BY <2>1, <2>3 DEF Acts, OthersKept
<1>12. ASSUME Disconnect(u)
       PROVE  Acts(u) /\ OthersKept(u)
  <2> DEFINE r == sess[u].roomId
  <2>1. sess'[u] = FreshSession(sess[u].key, FALSE) /\ OthersKept(u)
    BY <1>2, <1>12 DEF Disconnect
  <2>2. ForgetsAll(u)
    BY <2>1 DEF ForgetsAll, FreshSession
  <2>3. CASE UNCHANGED <<rooms, worldRooms, lobbyRooms>>
    BY <2>1, <2>2, <2>3 DEF Acts, Quiet, IndexKept
  <2>4. CASE /\ r \in RoomId /\ Found(u, r)
             /\ \E i \in SeatsOf(rooms[r], u) : Depart(r, i)
    <3>1. rooms[r].live /\ Forgets(u, r)
      BY <2>2, <2>4 DEF Found, Forgets
    <3> QED BY <2>1, <2>4, <3>1, DepartActs
  <2> QED BY <1>12, <2>3, <2>4 DEF Disconnect
<1> QED BY <1>3, <1>4, <1>5, <1>6, <1>7, <1>8, <1>9, <1>10, <1>11, <1>12 DEF SessionNext

-----------------------------------------------------------------------------
(* The indexes *)

\* A change of one room that goes on in its place leaves the indexes right.
LEMMA IndexUntouched ==
  ASSUME TypeOK, IndexAgrees, IndexKept,
         \A r \in RoomId :
           /\ rooms'[r].live = rooms[r].live
           /\ rooms[r].live => /\ rooms'[r].key = rooms[r].key
                               /\ rooms'[r].world = rooms[r].world
                               /\ rooms'[r].lobby = rooms[r].lobby
  PROVE  IndexAgrees'
<1>1. LiveRooms' = LiveRooms
  BY DEF LiveRooms
<1>2. \A r \in LiveRooms : /\ rooms'[r].key = rooms[r].key
                           /\ rooms'[r].world = rooms[r].world
                           /\ rooms'[r].lobby = rooms[r].lobby
  BY DEF LiveRooms
<1>3. worldRooms' = worldRooms /\ lobbyRooms' = lobbyRooms
  BY DEF IndexKept
<1>4. {<<rooms'[r].key, rooms'[r].world, r>> :
         r \in {q \in LiveRooms : rooms'[q].world # 0}} =
      {<<rooms[r].key, rooms[r].world, r>> :
         r \in {q \in LiveRooms : rooms[q].world # 0}}
  BY <1>2
<1>5. {<<rooms'[r].key, rooms'[r].lobby, r>> :
         r \in {q \in LiveRooms : rooms'[q].world = 0 /\ rooms'[q].lobby # 0}} =
      {<<rooms[r].key, rooms[r].lobby, r>> :
         r \in {q \in LiveRooms : rooms[q].world = 0 /\ rooms[q].lobby # 0}}
  BY <1>2
<1> QED BY <1>1, <1>3, <1>4, <1>5 DEF IndexAgrees

\* No command leaves a stale entry in an index or a live room out of it.
LEMMA IndexStep ==
  ASSUME IInv, IdsOK, IndexAgrees, NEW u \in Users, Acts(u)
  PROVE  IndexAgrees'
<1>1. rooms \in [RoomId -> Room] /\ TypeOK
  BY DEF IInv, TypeOK
<1>2. CASE Quiet(u)
  BY <1>1, <1>2, IndexUntouched DEF Quiet
<1>3. ASSUME NEW r \in RoomId, NEW new, rooms[r].live, IndexKept,
             rooms' = [rooms EXCEPT ![r] = new], Continues(rooms[r], new)
      PROVE  IndexAgrees'
  <2>1. \A q \in RoomId : rooms'[q] = IF q = r THEN new ELSE rooms[q]
    BY <1>1, <1>3
  <2>2. \A q \in RoomId :
          /\ rooms'[q].live = rooms[q].live
          /\ rooms[q].live => /\ rooms'[q].key = rooms[q].key
                              /\ rooms'[q].world = rooms[q].world
                              /\ rooms'[q].lobby = rooms[q].lobby
    <3> TAKE q \in RoomId
    <3>1. CASE q = r
      <4>1. new \in Room /\ rooms[r] \in Room /\ new.live
        BY <1>1, <1>3 DEF Continues
      <4>2. new.live = TRUE /\ rooms[r].live = TRUE
        BY <1>3, <4>1 DEF Room
      <4> QED BY <1>3, <2>1, <3>1, <4>2 DEF Continues
    <3>2. CASE q # r
      BY <2>1, <3>2
    <3> QED BY <3>1, <3>2
  <2> QED BY <1>1, <1>3, <2>2, IndexUntouched
<1>4. ASSUME NEW q \in RoomId, NEW new, OpensListed(u, q, new)
      PROVE  IndexAgrees'
  <2>1. /\ \A r \in RoomId : rooms'[r] = IF r = q THEN new ELSE rooms[r]
        /\ ~rooms[q].live /\ new.live
    BY <1>1, <1>4 DEF OpensListed, Opens
  <2>2. LiveRooms' = LiveRooms \cup {q} /\ q \notin LiveRooms
    BY <2>1 DEF LiveRooms
  <2>3. /\ worldRooms' = worldRooms \cup WorldEntries(new, q)
        /\ lobbyRooms' = lobbyRooms \cup LobbyEntries(new, q)
    BY <1>4 DEF OpensListed
  <2>4. \A r \in LiveRooms' : rooms'[r] = IF r = q THEN new ELSE rooms[r]
    BY <2>1 DEF LiveRooms
  <2>5. {<<rooms'[r].key, rooms'[r].world, r>> :
           r \in {p \in LiveRooms' : rooms'[p].world # 0}} =
        {<<rooms[r].key, rooms[r].world, r>> :
           r \in {p \in LiveRooms : rooms[p].world # 0}} \cup WorldEntries(new, q)
    BY <2>2, <2>4 DEF WorldEntries
  <2>6. {<<rooms'[r].key, rooms'[r].lobby, r>> :
           r \in {p \in LiveRooms' : rooms'[p].world = 0 /\ rooms'[p].lobby # 0}} =
        {<<rooms[r].key, rooms[r].lobby, r>> :
           r \in {p \in LiveRooms : rooms[p].world = 0 /\ rooms[p].lobby # 0}}
          \cup LobbyEntries(new, q)
    BY <2>2, <2>4 DEF LobbyEntries
  <2> QED BY <2>3, <2>5, <2>6 DEF IndexAgrees
<1>5. ASSUME NEW q \in RoomId, NEW i \in MemberId, Unlists(u, q, i)
      PROVE  IndexAgrees'
  <2>1. /\ \A r \in RoomId : rooms'[r] = IF r = q THEN NoRoom ELSE rooms[r]
        /\ rooms[q].live /\ ~NoRoom.live
    BY <1>1, <1>5, NoRoomType DEF Unlists
  <2>2. LiveRooms' = LiveRooms \ {q} /\ q \in LiveRooms
    BY <2>1 DEF LiveRooms
  <2>3. /\ worldRooms' = worldRooms \ WorldEntries(rooms[q], q)
        /\ lobbyRooms' = lobbyRooms \ LobbyEntries(rooms[q], q)
    BY <1>5 DEF Unlists
  <2>4. \A r \in LiveRooms' : rooms'[r] = rooms[r] /\ r # q /\ r \in LiveRooms
    BY <2>1, <2>2 DEF LiveRooms
  <2>5. {<<rooms'[r].key, rooms'[r].world, r>> :
           r \in {p \in LiveRooms' : rooms'[p].world # 0}} =
        {<<rooms[r].key, rooms[r].world, r>> :
           r \in {p \in LiveRooms : rooms[p].world # 0}} \ WorldEntries(rooms[q], q)
    BY <2>2, <2>4 DEF WorldEntries
  <2>6. {<<rooms'[r].key, rooms'[r].lobby, r>> :
           r \in {p \in LiveRooms' : rooms'[p].world = 0 /\ rooms'[p].lobby # 0}} =
        {<<rooms[r].key, rooms[r].lobby, r>> :
           r \in {p \in LiveRooms : rooms[p].world = 0 /\ rooms[p].lobby # 0}}
          \ LobbyEntries(rooms[q], q)
    BY <2>2, <2>4 DEF LobbyEntries
  <2> QED BY <2>3, <2>5, <2>6 DEF IndexAgrees
<1>6. ASSUME NEW r \in RoomId, NEW new, JoinsSeated(u, r, new)
      PROVE  IndexAgrees'
  BY <1>3, <1>6 DEF JoinsSeated, Joins
<1>7. ASSUME NEW r \in RoomId, NEW i \in MemberId, NEW new,
             Leaves(u, r, i, new) \/ Kicks(u, r, i, new)
      PROVE  IndexAgrees'
  BY <1>3, <1>7 DEF Leaves, Kicks, Departs
<1>8. ASSUME NEW r \in RoomId, NEW new, Edits(u, r, new)
      PROVE  IndexAgrees'
  BY <1>3, <1>8 DEF Edits, Keeps
<1> QED BY <1>2, <1>4, <1>5, <1>6, <1>7, <1>8 DEF Acts

-----------------------------------------------------------------------------
(* What sessions remember *)

\* A session seated in the room it remembers remembers its seat, and one that
\* believes it owns a room sits there as its owner.  That the owner's slot is
\* one a mask can name is why a crowded room beyond the mask, where a member
\* id may be handed out twice, never takes that seat from him.
ClaimOK(s, u, live, room) ==
  /\ live => SeatsOf(room, u) \subseteq {s.myMemberId}
  /\ s.isRoomOwner =>
       /\ live
       /\ s.myMemberId \in MemberId /\ s.myMemberId.slot <= SlotLimit
       /\ room.owner = s.myMemberId
       /\ room.members[s.myMemberId].user = u

ClaimsOK ==
  \A u \in Users :
    LET s == sess[u] IN ClaimOK(s, u, s.roomId \in LiveRooms, rooms[s.roomId])

\* No command makes a session's claim false, whosever room or seat it takes away.
LEMMA ClaimsStep ==
  ASSUME IInv, ClaimsOK, NEW u \in Users, Acts(u), OthersKept(u)
  PROVE  ClaimsOK'
<1>1. /\ rooms \in [RoomId -> Room] /\ RoomsOK
      /\ 0 \notin RoomId /\ SlotLimit \in Nat
  BY MatchingConstants DEF IInv, TypeOK, RoomId
<1>2. ASSUME NEW v \in Users, ~sess'[v].isRoomOwner, sess'[v].roomId = 0
      PROVE  ClaimOK(sess'[v], v, sess'[v].roomId \in LiveRooms', rooms'[sess'[v].roomId])
  BY <1>1, <1>2 DEF ClaimOK, LiveRooms
<1>3. \A v \in Users : LET s == sess[v] IN
        ClaimOK(s, v, s.roomId \in LiveRooms, rooms[s.roomId])
  BY DEF ClaimsOK
<1> DEFINE Good(v) == LET s == sess'[v] IN
             ClaimOK(s, v, s.roomId \in LiveRooms', rooms'[s.roomId])
           Same(v) == /\ sess'[v].roomId = sess[v].roomId
                      /\ sess'[v].myMemberId = sess[v].myMemberId
                      /\ sess'[v].isRoomOwner = sess[v].isRoomOwner
<1>4. ASSUME \A v \in Users : Good(v)
      PROVE  ClaimsOK'
  BY <1>4 DEF ClaimsOK
<1>5. ASSUME NEW v \in Users, Same(v),
             sess[v].roomId \in LiveRooms' <=> sess[v].roomId \in LiveRooms,
             sess[v].roomId \in LiveRooms =>
               rooms'[sess[v].roomId] = rooms[sess[v].roomId]
      PROVE  Good(v)
  <2>1. ClaimOK(sess[v], v, sess[v].roomId \in LiveRooms, rooms[sess[v].roomId])
    BY <1>3
  <2> QED BY <1>5, <2>1 DEF ClaimOK
<1>6. \A v \in Users : v # u => Same(v) /\ sess'[v] = sess[v]
  BY DEF OthersKept
<1>7. ASSUME NEW r \in RoomId, NEW new, rooms' = [rooms EXCEPT ![r] = new],
             NEW v \in Users, Same(v), sess[v].roomId # r
      PROVE  Good(v)
  <2>1. \A q \in RoomId : q # r => rooms'[q] = rooms[q]
    BY <1>1, <1>7
  <2> QED BY <1>5, <1>7, <2>1 DEF LiveRooms
<1>8. ASSUME NEW r \in RoomId, NEW new, rooms' = [rooms EXCEPT ![r] = new],
             NEW v \in Users, Same(v), sess[v].roomId = r,
             ClaimOK(sess[v], v, new.live, new)
      PROVE  Good(v)
  <2>1. rooms'[r] = new /\ (r \in LiveRooms' <=> new.live)
    BY <1>1, <1>8 DEF LiveRooms
  <2> QED BY <1>8, <2>1 DEF Good, ClaimOK
<1>9. ASSUME NEW r \in RoomId, NEW v \in Users, sess[v].roomId = r
      PROVE  ClaimOK(sess[v], v, rooms[r].live, rooms[r])
  BY <1>3, <1>9 DEF ClaimOK, LiveRooms
<1>10. \A v \in Users : v # Nobody
  BY MatchingConstants
<1> HIDE DEF Good
<1>11. CASE Quiet(u)
  <2>1. LiveRooms' = LiveRooms /\ rooms' = rooms
    BY <1>11 DEF Quiet, LiveRooms
  <2>2. ASSUME NEW v \in Users
        PROVE  Good(v)
    <3>1. Same(v) \/ (~sess'[v].isRoomOwner /\ sess'[v].roomId = 0)
      BY <1>6, <1>11 DEF Quiet, Remembers, ForgetsAll
    <3> QED BY <1>2, <1>5, <2>1, <3>1 DEF Good
  <2> QED BY <1>4, <2>2
<1>12. ASSUME NEW q \in RoomId, NEW new, OpensListed(u, q, new)
       PROVE  ClaimsOK'
  <2>1. /\ rooms' = [rooms EXCEPT ![q] = new] /\ ~rooms[q].live /\ new.live
        /\ Seats(new) = {new.owner} /\ new.members[new.owner].user = u
        /\ new.owner \in MemberId /\ new.owner.slot <= SlotLimit
        /\ sess'[u].roomId = q /\ sess'[u].myMemberId = new.owner
    BY <1>12, MatchingConstants DEF OpensListed, Opens, Enters
  <2>2. Good(u)
    <3>1. rooms'[q] = new /\ q \in LiveRooms'
      BY <1>1, <2>1 DEF LiveRooms
    <3>2. SeatsOf(new, u) \subseteq Seats(new)
      BY <1>10 DEF SeatsOf, Seats
    <3> QED BY <2>1, <3>1, <3>2 DEF Good, ClaimOK
  <2>3. ASSUME NEW v \in Users, v # u
        PROVE  Good(v)
    <3>1. CASE sess[v].roomId = q
      <4>1. ~sess[v].isRoomOwner
        BY <1>9, <2>1, <3>1 DEF ClaimOK
      <4>2. SeatsOf(new, v) = {}
        BY <1>10, <2>1, <2>3 DEF SeatsOf, Seats
      <4>3. ClaimOK(sess[v], v, new.live, new)
        BY <4>1, <4>2 DEF ClaimOK
      <4> QED BY <1>6, <1>8, <2>1, <2>3, <3>1, <4>3
    <3>2. CASE sess[v].roomId # q
      BY <1>6, <1>7, <2>1, <2>3, <3>2
    <3> QED BY <3>1, <3>2
  <2> QED BY <1>4, <2>2, <2>3
<1>13. ASSUME NEW r \in RoomId, NEW new, JoinsSeated(u, r, new)
       PROVE  ClaimsOK'
  <2>1. PICK blocks \in SUBSET Users, id \in MemberId :
          /\ Joins(rooms[r], new, u, blocks, id)
          /\ id.slot <= SlotLimit => id \notin Seats(rooms[r])
          /\ Enters(u, r, id) /\ ~sess'[u].isRoomOwner
    BY <1>13 DEF JoinsSeated
  <2> DEFINE m == [user |-> u, flags |-> {}, blocks |-> blocks]
  <2>2. /\ rooms[r].live /\ rooms' = [rooms EXCEPT ![r] = new] /\ new.live
        /\ new.owner = rooms[r].owner
        /\ \A i \in MemberId :
             new.members[i].user = IF i = id THEN u ELSE rooms[r].members[i].user
    <3>1. rooms[r] \in Room
      BY <1>1
    <3> QED BY <1>13, <2>1, <3>1 DEF JoinsSeated, Joins, Continues, Room
  <2>3. Good(u)
    <3>1. SeatsOf(rooms[r], u) = {}
      BY <2>1 DEF Joins, MayJoin
    <3>2. SeatsOf(new, u) = {id}
      BY <2>2, <3>1 DEF SeatsOf
    <3>3. rooms'[r] = new
      BY <1>1, <2>2
    <3> QED BY <2>1, <3>2, <3>3 DEF Good, ClaimOK, Enters
  <2>4. ASSUME NEW v \in Users, v # u
        PROVE  Good(v)
    <3>1. CASE sess[v].roomId = r
      <4>1. ClaimOK(sess[v], v, rooms[r].live, rooms[r])
        BY <1>9, <3>1
      <4>2. SeatsOf(new, v) \subseteq SeatsOf(rooms[r], v)
        BY <2>2, <2>4 DEF SeatsOf
      <4>3. ASSUME sess[v].isRoomOwner
            PROVE  new.members[sess[v].myMemberId].user = v
        <5>1. /\ sess[v].myMemberId \in MemberId
              /\ sess[v].myMemberId.slot <= SlotLimit
              /\ rooms[r].members[sess[v].myMemberId].user = v
          BY <4>1, <4>3 DEF ClaimOK
        <5>2. sess[v].myMemberId \in Seats(rooms[r])
          BY <1>10, <5>1 DEF Seats
        <5>3. sess[v].myMemberId # id
          BY <2>1, <5>1, <5>2
        <5> QED BY <2>2, <5>1, <5>3
      <4>4. ClaimOK(sess[v], v, new.live, new)
        BY <2>2, <4>1, <4>2, <4>3 DEF ClaimOK
      <4> QED BY <1>6, <1>8, <2>2, <2>4, <3>1, <4>4
    <3>2. CASE sess[v].roomId # r
      BY <1>6, <1>7, <2>2, <2>4, <3>2
    <3> QED BY <3>1, <3>2
  <2> QED BY <1>4, <2>3, <2>4
<1>14. ASSUME NEW r \in RoomId, NEW i \in MemberId, NEW new, rooms[r].live,
              rooms' = [rooms EXCEPT ![r] = new], Departs(rooms[r], new, i),
              NEW v \in Users, Same(v),
              rooms[r].members[i].user # v \/ i # rooms[r].owner
       PROVE  Good(v)
  <2>1. CASE sess[v].roomId = r
    <3>1. ClaimOK(sess[v], v, rooms[r].live, rooms[r])
      BY <1>9, <2>1
    <3>2. /\ Seats(new) = Seats(rooms[r]) \ {i} /\ new.live
          /\ \A j \in Seats(new) : new.members[j].user = rooms[r].members[j].user
      BY <1>14 DEF Departs, SameMembers, Continues
    <3>3. SeatsOf(new, v) \subseteq SeatsOf(rooms[r], v)
      <4>1. SeatsOf(new, v) \subseteq Seats(new)
        BY <1>10 DEF SeatsOf, Seats
      <4> QED BY <3>2, <4>1 DEF SeatsOf
    <3>4. ASSUME sess[v].isRoomOwner
          PROVE  /\ new.owner = sess[v].myMemberId
                 /\ new.members[sess[v].myMemberId].user = v
      <4>1. /\ sess[v].myMemberId \in MemberId
            /\ rooms[r].owner = sess[v].myMemberId
            /\ rooms[r].members[sess[v].myMemberId].user = v
        BY <3>1, <3>4 DEF ClaimOK
      <4>2. sess[v].myMemberId # i
        BY <1>14, <4>1
      <4>3. sess[v].myMemberId \in Seats(new)
        BY <1>10, <3>2, <4>1, <4>2 DEF Seats
      <4> QED BY <1>14, <3>2, <4>1, <4>2, <4>3 DEF Departs
    <3>5. ClaimOK(sess[v], v, new.live, new)
      BY <1>14, <3>1, <3>2, <3>3, <3>4 DEF ClaimOK
    <3> QED BY <1>8, <1>14, <2>1, <3>5
  <2>2. CASE sess[v].roomId # r
    BY <1>7, <1>14, <2>2
  <2> QED BY <2>1, <2>2
<1>15. ASSUME NEW r \in RoomId, NEW new, rooms' = [rooms EXCEPT ![r] = new],
              Forgets(u, r)
       PROVE  Good(u)
  <2>1. CASE ForgetsAll(u)
    BY <1>2, <2>1 DEF ForgetsAll, Good
  <2>2. CASE sess[u].roomId # r /\ sess'[u] = sess[u]
    BY <1>7, <1>15, <2>2
  <2> QED BY <1>15, <2>1, <2>2 DEF Forgets
<1>16. ASSUME NEW r \in RoomId, NEW i \in MemberId, NEW new, Leaves(u, r, i, new)
       PROVE  ClaimsOK'
  <2>1. Good(u)
    BY <1>15, <1>16 DEF Leaves
  <2>2. \A v \in Users : v # u => Good(v)
    BY <1>6, <1>14, <1>16 DEF Leaves
  <2> QED BY <1>4, <2>1, <2>2
<1>17. ASSUME NEW r \in RoomId, NEW i \in MemberId, Unlists(u, r, i)
       PROVE  ClaimsOK'
  <2>1. Good(u)
    BY <1>15, <1>17 DEF Unlists
  <2>2. ASSUME NEW v \in Users, v # u
        PROVE  Good(v)
    <3>1. CASE sess[v].roomId = r
      <4>1. ~sess[v].isRoomOwner
        <5>1. ASSUME sess[v].isRoomOwner
              PROVE  FALSE
          <6>1. /\ sess[v].myMemberId \in MemberId
                /\ rooms[r].members[sess[v].myMemberId].user = v
            BY <1>9, <3>1, <5>1 DEF ClaimOK
          <6>2. sess[v].myMemberId \in Seats(rooms[r])
            BY <1>10, <6>1 DEF Seats
          <6> QED BY <1>17, <2>2, <6>1, <6>2 DEF Unlists
        <5> QED BY <5>1
      <4>2. ClaimOK(sess[v], v, NoRoom.live, NoRoom)
        BY <4>1, NoRoomType DEF ClaimOK
      <4> QED BY <1>6, <1>8, <1>17, <2>2, <3>1, <4>2 DEF Unlists
    <3>2. CASE sess[v].roomId # r
      BY <1>6, <1>7, <1>17, <2>2, <3>2 DEF Unlists
    <3> QED BY <3>1, <3>2
  <2> QED BY <1>4, <2>1, <2>2
<1>18. ASSUME NEW r \in RoomId, NEW i \in MemberId, NEW new, Kicks(u, r, i, new)
       PROVE  ClaimsOK'
  <2>1. \A v \in Users : Good(v)
    BY <1>14, <1>18 DEF Kicks
  <2> QED BY <1>4, <2>1
<1>19. ASSUME NEW r \in RoomId, NEW new, Edits(u, r, new)
       PROVE  ClaimsOK'
  <2>1. ASSUME NEW v \in Users
        PROVE  Good(v)
    <3>1. CASE sess[v].roomId = r
      <4>1. ClaimOK(sess[v], v, rooms[r].live, rooms[r])
        BY <1>9, <3>1
      <4>2. /\ \A j \in MemberId : new.members[j].user = rooms[r].members[j].user
            /\ new.owner = rooms[r].owner /\ new.live /\ rooms[r].live
        BY <1>19 DEF Edits, Keeps, SameMembers, Continues
      <4>3. SeatsOf(new, v) = SeatsOf(rooms[r], v)
        BY <4>2 DEF SeatsOf
      <4>4. ClaimOK(sess[v], v, new.live, new)
        BY <4>1, <4>2, <4>3 DEF ClaimOK
      <4> QED BY <1>8, <1>19, <3>1, <4>4 DEF Edits
    <3>2. CASE sess[v].roomId # r
      BY <1>7, <1>19, <3>2 DEF Edits
    <3> QED BY <3>1, <3>2
  <2> QED BY <1>4, <2>1
<1> QED BY <1>11, <1>12, <1>13, <1>16, <1>17, <1>18, <1>19 DEF Acts

-----------------------------------------------------------------------------
(* Theorems *)

FoundInv == SInv /\ IndexAgrees /\ ClaimsOK

\* The invariant that searches and sessions rely on holds in every behaviour.
LEMMA FoundInductive == Spec => []FoundInv
<1>1. Init => IndexAgrees /\ ClaimsOK
  <2> SUFFICES ASSUME Init PROVE IndexAgrees /\ ClaimsOK
    OBVIOUS
  <2>1. LiveRooms = {} /\ worldRooms = {} /\ lobbyRooms = {}
    BY NoRoomType DEF Init, LiveRooms
  <2>2. \A u \in Users : ~sess[u].isRoomOwner
    BY DEF Init, FreshSession
  <2> QED BY <2>1, <2>2 DEF IndexAgrees, ClaimsOK, ClaimOK
<1>2. SInv /\ SInv' /\ IndexAgrees /\ ClaimsOK /\ [Next]_vars => IndexAgrees' /\ ClaimsOK'
  <2> SUFFICES ASSUME SInv, IndexAgrees, ClaimsOK, [Next]_vars
               PROVE  IndexAgrees' /\ ClaimsOK'
    OBVIOUS
  <2>1. IInv /\ IdsOK
    BY DEF SInv
  <2>2. CASE UNCHANGED vars
    BY <2>2 DEF vars, IndexAgrees, LiveRooms, ClaimsOK
  <2>3. CASE \E u \in Users : SessionNext(u)
    BY <2>1, <2>3, CommandActs, IndexStep, ClaimsStep
  <2> QED BY <2>2, <2>3 DEF Next
<1> QED BY <1>1, <1>2, StrongInductive, PTL DEF Spec, FoundInv

\* In every behaviour a player who asks for the rooms of a place with a seat to
\* offer is shown all of them, each once, and no room that is full but one of a
\* single slot; and no session claims a seat or a room that is not its own.
THEOREM SearchesAlwaysComplete == Spec => []RoomsFound
<1>1. FoundInv => RoomsFound
  <2> SUFFICES ASSUME FoundInv PROVE RoomsFound
    OBVIOUS
  <2>1. IInv /\ IndexAgrees /\ ClaimsOK
    BY DEF FoundInv, SInv
  <2>2. SessionClaimsSound
    BY <2>1 DEF ClaimsOK, ClaimOK, SessionClaimsSound
  <2>3. SearchComplete
    BY <2>1, SearchFindsAll
  <2> QED BY <2>1, <2>2, <2>3 DEF RoomsFound, SearchComplete
<1> QED BY <1>1, FoundInductive, PTL
=============================================================================
