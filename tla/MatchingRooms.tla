--------------------------- MODULE MatchingRooms ---------------------------
(***************************************************************************)
(* The matchmaking rooms of shadNet (cmd_matching.cpp, matching_types.h).  *)
(*                                                                         *)
(* Every player has at most one live session, which runs on a thread of    *)
(* its own and executes its commands one after another.  Sessions share    *)
(* the room table and its two indexes under roomsLock: each section of a   *)
(* handler that holds the lock for writing is one action here.  Creating a *)
(* room is two actions, because the room id is drawn from an atomic        *)
(* counter before the lock is taken.                                       *)
(*                                                                         *)
(* A 16-bit member id packs slot << 4 | counter; here it is the record     *)
(* [slot, gen].  A room's flag word is the set of the bits that are on.    *)
(* Attributes, time stamps, labels and team numbers are left out.          *)
(***************************************************************************)
EXTENDS Naturals, FiniteSets

CONSTANTS
  Users,           \* players, one npid and one account each
  Nobody,          \* stands for "no player" in an unused seat
  Keys,            \* matching keys: room pools that never mix
  MaxRooms,        \* bound on the room ids drawn in a behaviour
  SlotLimit,       \* slots a 64-bit slot mask can name (64 in the code)
  CounterMod,      \* values of the member-id counter (16 in the code)
  WidthMod,        \* values of a 16-bit session field (2^16 in the code)
  RoomFlagBits,    \* bits of the room flag word, "FULL" among them
  MemberFlagBits,  \* bits of the member flag word, "OWNER" among them
  CreateRequests,  \* the CreateRoom requests players send
  JoinBlockLists,  \* the block lists a JoinRoom request may carry
  MaskRequests,    \* the passwd_slot_mask values SetRoomDataInternal sends
  RoomFlagRequests,   \* [filter, attr] pairs SetRoomDataInternal sends
  MemberFlagRequests  \* [filter, attr] pairs SetRoomMemberDataInternal sends

RoomId == 1..MaxRooms
MemberId == [slot : 1..(SlotLimit + 1), gen : 0..(CounterMod - 1)]
NoMemberId == [slot |-> 0, gen |-> 0]

\* The fields of CreateRoomRequest that the rooms' control depends on.
\* mask and groupMask are sets of slot numbers; an empty allow list means
\* that everyone may join.
CreateRequest ==
  [world : Nat, lobby : Nat, maxSlots : Nat, flags : SUBSET RoomFlagBits,
   mask : SUBSET (1..SlotLimit), groupMask : SUBSET (1..SlotLimit),
   allowed : SUBSET Users, blocked : SUBSET Users]

ASSUME MatchingConstants ==
  /\ Nobody \notin Users
  /\ IsFiniteSet(Users)
  /\ Keys # {}
  /\ MaxRooms \in Nat
  /\ SlotLimit \in Nat \ {0}
  /\ CounterMod \in Nat \ {0}
  /\ WidthMod \in Nat \ {0}
  /\ "FULL" \in RoomFlagBits
  /\ "OWNER" \in MemberFlagBits
  /\ CreateRequests \subseteq CreateRequest
  /\ JoinBlockLists \subseteq SUBSET Users
  /\ MaskRequests \subseteq SUBSET (1..SlotLimit)
  /\ RoomFlagRequests \subseteq
       [filter : SUBSET RoomFlagBits, attr : SUBSET RoomFlagBits]
  /\ MemberFlagRequests \subseteq
       [filter : SUBSET MemberFlagBits, attr : SUBSET MemberFlagBits]

VARIABLES
  rooms,       \* rooms[r]: the room with id r, live or not
  worldRooms,  \* <<key, world, r>>: r is listed under the world of that key
  lobbyRooms,  \* <<key, lobby, r>>: r is listed under the lobby of that key
  nextRoomId,  \* the atomic room-id counter
  sess         \* sess[u]: the matching state of u's session

vars == <<rooms, worldRooms, lobbyRooms, nextRoomId, sess>>

-----------------------------------------------------------------------------
(* Records *)

Member == [user : Users \cup {Nobody}, flags : SUBSET MemberFlagBits,
           blocks : SUBSET Users]

EmptySeat == [user |-> Nobody, flags |-> {}, blocks |-> {}]

Room ==
  [live : BOOLEAN, key : Keys, world : Nat, lobby : Nat, maxSlot : Nat,
   flags : SUBSET RoomFlagBits, mask : SUBSET (1..SlotLimit),
   groupMask : SUBSET (1..SlotLimit), allowed : SUBSET Users,
   blocked : SUBSET Users, owner : MemberId \cup {NoMemberId},
   members : [MemberId -> Member], counter : 0..(CounterMod - 1),
   publicSlots : Nat, privateSlots : Nat,
   openPublicSlots : Nat, openPrivateSlots : Nat]

\* MatchingSessionState, with the session's own status: online is set while
\* the session is signed in, creating is the id CreateRoom has drawn and not
\* yet published (0 for none).
Session ==
  [online : BOOLEAN, initialized : BOOLEAN, key : Keys, creating : 0..MaxRooms,
   roomId : 0..MaxRooms, myMemberId : MemberId \cup {NoMemberId},
   isRoomOwner : BOOLEAN, worldId : 0..(WidthMod - 1),
   lobbyId : 0..(WidthMod - 1)]

FreshSession(k, on) ==
  [online |-> on, initialized |-> FALSE, key |-> k, creating |-> 0,
   roomId |-> 0, myMemberId |-> NoMemberId, isRoomOwner |-> FALSE,
   worldId |-> 1 % WidthMod, lobbyId |-> 0]

-----------------------------------------------------------------------------
(* Operations on one room *)

Seats(room) == {i \in MemberId : room.members[i].user # Nobody}
Occupancy(room) == Cardinality(Seats(room))
Occupants(room) == {room.members[i].user : i \in Seats(room)}
IsFull(room) == Occupancy(room) >= room.maxSlot
SeatsOf(room, u) == {i \in MemberId : room.members[i].user = u}
TakenSlots(room) == {i.slot : i \in Seats(room)}

ValidSlots(room) ==
  1..(IF room.maxSlot >= SlotLimit THEN SlotLimit ELSE room.maxSlot)

\* MUTANT: the room's own mask is not clipped to the room's size.
PrivateSlots_Unclipped(room) ==
  IF room.mask = {} THEN room.groupMask \cap ValidSlots(room) ELSE room.mask

\* The room's own mask decides which slots are private; when it selects no
\* valid slot, the groups with a password do.
PrivateSlots(room) ==
  LET own == room.mask \cap ValidSlots(room)
  IN  IF own = {} THEN room.groupMask \cap ValidSlots(room) ELSE own

PublicSlots(room) == ValidSlots(room) \ PrivateSlots(room)

RecomputeRoomSlotCounts(room) ==
  [room EXCEPT
     !.publicSlots = Cardinality(PublicSlots(room)),
     !.privateSlots = Cardinality(PrivateSlots(room)),
     !.openPublicSlots = Cardinality(PublicSlots(room) \ TakenSlots(room)),
     !.openPrivateSlots = Cardinality(PrivateSlots(room) \ TakenSlots(room))]

\* MUTANT: the slot after the last member, as if members never left.
IsAllocatedSlot_ByCount(room, s) == s = Occupancy(room) + 1

\* s is the slot allocMemberId settles on: the lowest free one, or the one
\* past the limit when none is free.
IsAllocatedSlot(room, s) ==
  /\ s \in 1..(SlotLimit + 1)
  /\ \A t \in 1..(s - 1) : t \in TakenSlots(room)
  /\ s <= SlotLimit => s \notin TakenSlots(room)

\* MUTANT: the counter is not masked to its four bits.
NextCounter_NoWrap(room) == room.counter + 1

NextCounter(room) == (room.counter + 1) % CounterMod

\* insert() replaces whatever the same member id held before.
AddMember(room, s, member) ==
  [room EXCEPT !.counter = NextCounter(room),
               !.members[[slot |-> s, gen |-> NextCounter(room)]] = member]

\* MUTANT: the FULL bit is left on.
RemoveMember_KeepsFull(room, i) == [room EXCEPT !.members[i] = EmptySeat]

RemoveMember(room, i) ==
  [room EXCEPT !.members[i] = EmptySeat, !.flags = @ \ {"FULL"}]

MakeOwner(room, i) ==
  [room EXCEPT !.owner = i, !.members[i].flags = @ \cup {"OWNER"}]

MarkFull(room) ==
  IF IsFull(room) THEN [room EXCEPT !.flags = @ \cup {"FULL"}] ELSE room

\* MUTANT: the protected bits are not taken out of the filter.
MaskedFlags_Unprotected(flags, flag, protected) ==
  (flags \ flag.filter) \cup (flag.attr \cap flag.filter)

\* flag word after a masked update that may not touch the protected bits
MaskedFlags(flags, flag, protected) ==
  LET eff == flag.filter \ protected
  IN  (flags \ eff) \cup (flag.attr \cap eff)

\* The index entries of room r: a room is listed under its world, or under
\* its lobby when its world is zero.
WorldEntries(room, r) == {<<room.key, w, r>> : w \in {room.world} \ {0}}
\* MUTANT: a room in a world is listed under its lobby too.
LobbyEntries_Always(room, r) == {<<room.key, l, r>> : l \in {room.lobby} \ {0}}

LobbyEntries(room, r) ==
  {<<room.key, l, r>> : l \in IF room.world = 0 THEN {room.lobby} \ {0} ELSE {}}

\* MUTANT: any departure hands the room over, not only the owner's.
AfterDeparture_AlwaysHandsOver(room, i) ==
  LET left == RecomputeRoomSlotCounts(RemoveMember(room, i))
  IN  {MakeOwner(left, heir) : heir \in Seats(left)}

\* The room once member i has left it, others remaining: when the owner goes,
\* whichever member the hash map lists first takes over (nothing ever fills
\* ownerSuccession).
AfterDeparture(room, i) ==
  LET left == RecomputeRoomSlotCounts(RemoveMember(room, i))
  IN  IF i = room.owner THEN {MakeOwner(left, heir) : heir \in Seats(left)}
      ELSE {left}

NoRoom ==
  [live |-> FALSE, key |-> CHOOSE k \in Keys : TRUE, world |-> 0, lobby |-> 0,
   maxSlot |-> 0, flags |-> {}, mask |-> {}, groupMask |-> {},
   allowed |-> {}, blocked |-> {}, owner |-> NoMemberId,
   members |-> [i \in MemberId |-> EmptySeat], counter |-> 0,
   publicSlots |-> 0, privateSlots |-> 0,
   openPublicSlots |-> 0, openPrivateSlots |-> 0]

-----------------------------------------------------------------------------
(* Sessions *)

Init ==
  /\ rooms = [r \in RoomId |-> NoRoom]
  /\ worldRooms = {}
  /\ lobbyRooms = {}
  /\ nextRoomId = 1
  /\ \E k \in Keys : sess = [u \in Users |-> FreshSession(k, FALSE)]

\* The session's thread is free to take its next command.
Idle(u) == sess[u].online /\ sess[u].creating = 0

\* rooms.find({matchingKey, roomId}): a room of another key is not found.
Found(u, r) == rooms[r].live /\ rooms[r].key = sess[u].key

CmdLogin(u, k) ==
  /\ ~sess[u].online
  /\ sess' = [sess EXCEPT ![u] = FreshSession(k, TRUE)]
  /\ UNCHANGED <<rooms, worldRooms, lobbyRooms, nextRoomId>>

CmdContextStart(u) ==
  /\ Idle(u)
  /\ sess' = [sess EXCEPT ![u].initialized = TRUE]
  /\ UNCHANGED <<rooms, worldRooms, lobbyRooms, nextRoomId>>

CmdContextStop(u) ==
  /\ Idle(u)
  /\ sess' = [sess EXCEPT ![u].initialized = FALSE]
  /\ UNCHANGED <<rooms, worldRooms, lobbyRooms, nextRoomId>>

\* ResetMatchingRoomState: only when r is the room the session believes in.
ResetRoomState(s, r) ==
  IF s.roomId # r THEN s
  ELSE [s EXCEPT !.roomId = 0, !.myMemberId = NoMemberId, !.isRoomOwner = FALSE]

EnteredRoom(s, r, i, owner, room) ==
  [s EXCEPT !.creating = 0, !.roomId = r, !.myMemberId = i,
            !.isRoomOwner = owner, !.worldId = room.world % WidthMod,
            !.lobbyId = room.lobby % WidthMod]

-----------------------------------------------------------------------------
(* CreateRoom: draw an id, build the room, publish it under the lock *)

\* MUTANT: the counter is read and written back in separate steps, so an
\* increment may be lost.
CmdCreateRoom_RacyCounter(u) ==
  /\ Idle(u)
  /\ nextRoomId <= MaxRooms
  /\ nextRoomId' \in {nextRoomId, nextRoomId + 1}
  /\ sess' = [sess EXCEPT ![u].creating = nextRoomId]
  /\ UNCHANGED <<rooms, worldRooms, lobbyRooms>>

CmdCreateRoom(u) ==
  /\ Idle(u)
  /\ nextRoomId <= MaxRooms
  /\ nextRoomId' = nextRoomId + 1
  /\ sess' = [sess EXCEPT ![u].creating = nextRoomId]
  /\ UNCHANGED <<rooms, worldRooms, lobbyRooms>>

\* The room as built by the creator's thread, its creator seated as owner.
NewRoom(u, req, s) ==
  LET base ==
        [NoRoom EXCEPT
           !.live = TRUE, !.key = sess[u].key,
           !.world = IF req.world # 0 THEN req.world ELSE sess[u].worldId,
           !.lobby = IF req.lobby # 0 THEN req.lobby ELSE sess[u].lobbyId,
           !.maxSlot = IF req.maxSlots % WidthMod < 1 THEN 1
                       ELSE req.maxSlots % WidthMod,
           !.flags = req.flags \ {"FULL"},
           !.mask = req.mask, !.groupMask = req.groupMask,
           !.allowed = req.allowed, !.blocked = req.blocked]
      owner == [user |-> u, flags |-> {"OWNER"}, blocks |-> {}]
      seated == AddMember(base, s, owner)
  IN  RecomputeRoomSlotCounts(
        [seated EXCEPT !.owner = [slot |-> s, gen |-> seated.counter]])

PublishRoom(u, req) ==
  /\ sess[u].online /\ sess[u].creating # 0
  /\ LET r == sess[u].creating IN
     \E s \in 1..(SlotLimit + 1) :
       /\ IsAllocatedSlot(NoRoom, s)
       /\ LET room == NewRoom(u, req, s) IN
          /\ rooms' = [rooms EXCEPT ![r] = room]
          /\ worldRooms' = worldRooms \cup WorldEntries(room, r)
          /\ lobbyRooms' = lobbyRooms \cup LobbyEntries(room, r)
          /\ sess' = [sess EXCEPT
                        ![u] = EnteredRoom(@, r, room.owner, TRUE, room)]
  /\ UNCHANGED nextRoomId

-----------------------------------------------------------------------------
(* JoinRoom *)

\* The joiner and some member refuse each other, by either one's block list.
BlockedByMember(room, u, blocks) ==
  \E i \in Seats(room) :
    \/ room.members[i].user \in blocks
    \/ u \in room.members[i].blocks

\* MUTANT: the room's block list is only consulted when there is no allow list.
MayJoin_AllowListWins(room, u, blocks) ==
  /\ ~IsFull(room)
  /\ SeatsOf(room, u) = {}
  /\ IF room.allowed = {} THEN u \notin room.blocked ELSE u \in room.allowed
  /\ ~BlockedByMember(room, u, blocks)

MayJoin(room, u, blocks) ==
  /\ ~IsFull(room)
  /\ SeatsOf(room, u) = {}
  /\ room.allowed = {} \/ u \in room.allowed
  /\ u \notin room.blocked
  /\ ~BlockedByMember(room, u, blocks)

CmdJoinRoom(u, r, blocks) ==
  /\ Idle(u)
  /\ Found(u, r)
  /\ MayJoin(rooms[r], u, blocks)
  /\ \E s \in 1..(SlotLimit + 1) :
       /\ IsAllocatedSlot(rooms[r], s)
       /\ LET member == [user |-> u, flags |-> {}, blocks |-> blocks]
              joined == MarkFull(RecomputeRoomSlotCounts(
                                   AddMember(rooms[r], s, member)))
              id == [slot |-> s, gen |-> joined.counter]
          IN  /\ rooms' = [rooms EXCEPT ![r] = joined]
              /\ sess' = [sess EXCEPT
                            ![u] = EnteredRoom(@, r, id, FALSE, joined)]
  /\ UNCHANGED <<worldRooms, lobbyRooms, nextRoomId>>

-----------------------------------------------------------------------------
(* Leaving, being kicked, disconnecting *)

\* The member with id i leaves room r: the last one out destroys the room
\* and takes it out of its index.
Depart(r, i) ==
  \/ /\ Seats(rooms[r]) = {i}
     /\ rooms' = [rooms EXCEPT ![r] = NoRoom]
     /\ worldRooms' = worldRooms \ WorldEntries(rooms[r], r)
     /\ lobbyRooms' = lobbyRooms \ LobbyEntries(rooms[r], r)
  \/ /\ Seats(rooms[r]) # {i}
     /\ \E left \in AfterDeparture(rooms[r], i) :
          rooms' = [rooms EXCEPT ![r] = left]
     /\ UNCHANGED <<worldRooms, lobbyRooms>>

CmdLeaveRoom(u, r) ==
  /\ Idle(u)
  /\ Found(u, r)
  /\ \E i \in SeatsOf(rooms[r], u) : Depart(r, i)
  /\ sess' = [sess EXCEPT ![u] = ResetRoomState(@, r)]
  /\ UNCHANGED nextRoomId

\* The kicked player's own session state is not touched.
CmdKickoutRoomMember(u, r, target, block) ==
  /\ Idle(u)
  /\ Found(u, r)
  /\ \E me \in SeatsOf(rooms[r], u) :
       /\ me = rooms[r].owner
       /\ target # me
  /\ target \in Seats(rooms[r])
  /\ LET kicked == rooms[r].members[target].user
         left == RecomputeRoomSlotCounts(RemoveMember(rooms[r], target))
     IN  rooms' = [rooms EXCEPT ![r] =
                     [left EXCEPT !.blocked =
                        IF block THEN @ \cup {kicked} ELSE @]]
  /\ UNCHANGED <<worldRooms, lobbyRooms, nextRoomId, sess>>

\* CleanupOnDisconnect: nothing is left unless a context is active, and then
\* only the room the session believes it is in.
Disconnect(u) ==
  LET r == sess[u].roomId
      leaves == /\ sess[u].initialized
                /\ r \in RoomId
                /\ Found(u, r)
                /\ SeatsOf(rooms[r], u) # {}
  IN  /\ Idle(u)
      /\ \/ /\ leaves
            /\ \E i \in SeatsOf(rooms[r], u) : Depart(r, i)
         \/ /\ ~leaves
            /\ UNCHANGED <<rooms, worldRooms, lobbyRooms>>
      /\ sess' = [sess EXCEPT ![u] = FreshSession(@.key, FALSE)]
      /\ UNCHANGED nextRoomId

-----------------------------------------------------------------------------
(* Room and member data: any session of the key may change them *)

\* masks is {} when the request carries no mask, else the one mask it sends.
CmdSetRoomDataInternal(u, r, flag, masks) ==
  /\ Idle(u)
  /\ Found(u, r)
  /\ LET flagged == [rooms[r] EXCEPT
                       !.flags = MaskedFlags(@, flag, {"FULL"})]
     IN  \/ /\ masks = {}
            /\ rooms' = [rooms EXCEPT ![r] = flagged]
         \/ \E mask \in masks :
              rooms' = [rooms EXCEPT ![r] =
                RecomputeRoomSlotCounts([flagged EXCEPT !.mask = mask])]
  /\ UNCHANGED <<worldRooms, lobbyRooms, nextRoomId, sess>>

CmdSetRoomMemberDataInternal(u, r, i, flag) ==
  /\ Idle(u)
  /\ Found(u, r)
  /\ i \in Seats(rooms[r])
  /\ rooms' = [rooms EXCEPT ![r].members[i].flags =
                 MaskedFlags(@, flag, {"OWNER"})]
  /\ UNCHANGED <<worldRooms, lobbyRooms, nextRoomId, sess>>

-----------------------------------------------------------------------------
(* Searches, under roomsLock for reading *)

\* A place is a world, or a lobby outside the worlds.
Places ==
  {[world |-> req.world, lobby |-> req.lobby] : req \in CreateRequests}
InPlace(room, place) ==
  IF place.world # 0 THEN room.world = place.world
  ELSE place.lobby # 0 /\ room.world = 0 /\ room.lobby = place.lobby

\* The rooms that an index lists for u.
Candidates(u, place) ==
  LET listed == IF place.world # 0
                THEN {r \in RoomId : <<sess[u].key, place.world, r>> \in worldRooms}
                ELSE IF place.lobby # 0
                THEN {r \in RoomId : <<sess[u].key, place.lobby, r>> \in lobbyRooms}
                ELSE {}
  IN  {r \in listed : rooms[r].live /\ rooms[r].key = sess[u].key}

\* Attributes are left out, and with them the filters on them; the NAT bit is ignored.
RoomMatchesFilters(room, filter, attr) ==
  /\ "HIDDEN" \notin room.flags
  /\ room.flags \cap (filter \ {"NAT"}) = attr \ {"NAT"}

\* One page of at most max rooms, from the start-th match on; the matches are in the order
\* of their ids here, where the code has them in the order they were published in.
SearchRoom(u, place, filter, attr, start, max) ==
  LET matches == {r \in Candidates(u, place) : RoomMatchesFilters(rooms[r], filter, attr)}
      rank(r) == Cardinality({q \in matches : q <= r})
      last == IF Cardinality(matches) < start + max - 1 THEN Cardinality(matches)
              ELSE start + max - 1
  IN  [i \in 1 .. (IF start <= last THEN last - start + 1 ELSE 0) |->
         CHOOSE r \in matches : rank(r) = start + i - 1]

-----------------------------------------------------------------------------
(* Specification *)

SessionNext(u) ==
  \/ \E k \in Keys : CmdLogin(u, k)
  \/ CmdContextStart(u)
  \/ CmdContextStop(u)
  \/ CmdCreateRoom(u)
  \/ \E req \in CreateRequests : PublishRoom(u, req)
  \/ \E r \in RoomId, blocks \in JoinBlockLists : CmdJoinRoom(u, r, blocks)
  \/ \E r \in RoomId : CmdLeaveRoom(u, r)
  \/ \E r \in RoomId, i \in MemberId, block \in BOOLEAN :
       CmdKickoutRoomMember(u, r, i, block)
  \/ \E r \in RoomId, flag \in RoomFlagRequests,
        masks \in {{}} \cup {{m} : m \in MaskRequests} :
       CmdSetRoomDataInternal(u, r, flag, masks)
  \/ \E r \in RoomId, i \in MemberId, flag \in MemberFlagRequests :
       CmdSetRoomMemberDataInternal(u, r, i, flag)
  \/ Disconnect(u)

Next == \E u \in Users : SessionNext(u)

Spec == Init /\ [][Next]_vars

-----------------------------------------------------------------------------
(* Properties *)

LiveRooms == {r \in RoomId : rooms[r].live}
Published(u) == sess[u].roomId \in LiveRooms
Spent(r) ==
  r < nextRoomId /\ ~rooms[r].live /\ \A u \in Users : sess[u].creating # r

\* The variables have their types; in particular the member-id counter wraps
\* and the 16-bit session fields hold 16-bit values.
TypeOK ==
  /\ rooms \in [RoomId -> Room]
  /\ worldRooms \subseteq Keys \X Nat \X RoomId
  /\ lobbyRooms \subseteq Keys \X Nat \X RoomId
  /\ nextRoomId \in 1..(MaxRooms + 1)
  /\ sess \in [Users -> Session]

\* A room of at most SlotLimit slots seats no player twice and no two players
\* in one slot, and every seat is one of the room's slots: allocMemberId
\* (slot search) and isFull (hash size) never disagree.
SeatingSound ==
  \A r \in LiveRooms : rooms[r].maxSlot <= SlotLimit =>
    LET room == rooms[r] IN
    /\ \A i, j \in Seats(room) :
         \/ i.slot = j.slot
         \/ room.members[i].user = room.members[j].user
         => i = j
    /\ TakenSlots(room) \subseteq 1..room.maxSlot

\* The owner id kept in the room and the OWNER bit kept in the members, which
\* replies read separately, name the same, seated member: no sequence of
\* joins, kicks, handovers and member-data updates separates the two.
OwnerSound ==
  \A r \in LiveRooms : rooms[r].maxSlot <= SlotLimit =>
    {i \in Seats(rooms[r]) : "OWNER" \in rooms[r].members[i].flags}
      = {rooms[r].owner}

\* The FULL bit that searches filter on follows occupancy, except in a room
\* created with a single slot, whose bit is off until somebody would join.
FullFlagAgrees ==
  \A r \in LiveRooms :
    /\ "FULL" \in rooms[r].flags => IsFull(rooms[r])
    /\ IsFull(rooms[r]) /\ rooms[r].maxSlot > 1 => "FULL" \in rooms[r].flags

\* The four cached slot counts add up to the room's size and to its free
\* seats, whatever masks have been set and whoever has come and gone since.
SlotCountsExact ==
  \A r \in LiveRooms : rooms[r].maxSlot <= SlotLimit =>
    LET room == rooms[r] IN
    /\ room.publicSlots + room.privateSlots = room.maxSlot
    /\ room.openPublicSlots + room.openPrivateSlots + Occupancy(room)
         = room.maxSlot
    /\ room.openPublicSlots <= room.publicSlots
    /\ room.openPrivateSlots <= room.privateSlots

\* The indexes that searches read list exactly the live rooms, each once,
\* under its own key and place: no stale candidate, no room lost to search.
IndexAgrees ==
  /\ worldRooms = {<<rooms[r].key, rooms[r].world, r>> :
                      r \in {q \in LiveRooms : rooms[q].world # 0}}
  /\ lobbyRooms = {<<rooms[r].key, rooms[r].lobby, r>> :
                      r \in {q \in LiveRooms :
                              rooms[q].world = 0 /\ rooms[q].lobby # 0}}

\* What a session remembers of its room is never a false claim: if it is
\* seated in the room it remembers, it remembers its seat, and if it believes
\* that it owns a room, the room exists and that member owns it.
SessionClaimsSound ==
  \A u \in Users :
    LET s == sess[u] IN
    /\ s.roomId \in LiveRooms => SeatsOf(rooms[s.roomId], u) \subseteq {s.myMemberId}
    /\ s.isRoomOwner
         => /\ s.roomId \in LiveRooms
            /\ rooms[s.roomId].owner = s.myMemberId
            /\ rooms[s.roomId].maxSlot <= SlotLimit
                 => rooms[s.roomId].members[s.myMemberId].user = u

\* Whoever asks for the rooms of a place that are not full finds, over all pages, the
\* rooms of his pool that are there, not hidden and with a seat to offer, each once, and
\* none that is full but one of a single slot, whose bit may be off; and no session
\* claims a seat or a room that is not its own.
RoomsFound ==
  /\ SessionClaimsSound /\ IndexAgrees
  /\ \A u \in Users, place \in Places :
       LET shown == {r \in LiveRooms :
                       /\ rooms[r].key = sess[u].key
                       /\ InPlace(rooms[r], place)
                       /\ "HIDDEN" \notin rooms[r].flags}
           pages == [start \in 1 .. 1 + MaxRooms |->
                       SearchRoom(u, place, {"FULL"}, {}, start, 1)]
           found == {pages[i][1] : i \in {j \in DOMAIN pages : pages[j] # <<>>}}
       IN  /\ found \subseteq shown
           /\ \A r \in shown : IsFull(rooms[r]) \/ r \in found
           /\ \A r \in found : IsFull(rooms[r]) => rooms[r].maxSlot = 1
           /\ \A i, j \in DOMAIN pages :
                pages[i] # <<>> /\ pages[i] = pages[j] => i = j

\* Nobody shares a room with a member who refused him on joining, or whom he
\* refused on joining.
NoRefusedPair ==
  \A r \in LiveRooms : \A i, j \in Seats(rooms[r]) :
    i # j => rooms[r].members[i].user \notin rooms[r].members[j].blocks

\* Ownership moves only when the owner's seat has been given up, and then to
\* a member who was already in the room.
OwnershipHandover ==
  [][\A r \in RoomId :
       rooms[r].live /\ rooms'[r].live /\ rooms'[r].owner # rooms[r].owner =>
         /\ rooms[r].owner \notin Seats(rooms'[r])
         /\ rooms'[r].owner \in Seats(rooms[r]) \cap Seats(rooms'[r])]_vars

\* A player put on a room's block list by a kick stays out of that room for
\* as long as it lives, whatever the player or the remaining members do.
KickBlockHolds ==
  [][\A r \in RoomId, u \in Users :
       /\ rooms[r].live /\ rooms'[r].live
       /\ u \in rooms[r].blocked /\ SeatsOf(rooms[r], u) = {}
       => /\ u \in rooms'[r].blocked
          /\ SeatsOf(rooms'[r], u) = {}]_vars

\* Whom a room or a member has refused stays apart, in whatever order joins,
\* kicks and departures come.
BlocksHold == []NoRefusedPair /\ KickBlockHolds

\* The membership that the room table carries out: who is in which room, who
\* leads it, and which ids are spent.
Membership == INSTANCE RoomMembership WITH
  Ids <- RoomId,
  open <- LiveRooms,
  retired <- {r \in RoomId : Spent(r)},
  capacity <- [r \in RoomId |-> rooms[r].maxSlot],
  occupants <- [r \in RoomId |-> Occupants(rooms[r])],
  leader <- [r \in RoomId |->
               IF rooms[r].live THEN rooms[r].members[rooms[r].owner].user
               ELSE Nobody]

\* The room table implements RoomMembership.
ImplementsMembership == Membership!Spec

-----------------------------------------------------------------------------
(* What the documentation says and the code does not do *)

\* matching.md: a client that disconnects with its context initialized leaves
\* the room it is in.
DisconnectLeavesRooms ==
  [][\A u \in Users :
       sess[u].initialized /\ ~sess'[u].online =>
         \A r \in RoomId : SeatsOf(rooms'[r], u) = {}]_vars
=============================================================================
