----------------------------- MODULE WebSessions -----------------------------
(***************************************************************************)
(* The sessions of the HTTP API: their members and owners, the invitations *)
(* to them, and the purge that takes a player who disconnects out of all   *)
(* of them.  (webapi/webapi_routes_session.cpp, ClientSession::            *)
(* CleanupOnDisconnect)                                                    *)
(*                                                                         *)
(* The web server handles one request after another.  Every handler is one *)
(* section of sessionsLock, except that creating and joining first look    *)
(* under clientsLock whether the caller is online; the threads of the game *)
(* sessions act in between.  `request` is the request in hand.             *)
(*                                                                         *)
(* Session data, names, platforms, lock flag and notifications are left    *)
(* out; invitations do not expire (INVITATION_TTL_MS is 0).                *)
(***************************************************************************)
EXTENDS Integers, FiniteSets, SequencesExt

CONSTANTS
  Users,
  Nobody,
  Friends,        \* Friends[u]: the friends the database has for u
  Indices,        \* the session slots a player uses, of 64
  Kinds,          \* [type, privacy, maxUser] of the sessions that are created
  Updates,        \* [privacy, maxUser] of the updates that are asked for
  NoSession,      \* a session that was not created or is gone
  MaxSessions,    \* bound on the sessions that are created
  MaxInvitations  \* bound on the invitations that are sent

Session == [type: {"owner-bind", "owner-migration"}, privacy: {"public", "private"},
            maxUser: Int, owner: Users,
            members: Seq([user: Users, index: Indices]) \ {<<>>}]

ASSUME SessionConstants ==
  /\ IsFiniteSet(Users) /\ Nobody \notin Users /\ NoSession \notin Session
  /\ Friends \in [Users -> SUBSET Users]
  /\ Indices \subseteq 0 .. 63
  /\ Kinds \subseteq [type: {"owner-bind", "owner-migration"},
                      privacy: {"public", "private"}, maxUser: Nat \ {0}]
  /\ Updates \subseteq [privacy: {"public", "private"}, maxUser: Int]
  /\ MaxSessions \in Nat /\ MaxInvitations \in Nat

VARIABLES
  sessions,     \* sessions[id]: the session, or NoSession
  created,      \* how many session ids have been drawn
  invitations,  \* invitations[i]: the i-th invitation sent
  presence,     \* presence[u]: u's entry of `clients`; "leaving" once purged
  request,      \* the request between its two sections
  late          \* history: players put into a session after their purge

vars == <<sessions, created, invitations, presence, request, late>>

SessionId == 1 .. MaxSessions
Live(id) == sessions[id] # NoSession

NoRequest == [step |-> "none", user |-> Nobody, id |-> 0, index |-> 0]

UsersIn(s) == {s.members[i].user : i \in DOMAIN s.members}
Member(u, index) == [user |-> u, index |-> index]

-----------------------------------------------------------------------------
(* What the handlers share. *)

\* SessionPermissionError is 0.
Permitted(s, u) == IF s.type = "owner-bind" THEN s.owner = u ELSE u \in UsersIn(s)

HasActiveInvitation(id, u) ==
  \E i \in DOMAIN invitations :
    invitations[i].to = u /\ invitations[i].session = id /\ ~invitations[i].used

\* A private session is read by its members, by those invited, and by friends
\* of its members.
MayRead(u, id) ==
  Live(id) /\ \/ sessions[id].privacy # "private"
              \/ u \in UsersIn(sessions[id])
              \/ HasActiveInvitation(id, u)
              \/ Friends[u] \cap UsersIn(sessions[id]) # {}

\* Mutant: a session nobody is left in stays.
Removed_EmptyStays(s, m) ==
  LET rest == RemoveAt(s.members, m)
  IN  IF s.type = "owner-bind" /\ s.owner = s.members[m].user THEN NoSession
      ELSE IF s.owner = s.members[m].user /\ rest # <<>>
           THEN [s EXCEPT !.members = rest, !.owner = rest[1].user]
           ELSE [s EXCEPT !.members = rest]

\* Mutant: the last to come takes over.
Removed_Newest(s, m) ==
  LET rest == RemoveAt(s.members, m)
      leaver == s.members[m].user
  IN  IF (s.type = "owner-bind" /\ s.owner = leaver) \/ rest = <<>> THEN NoSession
      ELSE [s EXCEPT !.members = rest,
                     !.owner = IF s.owner = leaver THEN Last(rest).user ELSE s.owner]

\* The session without its m-th member.  It ends with its last member, and an
\* owner-bind session with its owner; otherwise the next member becomes owner.
Removed(s, m) ==
  LET rest == RemoveAt(s.members, m)
      leaver == s.members[m].user
  IN  IF (s.type = "owner-bind" /\ s.owner = leaver) \/ rest = <<>> THEN NoSession
      ELSE [s EXCEPT !.members = rest,
                     !.owner = IF s.owner = leaver THEN rest[1].user ELSE s.owner]

\* Mutant: a slot in a session the player owns is overlooked.
Occupied_NotOwned(u, index) ==
  {p \in SessionId \X (1 .. Cardinality(Users)) :
     /\ Live(p[1]) /\ p[2] \in DOMAIN sessions[p[1]].members
     /\ sessions[p[1]].owner # u /\ sessions[p[1]].members[p[2]] = Member(u, index)}

Occupied(u, index) ==
  {p \in SessionId \X (1 .. Cardinality(Users)) :
     /\ Live(p[1]) /\ p[2] \in DOMAIN sessions[p[1]].members
     /\ sessions[p[1]].members[p[2]] = Member(u, index)}

\* The tables there may be after u has left the session at `index`: the first
\* that the hash table yields, were there several.
LeaveSessionAtIndex(u, index) ==
  IF Occupied(u, index) = {} THEN {sessions}
  ELSE {[sessions EXCEPT ![p[1]] = Removed(@, p[2])] : p \in Occupied(u, index)}

\* u's first membership of s removed.
RemoveMemberApplyOwner(s, u) ==
  IF s = NoSession \/ u \notin UsersIn(s) THEN s
  ELSE Removed(s, CHOOSE m \in DOMAIN s.members :
                    s.members[m].user = u /\ \A n \in 1 .. m - 1 : s.members[n].user # u)

-----------------------------------------------------------------------------
Init ==
  /\ sessions = [id \in SessionId |-> NoSession]
  /\ created = 0
  /\ invitations = <<>>
  /\ presence = [u \in Users |-> "offline"]
  /\ request = NoRequest
  /\ late = {}

-----------------------------------------------------------------------------
(* The game sessions: `clients` and the disconnect. *)

RegisterOnline(u) ==
  /\ presence[u] = "offline"
  /\ presence' = [presence EXCEPT ![u] = "online"]
  /\ UNCHANGED <<sessions, created, invitations, request, late>>

\* Mutant: the iteration ends with the first session found.
PurgeUserFromSessions_First(u) ==
  /\ \E id \in SessionId :
       /\ \A i \in 1 .. id - 1 : Live(i) => u \notin UsersIn(sessions[i])
       /\ sessions' = [sessions EXCEPT ![id] = RemoveMemberApplyOwner(@, u)]
  /\ late' = late \ {u}
  /\ UNCHANGED <<created, invitations, request>>

PurgeUserFromSessions(u) ==
  /\ sessions' = [id \in SessionId |-> RemoveMemberApplyOwner(sessions[id], u)]
  /\ late' = late \ {u}
  /\ UNCHANGED <<created, invitations, request>>

\* A session that was shown online, and one that was held for its client
\* version and has no entry.
CleanupOnDisconnect(u) ==
  /\ presence[u] = "online"
  /\ PurgeUserFromSessions(u)
  /\ presence' = [presence EXCEPT ![u] = "leaving"]

CleanupHeldLogin(u) ==
  /\ presence[u] = "offline"
  /\ PurgeUserFromSessions(u)
  /\ UNCHANGED presence

EraseClient(u) ==
  /\ presence[u] = "leaving"
  /\ presence' = [presence EXCEPT ![u] = "offline"]
  /\ UNCHANGED <<sessions, created, invitations, request, late>>

-----------------------------------------------------------------------------
(* Requests. *)

\* The caller is looked up in `clients`.
CheckOnline(u, step, id, index) ==
  /\ request = NoRequest
  /\ presence[u] # "offline"
  /\ request' = [step |-> step, user |-> u, id |-> id, index |-> index]

Enters(u) ==
  /\ late' = IF presence[u] = "online" THEN late ELSE late \cup {u}
  /\ request' = NoRequest
  /\ UNCHANGED presence

HandleSessionCreate(u, index) ==
  /\ created < MaxSessions
  /\ CheckOnline(u, "create", created + 1, index)
  /\ created' = created + 1
  /\ UNCHANGED <<sessions, invitations, presence, late>>

\* The creator leaves the session that holds the slot, and is the new
\* session's only member.
InsertSession(kind) ==
  LET u == request.user
  IN  /\ request.step = "create"
      /\ \E table \in LeaveSessionAtIndex(u, request.index) :
           sessions' = [table EXCEPT ![request.id] =
             [type |-> kind.type, privacy |-> kind.privacy, maxUser |-> kind.maxUser,
              owner |-> u, members |-> <<Member(u, request.index)>>]]
      /\ Enters(u)
      /\ UNCHANGED <<created, invitations>>

HandleSessionJoin(u, id, index) ==
  /\ id <= created
  /\ CheckOnline(u, "join", id, index)
  /\ UNCHANGED <<sessions, created, invitations, presence, late>>

JoinLimit(s) == IF s.maxUser \in 1 .. 255 THEN s.maxUser ELSE 256

MarkInvitationsUsedOnJoin(id, u) ==
  [i \in DOMAIN invitations |->
     IF invitations[i].to = u /\ invitations[i].session = id
     THEN [invitations[i] EXCEPT !.used = TRUE] ELSE invitations[i]]

\* A member who joins again only changes a priority, or is refused.
JoinSession ==
  LET u == request.user
      id == request.id
  IN  /\ request.step = "join"
      /\ Live(id) /\ u \notin UsersIn(sessions[id])
      /\ Len(sessions[id].members) < JoinLimit(sessions[id])
      /\ \E table \in LeaveSessionAtIndex(u, request.index) :
           sessions' = [table EXCEPT ![id].members = Append(@, Member(u, request.index))]
      /\ invitations' = MarkInvitationsUsedOnJoin(id, u)
      /\ Enters(u)
      /\ UNCHANGED created

\* The session is gone, joined already, or full.
JoinRefused ==
  /\ request.step = "join"
  /\ Live(request.id) =>
       \/ request.user \in UsersIn(sessions[request.id])
       \/ Len(sessions[request.id].members) >= JoinLimit(sessions[request.id])
  /\ request' = NoRequest
  /\ UNCHANGED <<sessions, created, invitations, presence, late>>

\* The fields that the body has are replaced.
HandleSessionUpdate(u, id, update) ==
  /\ request = NoRequest
  /\ Live(id) /\ Permitted(sessions[id], u)
  /\ \E privacy \in {sessions[id].privacy, update.privacy},
        maxUser \in {sessions[id].maxUser, update.maxUser} :
       sessions' = [sessions EXCEPT ![id].privacy = privacy, ![id].maxUser = maxUser]
  /\ UNCHANGED <<created, invitations, presence, request, late>>

\* Its invitations stay.
HandleSessionDelete(u, id) ==
  /\ request = NoRequest
  /\ Live(id) /\ Permitted(sessions[id], u)
  /\ sessions' = [sessions EXCEPT ![id] = NoSession]
  /\ UNCHANGED <<created, invitations, presence, request, late>>

\* A player leaves, or the owner removes another.
HandleSessionLeave(u, id, target) ==
  /\ request = NoRequest
  /\ Live(id) /\ target \in UsersIn(sessions[id])
  /\ target = u \/ sessions[id].owner = u
  /\ sessions' = [sessions EXCEPT ![id] = RemoveMemberApplyOwner(@, target)]
  /\ UNCHANGED <<created, invitations, presence, request, late>>

\* Anybody may invite anybody; `inside` is history: the recipient is a member.
HandleSessionInvite(u, id, to) ==
  /\ request = NoRequest
  /\ Live(id)
  /\ Len(invitations) < MaxInvitations
  /\ invitations' = Append(invitations,
       [session |-> id, to |-> to, used |-> FALSE, inside |-> to \in UsersIn(sessions[id])])
  /\ UNCHANGED <<sessions, created, presence, request, late>>

\* Mutant: the flag is taken from the body, and a used invitation is not refused.
HandleInvitationUse_Flag(i) ==
  /\ request = NoRequest
  /\ i \in DOMAIN invitations
  /\ \E flag \in BOOLEAN : invitations' = [invitations EXCEPT ![i].used = flag]
  /\ UNCHANGED <<sessions, created, presence, request, late>>

\* Only its recipient marks an invitation used, once.
HandleInvitationUse(i) ==
  /\ request = NoRequest
  /\ i \in DOMAIN invitations /\ ~invitations[i].used
  /\ invitations' = [invitations EXCEPT ![i].used = TRUE]
  /\ UNCHANGED <<sessions, created, presence, request, late>>

Next ==
  \/ \E u \in Users :
       \/ RegisterOnline(u) \/ CleanupOnDisconnect(u) \/ CleanupHeldLogin(u) \/ EraseClient(u)
       \/ \E index \in Indices : HandleSessionCreate(u, index)
       \/ \E id \in SessionId :
            \/ \E index \in Indices : HandleSessionJoin(u, id, index)
            \/ \E update \in Updates : HandleSessionUpdate(u, id, update)
            \/ HandleSessionDelete(u, id)
            \/ \E other \in Users : \/ HandleSessionLeave(u, id, other)
                                    \/ HandleSessionInvite(u, id, other)
  \/ \E kind \in Kinds : InsertSession(kind)
  \/ JoinSession
  \/ JoinRefused
  \/ \E i \in 1 .. MaxInvitations : HandleInvitationUse(i)

Spec == Init /\ [][Next]_vars

-----------------------------------------------------------------------------
\* Every variable has its type; a session that is there has members.
TypeOK ==
  /\ sessions \in [SessionId -> Session \cup {NoSession}]
  /\ created \in 0 .. MaxSessions
  /\ invitations \in Seq([session: SessionId, to: Users, used: BOOLEAN, inside: BOOLEAN])
  /\ presence \in [Users -> {"offline", "online", "leaving"}]
  /\ request \in [step: {"none", "create", "join"}, user: Users \cup {Nobody},
                  id: 0 .. MaxSessions, index: Indices \cup {0}]
  /\ late \subseteq Users

\* Through creations, joins, removals, disconnects and successions, a session's
\* owner is one of its members (RemoveMemberApplyOwner, LeaveSessionAtIndex), and
\* a player is at most once in a session and holds at most one session per
\* index, which LeaveSessionAtIndex and PurgeUserFromSessions, stopping at the
\* first match, rely on.
SeatsSound == \A id \in SessionId : Live(id) =>
  /\ sessions[id].owner \in UsersIn(sessions[id])
  /\ \A other \in SessionId : Live(other) =>
       \A m \in DOMAIN sessions[id].members, n \in DOMAIN sessions[other].members :
         LET a == sessions[id].members[m]
             b == sessions[other].members[n]
         IN  a.user = b.user /\ (id = other \/ a.index = b.index) => (id = other /\ m = n)

\* A player whose disconnect has purged, or who is offline, is in no session,
\* except one that a request entered after the purge although the caller was
\* looked up before (HandleSessionCreate, HandleSessionJoin).
OfflineOnlyIfLate ==
  \A id \in SessionId, u \in Users :
    Live(id) /\ u \in UsersIn(sessions[id]) /\ presence[u] # "online" => u \in late

\* "going offline auto-leaves all their sessions" (client_session.cpp).  It does
\* not: see OfflineOnlyIfLate.
OfflineLeavesSessions ==
  \A id \in SessionId, u \in Users :
    Live(id) /\ presence[u] = "offline" => u \notin UsersIn(sessions[id])

\* A session changes hands only when its owner leaves it, only if it is
\* owner-migration, and then to the member who has been in it longest.
OwnerSuccession ==
  [][\A id \in SessionId : Live(id) /\ Live(id)' /\ sessions'[id].owner # sessions[id].owner =>
       LET old == sessions[id].owner
           members == sessions[id].members
       IN  /\ sessions[id].type = "owner-migration"
           /\ old \notin UsersIn(sessions'[id])
           /\ \E m \in DOMAIN members :
                /\ members[m].user = sessions'[id].owner
                /\ \A n \in 1 .. m - 1 : members[n].user = old]_vars

\* A member's open invitations to the session were all sent to a member: those
\* that led into it are used up, so leaving a private session closes it again
\* (MarkInvitationsUsedOnJoin).
JoiningUsesInvitations ==
  \A i \in DOMAIN invitations :
    LET inv == invitations[i]
    IN  ~inv.used /\ Live(inv.session) /\ inv.to \in UsersIn(sessions[inv.session])
          => inv.inside

\* Who is where, and what led there, after every way in and out.
MembersSound == SeatsSound /\ JoiningUsesInvitations

\* A private session opens to a player only by joining it, by a friend's joining
\* it, by an invitation to it, or by an update of its privacy.
AccessGranted ==
  [][\A u \in Users, id \in SessionId :
       Live(id) /\ ~MayRead(u, id) /\ MayRead(u, id)' =>
         \/ sessions'[id].privacy # sessions[id].privacy
         \/ (UsersIn(sessions'[id]) \ UsersIn(sessions[id])) \cap (Friends[u] \cup {u}) # {}
         \/ /\ Len(invitations') > Len(invitations)
            /\ Last(invitations').session = id /\ Last(invitations').to = u]_vars
=============================================================================
