---------------------------- MODULE FriendPresence ----------------------------
(***************************************************************************)
(* Friendships, blocks and the online status friends see (cmd_friend.cpp,  *)
(* the friend routes of admin_api.cpp and member_api.cpp, RegisterOnline,  *)
(* CleanupOnDisconnect and CmdSetAppearOffline).                           *)
(*                                                                         *)
(* Three copies of a friendship have to agree: the friendship row in the   *)
(* database, the friend lists kept in the table of connected clients, and  *)
(* the list the player's client shows, built from the login reply and the  *)
(* notifications that follow.  Every change reads the row, writes the row, *)
(* updates the client table under clientsLock and then notifies: four      *)
(* steps, with other threads in between.                                   *)
(*                                                                         *)
(* A notification of another thread is queued on the target's event loop;  *)
(* a session writes to its own socket at once.  Requests that are not (or  *)
(* no longer) mutual, push events and presence texts are left out.         *)
(***************************************************************************)
EXTENDS Naturals, FiniteSets, Sequences

CONSTANTS
  Users,
  Members,     \* threads of the member API, acting for any user
  Admins,      \* threads of the admin API, acting on any pair
  MaxQueue,    \* handlers only start while every queue is shorter than this
  Overlap      \* handlers of different threads may overlap

ASSUME FriendConstants ==
  /\ MaxQueue \in Nat /\ Overlap \in BOOLEAN
  /\ IsFiniteSet(Users) /\ IsFiniteSet(Members) /\ IsFiniteSet(Admins)
  /\ Users \cap (Members \cup Admins) = {}

VARIABLES
  rel,       \* rel[a][b]: the flags a has set on b in their friendship row
  sess,      \* sess[u]: "off", "held" (login answered, not registered), "on"
  clients,   \* clients[u]: u's entry in the client table
  job,       \* job[w]: the handler thread w is running
  farewell,  \* farewell[u]: sessions u's closed session has yet to notify
  queue,     \* queue[u]: notifications queued on the thread of u's session
  view,      \* view[u][v]: what u's client shows of v
  met,       \* history: the pairs that have been mutual friends
  plain      \* history: nothing out of the ordinary has happened, see Starts

vars == <<rel, sess, clients, job, farewell, queue, view, met, plain>>

-----------------------------------------------------------------------------
Workers == Users \cup Members \cup Admins
Flags == {"F", "B"}
Shown == {"none", "offline", "online"}

Entry == [online : BOOLEAN, hidden : BOOLEAN, friends : SUBSET Users]
NoEntry == [online |-> FALSE, hidden |-> FALSE, friends |-> {}]

\* new is the row the handler will write, wasFriend whether the old one was
\* mutual, to the sessions whose send function was captured under the lock.
NoJob == [op |-> "none", step |-> "read", a |-> {}, b |-> {}, mine |-> {},
          theirs |-> {}, wasFriend |-> FALSE, online |-> {}, to |-> {}]

\* GetRelationships: both sides have set the friend flag.
MutualIn(r, a, b) == "F" \in r[a][b] /\ "F" \in r[b][a]
MutualFriends(u) == {v \in Users \ {u} : MutualIn(rel, u, v)}
Online == {u \in Users : clients[u].online}

Busy == {w \in Workers : job[w].op # "none"}
\* Everything that was started has been finished and delivered.
Settled ==
  /\ Busy = {}
  /\ \A u \in Users : farewell[u] = {} /\ queue[u] = <<>>
RoomInQueues == \A u \in Users : Len(queue[u]) < MaxQueue
NobodyHeld == \A u \in Users : sess[u] # "held"

\* Thread w takes something up.  Things are plain where they happen one at
\* a time, as long as no player appears offline, uses the member API, or does or
\* meets anything between the reply to a login and its registration.
Starts(w, ordinary) ==
  /\ w \notin Busy /\ RoomInQueues /\ (Overlap \/ Settled)
  /\ plain' = (plain /\ ordinary)

Init ==
  /\ rel = [a \in Users |-> [b \in Users |-> {}]]
  /\ sess = [u \in Users |-> "off"]
  /\ clients = [u \in Users |-> NoEntry]
  /\ job = [w \in Workers |-> NoJob]
  /\ farewell = [u \in Users |-> {}]
  /\ queue = [u \in Users |-> <<>>]
  /\ view = [u \in Users |-> [v \in Users |-> "none"]]
  /\ met = {}
  /\ plain = ~Overlap

\* Notifications: FriendNew, FriendLost and FriendStatus about v.
Message(type, v, status) == [type |-> type, about |-> v, status |-> status]
Post(q, targets, m) ==
  [u \in Users |-> IF u \in targets THEN Append(q[u], m) ELSE q[u]]
\* What the client shows of v once it has received m.
Received(shown, m) ==
  CASE m.type = "new"    -> m.status
    [] m.type = "lost"   -> "none"
    [] m.type = "status" -> IF shown = "none" THEN "none" ELSE m.status

-----------------------------------------------------------------------------
(* Signing in and out *)

\* The reply to Login lists the friends and which of them show as online.
CmdLogin(u) ==
  /\ sess[u] = "off"
  /\ sess' = [sess EXCEPT ![u] = "held"]
  /\ view' = [view EXCEPT ![u] = [v \in Users |->
       IF v \notin MutualFriends(u) THEN "none"
       ELSE IF v \in Online /\ ~clients[v].hidden THEN "online" ELSE "offline"]]
  /\ \E hidden \in BOOLEAN :
       /\ Starts(u, NobodyHeld /\ ~hidden)
       /\ clients' = [clients EXCEPT ![u] = [NoEntry EXCEPT !.hidden = hidden]]
  /\ UNCHANGED <<rel, job, farewell, queue, met>>

\* MUTANT: everyone a request was sent to counts as a friend.
RegisterRead_Requested(u) ==
  /\ sess[u] = "held" /\ Starts(u, TRUE)
  /\ job' = [job EXCEPT ![u] = [NoJob EXCEPT !.op = "login", !.step = "register",
               !.to = {v \in Users \ {u} : "F" \in rel[u][v]}]]
  /\ UNCHANGED <<rel, sess, clients, farewell, queue, view, met>>

\* RegisterOnline reads the relationships once more, without the lock.
RegisterRead(u) ==
  /\ sess[u] = "held" /\ Starts(u, TRUE)
  /\ job' = [job EXCEPT ![u] = [NoJob EXCEPT !.op = "login", !.step = "register",
                                             !.to = MutualFriends(u)]]
  /\ UNCHANGED <<rel, sess, clients, farewell, queue, view, met>>

\* The entry is made under the lock, in both directions.
RegisterOnline(u) ==
  LET friends == job[u].to IN
  /\ job[u].op = "login" /\ job[u].step = "register"
  /\ clients' = [v \in Users |->
       IF v = u THEN [online |-> TRUE, hidden |-> clients[u].hidden, friends |-> friends]
       ELSE IF v \in friends /\ clients[v].online
            THEN [clients[v] EXCEPT !.friends = @ \cup {u}]
            ELSE clients[v]]
  /\ sess' = [sess EXCEPT ![u] = "on"]
  /\ job' = [job EXCEPT ![u].step = "announce", ![u].to = friends \cap Online]
  /\ UNCHANGED <<rel, farewell, queue, view, met, plain>>

AnnounceOnline(u) ==
  /\ job[u].op = "login" /\ job[u].step = "announce"
  /\ queue' = IF clients[u].hidden THEN queue
              ELSE Post(queue, job[u].to, Message("status", u, "online"))
  /\ job' = [job EXCEPT ![u] = NoJob]
  /\ UNCHANGED <<rel, sess, clients, farewell, view, met, plain>>

\* The entry goes under the lock; the friends are told afterwards, when a new
\* session of the same player may be under way.  What was captured for this
\* session, and queued to it, is lost with it.
CleanupOnDisconnect(u) ==
  /\ sess[u] # "off" /\ farewell[u] = {}
  /\ Starts(u, NobodyHeld \/ sess[u] = "held")
  /\ LET told == IF sess[u] = "held" \/ clients[u].hidden THEN {}
                 ELSE clients[u].friends \cap Online
     IN  farewell' = [v \in Users |-> IF v = u THEN told ELSE farewell[v] \ {u}]
  /\ sess' = [sess EXCEPT ![u] = "off"]
  /\ clients' = [clients EXCEPT ![u] = NoEntry]
  /\ job' = [w \in Workers |-> [job[w] EXCEPT !.to =
                IF job[w].step = "register" THEN @ ELSE @ \ {u}]]
  /\ queue' = [queue EXCEPT ![u] = <<>>]
  /\ view' = [view EXCEPT ![u] = [v \in Users |-> "none"]]
  /\ UNCHANGED <<rel, met>>

AnnounceOffline(u) ==
  /\ farewell[u] # {}
  /\ queue' = Post(queue, farewell[u], Message("status", u, "offline"))
  /\ farewell' = [farewell EXCEPT ![u] = {}]
  /\ UNCHANGED <<rel, sess, clients, job, view, met, plain>>

\* The setting is kept; friends are sent push events but no FriendStatus.
CmdSetAppearOffline(u, hidden) ==
  /\ sess[u] # "off" /\ Starts(u, FALSE)
  /\ clients' = [clients EXCEPT ![u].hidden = hidden]
  /\ UNCHANGED <<rel, sess, job, farewell, queue, view, met>>

\* The session's thread, between two packets, writes out what is queued.
Deliver(u) ==
  /\ u \notin Busy /\ queue[u] # <<>>
  /\ LET m == Head(queue[u]) IN
     view' = [view EXCEPT ![u][m.about] = Received(@, m)]
  /\ queue' = [queue EXCEPT ![u] = Tail(@)]
  /\ UNCHANGED <<rel, sess, clients, job, farewell, met, plain>>

-----------------------------------------------------------------------------
(* The commands: what each one reads, refuses and is about to write *)

\* MUTANT: only the caller's own block is looked at.
MayAdd_OwnBlockOnly(mine, theirs) == "B" \notin mine /\ "F" \notin mine
\* CmdAddFriend, and the member API's friends/add.
MayAdd(mine, theirs) == "B" \notin mine \cup theirs /\ "F" \notin mine

\* The row each operation writes.
NewRow(op, mine, theirs) ==
  CASE op = "AddFriend"    -> <<mine \cup {"F"}, theirs>>
    [] op = "RemoveFriend" -> <<mine \ {"F"}, theirs \ {"F"}>>
    [] op = "AddBlock"     -> <<(mine \cup {"B"}) \ {"F"}, theirs \ {"F"}>>
    [] op = "RemoveBlock"  -> <<mine \ {"B"}, theirs>>
    [] op = "MakeFriends"  -> <<mine \cup {"F"}, theirs \cup {"F"}>>

Allowed(op, mine, theirs) ==
  CASE op = "AddFriend"    -> MayAdd(mine, theirs)
    [] op = "RemoveFriend" -> "F" \in mine \cup theirs
    [] op = "AddBlock"     -> TRUE
    [] op = "RemoveBlock"  -> "B" \in mine
    [] op = "MakeFriends"  -> "B" \notin mine \cup theirs
                              /\ ~("F" \in mine /\ "F" \in theirs)

\* MUTANT: players may befriend and block themselves.
Read_Self(w, op, a, b) ==
  /\ Starts(w, w \notin Members /\ NobodyHeld)
  /\ Allowed(op, rel[a][b], rel[b][a])
  /\ LET row == NewRow(op, rel[a][b], rel[b][a]) IN
     job' = [job EXCEPT ![w] = [op |-> op, step |-> "write", a |-> {a}, b |-> {b},
               mine |-> row[1], theirs |-> row[2],
               wasFriend |-> MutualIn(rel, a, b), online |-> {}, to |-> {}]]
  /\ UNCHANGED <<rel, sess, clients, farewell, queue, view, met>>

\* GetRelStatus and the checks on its result, by thread w acting for a.
Read(w, op, a, b) ==
  /\ Starts(w, w \notin Members /\ NobodyHeld) /\ a # b
  /\ Allowed(op, rel[a][b], rel[b][a])
  /\ LET row == NewRow(op, rel[a][b], rel[b][a]) IN
     job' = [job EXCEPT ![w] = [op |-> op, step |-> "write", a |-> {a}, b |-> {b},
               mine |-> row[1], theirs |-> row[2],
               wasFriend |-> MutualIn(rel, a, b), online |-> {}, to |-> {}]]
  /\ UNCHANGED <<rel, sess, clients, farewell, queue, view, met>>

\* The commands of a session, the routes of a member who is signed in on the web, and
\* those of an operator.
SessionReads(a, b) ==
  \E op \in {"AddFriend", "RemoveFriend", "AddBlock", "RemoveBlock"} :
    sess[a] # "off" /\ Read(a, op, a, b)
MemberAdds(w, a, b) == Read(w, "AddFriend", a, b)
MemberRemoves(w, a, b) == Read(w, "RemoveFriend", a, b)
AdminBefriends(w, a, b) == Read(w, "MakeFriends", a, b)
AdminUnfriends(w, a, b) == Read(w, "RemoveFriend", a, b)

ReadRelStatus ==
  \E a, b \in Users :
    \/ SessionReads(a, b)
    \/ \E w \in Members : MemberAdds(w, a, b) \/ MemberRemoves(w, a, b)
    \/ \E w \in Admins : AdminBefriends(w, a, b) \/ AdminUnfriends(w, a, b)

\* SetRelStatus (or DeleteRel) writes both columns.  A request that is not
\* mutual yet, and a block that ended no friendship, stop here.
WriteRelStatus(w, a, b) ==
  LET j == job[w]
      mutual == "F" \in j.mine /\ "F" \in j.theirs
      goesOn == \/ j.op \in {"RemoveFriend", "MakeFriends"}
                \/ j.op = "AddFriend" /\ mutual
                \/ j.op = "AddBlock" /\ j.wasFriend
  IN  /\ j.step = "write" /\ j.a = {a} /\ j.b = {b}
      /\ rel' = [rel EXCEPT ![a][b] = j.mine, ![b][a] = j.theirs]
      /\ met' = IF mutual THEN met \cup {{a, b}} ELSE met
      /\ job' = [job EXCEPT ![w] = IF goesOn THEN [@ EXCEPT !.step = "apply"] ELSE NoJob]
      /\ UNCHANGED <<sess, clients, farewell, queue, view, plain>>

\* MUTANT: only the caller's own entry is changed.
ApplyToClients_CallerOnly(w, a, b) ==
  LET j == job[w]
      add == j.op \in {"AddFriend", "MakeFriends"}
      Changed(entry, other) ==
        IF ~entry.online THEN entry
        ELSE [entry EXCEPT !.friends = IF add THEN @ \cup {other} ELSE @ \ {other}]
  IN  /\ j.step = "apply" /\ j.a = {a} /\ j.b = {b}
      /\ clients' = [clients EXCEPT ![a] = Changed(@, b)]
      /\ job' = [job EXCEPT ![w].step = "notify", ![w].online = {a, b} \cap Online,
                            ![w].to = {a, b} \cap Online]
      /\ UNCHANGED <<rel, sess, farewell, queue, view, met, plain>>

\* The friend lists of the two entries that are there, under the lock.
ApplyToClients(w, a, b) ==
  LET j == job[w]
      add == j.op \in {"AddFriend", "MakeFriends"}
      Changed(entry, other) ==
        IF ~entry.online THEN entry
        ELSE [entry EXCEPT !.friends = IF add THEN @ \cup {other} ELSE @ \ {other}]
  IN  /\ j.step = "apply" /\ j.a = {a} /\ j.b = {b}
      /\ clients' = [clients EXCEPT ![a] = Changed(@, b), ![b] = Changed(@, a)]
      /\ job' = [job EXCEPT ![w].step = "notify", ![w].online = {a, b} \cap Online,
                            ![w].to = {a, b} \cap Online]
      /\ UNCHANGED <<rel, sess, farewell, queue, view, met, plain>>

\* A session tells itself directly and looks the other up again; the member
\* API looks both up; the admin API uses what it captured, and is silent when
\* a mere request ended.  Only the admin API says truly whether a is online.
NotifyBoth(w, a, b) ==
  LET j == job[w]
      add == j.op \in {"AddFriend", "MakeFriends"}
      Status(u) == IF u \in j.online THEN "online" ELSE "offline"
      toA == IF add THEN Message("new", b, Status(b)) ELSE Message("lost", b, "none")
      toB == IF add THEN Message("new", a, IF w \in Admins THEN Status(a) ELSE "online")
             ELSE Message("lost", a, "none")
      reached == IF w \notin Admins THEN {a, b} \cap Online
                 ELSE IF add \/ j.wasFriend THEN j.to ELSE {}
  IN  /\ j.step = "notify" /\ j.a = {a} /\ j.b = {b}
      /\ IF w = a
         THEN /\ view' = [view EXCEPT ![a][b] = Received(@, toA)]
              /\ queue' = Post(queue, reached \ {a}, toB)
         ELSE /\ queue' = Post(Post(queue, reached \cap {a}, toA), reached \cap {b}, toB)
              /\ UNCHANGED view
      /\ job' = [job EXCEPT ![w] = NoJob]
      /\ UNCHANGED <<rel, sess, clients, farewell, met, plain>>

-----------------------------------------------------------------------------
SessionNext(u) ==
  \/ CmdLogin(u) \/ RegisterRead(u) \/ RegisterOnline(u) \/ AnnounceOnline(u)
  \/ CleanupOnDisconnect(u) \/ AnnounceOffline(u) \/ Deliver(u)
  \/ \E hidden \in BOOLEAN : CmdSetAppearOffline(u, hidden)

Next ==
  \/ \E u \in Users : SessionNext(u)
  \/ ReadRelStatus
  \/ \E w \in Workers, a, b \in Users :
       WriteRelStatus(w, a, b) \/ ApplyToClients(w, a, b) \/ NotifyBoth(w, a, b)

Spec == Init /\ [][Next]_vars

-----------------------------------------------------------------------------
(* Properties *)

\* The variables have their types, and nobody stands in a relation to
\* themselves.
TypeOK ==
  /\ \A u \in Users : rel[u][u] = {} /\ u \notin clients[u].friends
  /\ rel \in [Users -> [Users -> SUBSET Flags]]
  /\ sess \in [Users -> {"off", "held", "on"}]
  /\ clients \in [Users -> Entry]
  /\ \A w \in Workers :
       /\ job[w].step \in {"read", "register", "announce", "write", "apply", "notify"}
       /\ UNION {job[w].a, job[w].b, job[w].online, job[w].to} \subseteq Users
       /\ job[w].mine \cup job[w].theirs \subseteq Flags
  /\ farewell \in [Users -> SUBSET Users]
  /\ \A u \in Users : Len(queue[u]) <= MaxQueue + Cardinality(Workers) + Cardinality(Users)
  /\ view \in [Users -> [Users -> Shown]]
  /\ plain \in BOOLEAN

\* A block and a friendship or request never stand in one row, however the
\* handlers of the two players, the member API and the admin API overlap.
BlockExcludesFriendship ==
  \A a, b \in Users :
    "B" \in rel[a][b] => "F" \notin rel[a][b] \cup rel[b][a]

\* A player's coming and going is told, or about to be told, only to players
\* that player has been friends with, whatever races there were.
PresenceOnlyToFriends ==
  \A u \in Users :
    LET audience == clients[u].friends \cup farewell[u] \cup
          (IF job[u].op = "login" THEN job[u].to ELSE {})
    IN  \A v \in audience : {u, v} \in met

\* When all is settled, the friend lists of the client table are those of the
\* database: every path that changes a friendship keeps both in step.
CacheAgrees ==
  Settled => \A u \in Online : clients[u].friends = MutualFriends(u)

Visible(v) == v \in Online /\ ~clients[v].hidden

\* As long as things have been plain, a signed-in client shows exactly its
\* friends, and online exactly those that are: the login reply and the
\* notifications after it lose and invent nothing.
FriendListCurrent ==
  Settled /\ plain => \A u \in Online : \A v \in Users \ {u} :
    view[u][v] = IF v \notin MutualFriends(u) THEN "none"
                 ELSE IF Visible(v) THEN "online" ELSE "offline"

\* What the server keeps and what a client has been told of one's friends, when
\* nothing is under way.
FriendListsSound == CacheAgrees /\ FriendListCurrent

-----------------------------------------------------------------------------
(* What the documentation says and the code does not do *)

\* protocol.md: RemoveBlock clears the block on the caller's side; nothing
\* else does.
BlockStays ==
  [][\A a, b \in Users :
       "B" \in rel[a][b] /\ "B" \notin rel'[a][b] =>
         job[a].op = "RemoveBlock" /\ job[a].step = "write" /\ job'[a] = NoJob]_vars
=============================================================================
