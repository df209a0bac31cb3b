-------------------------- MODULE WebSessionsProofs --------------------------
(***************************************************************************)
(* Theorems about WebSessions, for every number of players, sessions,      *)
(* indices and invitations, and every order of the requests and of the     *)
(* connects and disconnects in between.                                    *)
(***************************************************************************)
EXTENDS WebSessions, SequenceTheorems, FiniteSetTheorems, FunctionTheorems, TLAPS

-----------------------------------------------------------------------------
(* Tables of sessions *)

Seat == [user : Users, index : Indices]
Table == [SessionId -> Session \cup {NoSession}]

\* Where the i-th of the members that are left was before the m-th left.
Shift(m, i) == IF i < m THEN i ELSE i + 1

\* The sequence that RemoveAt leaves.
LEMMA RemoveAtSeats ==
  ASSUME NEW q \in Seq(Seat), NEW m \in 1 .. Len(q)
  PROVE  /\ RemoveAt(q, m) \in Seq(Seat)
         /\ Len(RemoveAt(q, m)) = Len(q) - 1
         /\ \A i \in 1 .. Len(q) - 1 :
              /\ Shift(m, i) \in (1 .. Len(q)) \ {m}
              /\ RemoveAt(q, m)[i] = q[Shift(m, i)]
<1> DEFINE front == SubSeq(q, 1, m - 1)
           back == SubSeq(q, m + 1, Len(q))
<1>1. Len(q) \in Nat /\ \A i \in 1 .. Len(q) : q[i] \in Seat
  OBVIOUS
<1>2. /\ front \in Seq(Seat) /\ Len(front) = m - 1
      /\ \A i \in 1 .. m - 1 : front[i] = q[i]
  <2>1. \A i \in 1 .. m - 1 : q[i] \in Seat
    BY <1>1
  <2> HIDE DEF front
  <2>2. /\ front \in Seq(Seat)
        /\ Len(front) = IF 1 <= m - 1 THEN (m - 1) - 1 + 1 ELSE 0
        /\ \A i \in 1 .. (m - 1) - 1 + 1 : front[i] = q[1 + i - 1]
    BY <2>1, SubSeqProperties DEF front
  <2> QED BY <2>2
<1>3. /\ back \in Seq(Seat) /\ Len(back) = Len(q) - m
      /\ \A i \in 1 .. Len(q) - m : back[i] = q[m + i]
  <2>1. \A i \in m + 1 .. Len(q) : q[i] \in Seat
    BY <1>1
  <2> HIDE DEF back
  <2>2. /\ back \in Seq(Seat)
        /\ Len(back) = IF m + 1 <= Len(q) THEN Len(q) - (m + 1) + 1 ELSE 0
        /\ \A i \in 1 .. Len(q) - (m + 1) + 1 : back[i] = q[(m + 1) + i - 1]
    BY <1>1, <2>1, SubSeqProperties DEF back
  <2>3. Len(back) = Len(q) - m
    BY <1>1, <2>2
  <2>4. ASSUME NEW i \in 1 .. Len(q) - m
        PROVE  back[i] = q[m + i]
    <3>1. back[i] = q[(m + 1) + i - 1] /\ (m + 1) + i - 1 = m + i
      BY <1>1, <2>2
    <3> QED BY <3>1
  <2> QED BY <2>2, <2>3, <2>4
<1> HIDE DEF front, back
<1>4. RemoveAt(q, m) = front \o back
  BY DEF RemoveAt, front, back
<1>5. /\ front \o back \in Seq(Seat) /\ Len(front \o back) = Len(q) - 1
      /\ \A i \in 1 .. Len(q) - 1 :
           (front \o back)[i] = IF i <= m - 1 THEN front[i] ELSE back[i - (m - 1)]
  <2>1. Len(front) + Len(back) = Len(q) - 1
    BY <1>1, <1>2, <1>3
  <2>2. /\ front \o back \in Seq(Seat)
        /\ Len(front \o back) = Len(front) + Len(back)
        /\ \A i \in 1 .. Len(front) + Len(back) :
             (front \o back)[i] = IF i <= Len(front) THEN front[i]
                                  ELSE back[i - Len(front)]
    BY <1>2, <1>3, ConcatProperties
  <2> QED BY <1>2, <2>1, <2>2
<1>6. ASSUME NEW i \in 1 .. Len(q) - 1
      PROVE  /\ Shift(m, i) \in (1 .. Len(q)) \ {m}
             /\ (front \o back)[i] = q[Shift(m, i)]
  <2>1. Shift(m, i) \in (1 .. Len(q)) \ {m}
    BY <1>1 DEF Shift
  <2>2. CASE i < m
    BY <1>1, <1>2, <1>5, <2>2 DEF Shift
  <2>3. CASE ~(i < m)
    <3>1. i - (m - 1) \in 1 .. Len(q) - m /\ m + (i - (m - 1)) = i + 1
      BY <1>1, <2>3
    <3>2. (front \o back)[i] = back[i - (m - 1)]
      BY <1>1, <1>5, <2>3
    <3>3. back[i - (m - 1)] = q[m + (i - (m - 1))]
      BY <1>3, <3>1
    <3> QED BY <2>1, <2>3, <3>1, <3>2, <3>3 DEF Shift
  <2> QED BY <2>1, <2>2, <2>3
<1> QED BY <1>4, <1>5, <1>6

\* What a session is once its m-th member has left it, if it is still there.
LEMMA RemovedSession ==
  ASSUME NEW s \in Session, NEW m \in DOMAIN s.members
  PROVE  /\ Removed(s, m) \in Session \cup {NoSession}
         /\ Removed(s, m) # NoSession =>
              LET t == Removed(s, m) IN
              /\ t.type = s.type /\ t.privacy = s.privacy /\ t.maxUser = s.maxUser
              /\ DOMAIN t.members = 1 .. Len(s.members) - 1
              /\ \A i \in DOMAIN t.members :
                   /\ Shift(m, i) \in DOMAIN s.members \ {m}
                   /\ t.members[i] = s.members[Shift(m, i)]
              /\ Len(s.members) - 1 > 0
              /\ t.owner = IF s.owner = s.members[m].user THEN t.members[1].user
                           ELSE s.owner
              /\ s.owner = s.members[m].user => s.type = "owner-migration"
<1> DEFINE q == s.members
           rest == RemoveAt(q, m)
<1>1. q \in Seq(Seat) /\ q # <<>> /\ DOMAIN q = 1 .. Len(q) /\ Len(q) \in Nat
      /\ m \in 1 .. Len(q) /\ q[m].user \in Users /\ s.owner \in Users
      /\ s.type \in {"owner-bind", "owner-migration"}
  <2>1. q \in Seq(Seat) /\ q # <<>> /\ s.owner \in Users
        /\ s.type \in {"owner-bind", "owner-migration"}
    BY DEF Session, Seat
  <2>2. DOMAIN q = 1 .. Len(q) /\ Len(q) \in Nat /\ \A i \in 1 .. Len(q) : q[i] \in Seat
    BY <2>1
  <2> QED BY <2>1, <2>2 DEF Seat
<1>2. /\ rest \in Seq(Seat) /\ Len(rest) = Len(q) - 1 /\ DOMAIN rest = 1 .. Len(q) - 1
      /\ \A i \in 1 .. Len(q) - 1 :
           /\ Shift(m, i) \in (1 .. Len(q)) \ {m}
           /\ rest[i] = q[Shift(m, i)]
  <2>1. /\ rest \in Seq(Seat) /\ Len(rest) = Len(q) - 1
        /\ \A i \in 1 .. Len(q) - 1 :
             /\ Shift(m, i) \in (1 .. Len(q)) \ {m}
             /\ rest[i] = q[Shift(m, i)]
    <3>1. q \in Seq(Seat) /\ m \in 1 .. Len(q)
      BY <1>1
    <3> QED BY <3>1, RemoveAtSeats
  <2> QED BY <2>1
<1> DEFINE out == (s.type = "owner-bind" /\ s.owner = q[m].user) \/ rest = <<>>
           owner == IF s.owner = q[m].user THEN rest[1].user ELSE s.owner
<1>3. Removed(s, m) = IF out THEN NoSession
                      ELSE [s EXCEPT !.members = rest, !.owner = owner]
  BY DEF Removed
<1> HIDE DEF rest
<1>4. CASE out
  BY <1>3, <1>4
<1>5. CASE ~out
  <2>1. rest # <<>> /\ Len(q) - 1 > 0
    BY <1>1, <1>2, <1>5, EmptySeq
  <2>2. owner \in Users
    <3>1. rest[1] \in Seat
      BY <1>1, <1>2, <2>1
    <3> QED BY <1>1, <3>1 DEF Seat
  <2>3. PICK t : t = [s EXCEPT !.members = rest, !.owner = owner]
    OBVIOUS
  <2>4. t \in Session /\ t.members = rest /\ t.owner = owner /\ t.type = s.type
        /\ t.privacy = s.privacy /\ t.maxUser = s.maxUser
    BY <1>2, <2>1, <2>2, <2>3 DEF Session, Seat
  <2>5. Removed(s, m) = t
    BY <1>3, <1>5, <2>3
  <2> QED BY <1>1, <1>2, <1>5, <2>1, <2>4, <2>5
<1> QED BY <1>4, <1>5

\* SeatsSound, said of any table.
OwnedIn(tab) ==
  \A id \in SessionId : tab[id] # NoSession => tab[id].owner \in UsersIn(tab[id])

UniqueIn(tab) ==
  \A id, other \in SessionId : tab[id] # NoSession /\ tab[other] # NoSession =>
    \A m \in DOMAIN tab[id].members, n \in DOMAIN tab[other].members :
      /\ tab[id].members[m].user = tab[other].members[n].user
      /\ id = other \/ tab[id].members[m].index = tab[other].members[n].index
      => id = other /\ m = n

\* The seats are sound when the owners are seated and no two seats clash.
LEMMA SeatsAre == SeatsSound <=> OwnedIn(sessions) /\ UniqueIn(sessions)
BY DEF SeatsSound, OwnedIn, UniqueIn, Live

\* t is the session s, or what is left of it when a member has left, or nothing.
Left(s, t) ==
  t = s \/ (s # NoSession /\ (t = NoSession \/ \E m \in DOMAIN s.members : t = Removed(s, m)))

\* What stays of a session some have left: the kind, members who were there,
\* each once, and an owner among them.
LEMMA LeftSession ==
  ASSUME NEW s \in Session \cup {NoSession}, NEW t, Left(s, t),
         s # NoSession => s.owner \in UsersIn(s)
  PROVE  /\ t \in Session \cup {NoSession}
         /\ t # NoSession =>
              /\ s # NoSession
              /\ t.type = s.type /\ t.privacy = s.privacy /\ t.maxUser = s.maxUser
              /\ t.owner \in UsersIn(t)
              /\ \A i \in DOMAIN t.members : \E n \in DOMAIN s.members :
                   t.members[i] = s.members[n]
              /\ \A i, j \in DOMAIN t.members : i # j =>
                   \E n, k \in DOMAIN s.members :
                     n # k /\ t.members[i] = s.members[n] /\ t.members[j] = s.members[k]
<1>1. CASE t = s
  BY <1>1
<1>2. CASE s # NoSession /\ t = NoSession
  BY <1>2
<1>3. ASSUME s # NoSession, t # NoSession, NEW m \in DOMAIN s.members, t = Removed(s, m)
      PROVE  /\ t \in Session
             /\ t.type = s.type /\ t.privacy = s.privacy /\ t.maxUser = s.maxUser
             /\ t.owner \in UsersIn(t)
             /\ \A i \in DOMAIN t.members : \E n \in DOMAIN s.members :
                  t.members[i] = s.members[n]
             /\ \A i, j \in DOMAIN t.members : i # j =>
                  \E n, k \in DOMAIN s.members :
                    n # k /\ t.members[i] = s.members[n] /\ t.members[j] = s.members[k]
  <2>1. s \in Session
    BY <1>3
  <2>2. /\ t \in Session
        /\ t.type = s.type /\ t.privacy = s.privacy /\ t.maxUser = s.maxUser
        /\ DOMAIN t.members = 1 .. Len(s.members) - 1
        /\ \A i \in DOMAIN t.members :
             /\ Shift(m, i) \in DOMAIN s.members \ {m}
             /\ t.members[i] = s.members[Shift(m, i)]
        /\ Len(s.members) - 1 > 0
        /\ t.owner = IF s.owner = s.members[m].user THEN t.members[1].user ELSE s.owner
    BY <1>3, <2>1, RemovedSession
  <2>3. DOMAIN s.members = 1 .. Len(s.members) /\ Len(s.members) \in Nat
        /\ m \in 1 .. Len(s.members)
    BY <2>1 DEF Session
  <2>4. t.owner \in UsersIn(t)
    <3>1. CASE s.owner = s.members[m].user
      <4>1. 1 \in DOMAIN t.members
        BY <2>2, <2>3
      <4> QED BY <2>2, <3>1, <4>1 DEF UsersIn
    <3>2. CASE s.owner # s.members[m].user
      <4>1. PICK n \in DOMAIN s.members : s.members[n].user = s.owner
        BY <1>3 DEF UsersIn
      <4> DEFINE i == IF n < m THEN n ELSE n - 1
      <4>2. n # m
        BY <3>2, <4>1
      <4>3. i \in 1 .. Len(s.members) - 1 /\ Shift(m, i) = n
        BY <2>3, <4>2 DEF Shift
      <4>4. t.members[i].user = s.owner /\ i \in DOMAIN t.members
        BY <2>2, <4>1, <4>3
      <4> QED BY <2>2, <3>2, <4>4 DEF UsersIn
    <3> QED BY <3>1, <3>2
  <2>5. \A i, j \in DOMAIN t.members : i # j => Shift(m, i) # Shift(m, j)
    BY <2>2, <2>3 DEF Shift
  <2> QED BY <2>2, <2>4, <2>5
<1>4. ASSUME s # NoSession, NEW m \in DOMAIN s.members, t = Removed(s, m)
      PROVE  t \in Session \cup {NoSession}
  BY <1>4, RemovedSession
<1> QED BY <1>1, <1>2, <1>3, <1>4 DEF Left

\* A table that some have left is as sound as before.
LEMMA LeftTable ==
  ASSUME NEW tab \in Table, NEW new \in [SessionId -> Session \cup {NoSession}],
         OwnedIn(tab), UniqueIn(tab), \A id \in SessionId : Left(tab[id], new[id])
  PROVE  OwnedIn(new) /\ UniqueIn(new)
<1>1. ASSUME NEW id \in SessionId, new[id] # NoSession
      PROVE  /\ tab[id] # NoSession /\ new[id].owner \in UsersIn(new[id])
             /\ \A i \in DOMAIN new[id].members : \E n \in DOMAIN tab[id].members :
                  new[id].members[i] = tab[id].members[n]
             /\ \A i, j \in DOMAIN new[id].members : i # j =>
                  \E n, k \in DOMAIN tab[id].members :
                    /\ n # k /\ new[id].members[i] = tab[id].members[n]
                    /\ new[id].members[j] = tab[id].members[k]
  <2>1. tab[id] \in Session \cup {NoSession} /\ Left(tab[id], new[id])
        /\ (tab[id] # NoSession => tab[id].owner \in UsersIn(tab[id]))
    BY DEF Table, OwnedIn
  <2>2. PICK a \in Session \cup {NoSession} : a = tab[id]
    BY <2>1
  <2>3. PICK b : b = new[id]
    OBVIOUS
  <2>4. Left(a, b) /\ b # NoSession /\ (a # NoSession => a.owner \in UsersIn(a))
    BY <1>1, <2>1, <2>2, <2>3
  <2>5. /\ a # NoSession /\ b.owner \in UsersIn(b)
        /\ \A i \in DOMAIN b.members : \E n \in DOMAIN a.members :
             b.members[i] = a.members[n]
        /\ \A i, j \in DOMAIN b.members : i # j =>
             \E n, k \in DOMAIN a.members :
               n # k /\ b.members[i] = a.members[n] /\ b.members[j] = a.members[k]
    BY <2>4, LeftSession
  <2> QED BY <2>2, <2>3, <2>5
<1>2. OwnedIn(new)
  BY <1>1 DEF OwnedIn
<1>3. UniqueIn(new)
  <2> SUFFICES ASSUME NEW id \in SessionId, NEW other \in SessionId,
                      new[id] # NoSession, new[other] # NoSession,
                      NEW i \in DOMAIN new[id].members,
                      NEW j \in DOMAIN new[other].members,
                      new[id].members[i].user = new[other].members[j].user,
                      id = other
                        \/ new[id].members[i].index = new[other].members[j].index
               PROVE  id = other /\ i = j
    BY DEF UniqueIn
  <2>1. tab[id] # NoSession /\ tab[other] # NoSession
    BY <1>1
  <2>2. PICK n \in DOMAIN tab[id].members : new[id].members[i] = tab[id].members[n]
    BY <1>1
  <2>3. PICK k \in DOMAIN tab[other].members :
          new[other].members[j] = tab[other].members[k]
    BY <1>1
  <2>4. id = other
    BY <2>1, <2>2, <2>3 DEF UniqueIn
  <2>5. i = j
    <3> SUFFICES ASSUME i # j
                 PROVE  FALSE
      OBVIOUS
    <3>1. PICK p, r \in DOMAIN tab[id].members :
            /\ p # r /\ new[id].members[i] = tab[id].members[p]
            /\ new[id].members[j] = tab[id].members[r]
      BY <1>1, <2>4
    <3> QED BY <2>1, <2>4, <3>1 DEF UniqueIn
  <2> QED BY <2>4, <2>5
<1> QED BY <1>2, <1>3

\* A seat that is given to a player who has none like it leaves the table
\* sound: the k members of the session, none of them the player, keep theirs.
LEMMA EnteredTable ==
  ASSUME NEW tab \in Table, OwnedIn(tab), UniqueIn(tab),
         NEW id \in SessionId, NEW u \in Users, NEW index \in Indices,
         NEW t \in Session, NEW k \in Nat,
         Len(t.members) = k + 1, t.members[k + 1] = Member(u, index),
         t.owner \in UsersIn(t),
         \A i \in 1 .. k : /\ tab[id] # NoSession /\ i \in DOMAIN tab[id].members
                           /\ t.members[i] = tab[id].members[i]
                           /\ t.members[i].user # u,
         \A other \in SessionId : tab[other] # NoSession =>
           \A n \in DOMAIN tab[other].members : tab[other].members[n] # Member(u, index)
  PROVE  LET new == [tab EXCEPT ![id] = t] IN
         new \in Table /\ OwnedIn(new) /\ UniqueIn(new)
<1> DEFINE new == [tab EXCEPT ![id] = t]
<1>1. new \in Table /\ new[id] = t /\ \A other \in SessionId \ {id} : new[other] = tab[other]
  BY DEF Table
<1>2. DOMAIN t.members = 1 .. k + 1
  BY DEF Session
<1>3. \A other \in SessionId : tab[other] # NoSession =>
        \A n \in DOMAIN tab[other].members :
          tab[other].members[n].user = u => tab[other].members[n].index # index
  <2> SUFFICES ASSUME NEW other \in SessionId, tab[other] # NoSession,
                      NEW n \in DOMAIN tab[other].members,
                      tab[other].members[n].user = u, tab[other].members[n].index = index
               PROVE  FALSE
    OBVIOUS
  <2>1. tab[other].members[n] \in Seat
    <3>1. tab[other] \in Session
      BY DEF Table
    <3>2. tab[other].members \in Seq(Seat)
      BY <3>1 DEF Session, Seat
    <3> QED BY <3>2
  <2> QED BY <2>1 DEF Seat, Member
<1>4. Member(u, index).user = u /\ Member(u, index).index = index
  BY DEF Member
<1> HIDE DEF new
<1>5. OwnedIn(new)
  BY <1>1 DEF OwnedIn
<1>6. UniqueIn(new)
  <2> SUFFICES ASSUME NEW a \in SessionId, NEW b \in SessionId,
                      new[a] # NoSession, new[b] # NoSession,
                      NEW m \in DOMAIN new[a].members, NEW n \in DOMAIN new[b].members,
                      new[a].members[m].user = new[b].members[n].user,
                      a = b \/ new[a].members[m].index = new[b].members[n].index
               PROVE  a = b /\ m = n
    BY DEF UniqueIn
  <2>1. CASE a = id /\ b = id
    <3>1. m \in 1 .. k + 1 /\ n \in 1 .. k + 1
      BY <1>1, <1>2, <2>1
    <3>2. CASE m \in 1 .. k /\ n \in 1 .. k
      BY <1>1, <2>1, <3>2 DEF UniqueIn
    <3>3. CASE m = k + 1 /\ n \in 1 .. k
      BY <1>1, <1>4, <2>1, <3>3
    <3>4. CASE n = k + 1 /\ m \in 1 .. k
      BY <1>1, <1>4, <2>1, <3>4
    <3> QED BY <2>1, <3>1, <3>2, <3>3, <3>4
  <2>2. CASE a = id /\ b # id
    <3>1. m \in 1 .. k + 1 /\ new[b] = tab[b]
      BY <1>1, <1>2, <2>2
    <3>2. CASE m \in 1 .. k
      BY <1>1, <2>2, <3>1, <3>2 DEF UniqueIn
    <3>3. CASE m = k + 1
      BY <1>1, <1>3, <1>4, <2>2, <3>1, <3>3
    <3> QED BY <3>1, <3>2, <3>3
  <2>3. CASE a # id /\ b = id
    <3>1. n \in 1 .. k + 1 /\ new[a] = tab[a]
      BY <1>1, <1>2, <2>3
    <3>2. CASE n \in 1 .. k
      BY <1>1, <2>3, <3>1, <3>2 DEF UniqueIn
    <3>3. CASE n = k + 1
      BY <1>1, <1>3, <1>4, <2>3, <3>1, <3>3
    <3> QED BY <3>1, <3>2, <3>3
  <2>4. CASE a # id /\ b # id
    BY <1>1, <2>4 DEF UniqueIn
  <2> QED BY <2>1, <2>2, <2>3, <2>4
<1> QED BY <1>1, <1>5, <1>6 DEF new

-----------------------------------------------------------------------------
(* Leaving *)

\* A player sits once.
OnceIn(s) == \A m, n \in DOMAIN s.members : s.members[m].user = s.members[n].user => m = n

\* So there are no more members than players.
LEMMA FewMembers ==
  ASSUME NEW s \in Session, OnceIn(s)
  PROVE  Len(s.members) <= Cardinality(Users)
<1> DEFINE n == Len(s.members)
           f == [i \in 1 .. n |-> s.members[i].user]
<1>1. s.members \in Seq(Seat) /\ n \in Nat /\ DOMAIN s.members = 1 .. n
  BY DEF Session, Seat
<1>2. \A i \in 1 .. n : s.members[i].user \in Users
  <2>1. \A i \in 1 .. n : s.members[i] \in Seat
    BY <1>1
  <2> QED BY <2>1 DEF Seat
<1> HIDE DEF n
<1>3. f \in [1 .. n -> Users] /\ \A i, j \in 1 .. n : f[i] = f[j] => i = j
  BY <1>1, <1>2 DEF OnceIn
<1> HIDE DEF f
<1>4. f \in Injection(1 .. n, Users)
  BY <1>3, Fun_IsInj
<1>5. Cardinality(1 .. n) <= Cardinality(Users)
  BY <1>4, FS_Injection, SessionConstants
<1>6. Cardinality(1 .. n) = n
  BY <1>1, FS_Interval
<1> QED BY <1>5, <1>6 DEF n

\* Leaving at an index is leaving, by at most one member, the player, and only
\* a session the player is in; afterwards nobody holds the player's seat of that
\* index.
LEMMA LeaveAtIndex ==
  ASSUME sessions \in Table, OwnedIn(sessions), UniqueIn(sessions),
         NEW u \in Users, NEW index \in Indices,
         NEW table \in LeaveSessionAtIndex(u, index)
  PROVE  /\ table \in Table
         /\ \A id \in SessionId :
              /\ Left(sessions[id], table[id])
              /\ ~Live(id) \/ u \notin UsersIn(sessions[id]) => table[id] = sessions[id]
         /\ \A other \in SessionId : table[other] # NoSession =>
              \A n \in DOMAIN table[other].members :
                table[other].members[n] # Member(u, index)
<1>1. Member(u, index).user = u /\ Member(u, index).index = index
  BY DEF Member
<1>2. CASE Occupied(u, index) = {}
  <2>1. table = sessions
    BY <1>2 DEF LeaveSessionAtIndex
  <2>2. ASSUME NEW other \in SessionId, sessions[other] # NoSession,
               NEW n \in DOMAIN sessions[other].members,
               sessions[other].members[n] = Member(u, index)
        PROVE  FALSE
    <3>1. sessions[other] \in Session
      BY <2>2 DEF Table
    <3>2. OnceIn(sessions[other])
      BY <2>2 DEF OnceIn, UniqueIn
    <3>3. Len(sessions[other].members) <= Cardinality(Users)
      BY <3>1, <3>2, FewMembers
    <3>4. Cardinality(Users) \in Nat
      BY FS_CardinalityType, SessionConstants
    <3>5. n \in 1 .. Len(sessions[other].members) /\ Len(sessions[other].members) \in Nat
      BY <3>1 DEF Session
    <3>6. n \in 1 .. Cardinality(Users)
      BY <3>3, <3>4, <3>5
    <3>7. <<other, n>> \in Occupied(u, index)
      BY <2>2, <3>6 DEF Occupied, Live
    <3> QED BY <1>2, <3>7
  <2> QED BY <2>1, <2>2 DEF Left
<1>3. CASE Occupied(u, index) # {}
  <2>1. PICK p \in Occupied(u, index) :
          table = [sessions EXCEPT ![p[1]] = Removed(@, p[2])]
    BY <1>3 DEF LeaveSessionAtIndex
  <2>2. PICK id \in SessionId : id = p[1]
    BY <2>1 DEF Occupied
  <2>3. PICK s \in Session : s = sessions[id]
    BY <2>1, <2>2 DEF Occupied, Live, Table
  <2>4. PICK m \in DOMAIN s.members : m = p[2]
    BY <2>1, <2>2, <2>3 DEF Occupied
  <2>5. s.members[m] = Member(u, index) /\ s # NoSession
    BY <2>1, <2>2, <2>3, <2>4, SessionConstants DEF Occupied
  <2>6. PICK t \in Session \cup {NoSession} : t = Removed(s, m)
    BY RemovedSession
  <2>7. table = [sessions EXCEPT ![id] = t]
    BY <2>1, <2>2, <2>3, <2>4, <2>6
  <2>8. /\ table \in Table /\ table[id] = t
        /\ \A other \in SessionId \ {id} : table[other] = sessions[other]
    BY <2>7 DEF Table
  <2>9. Left(s, t) /\ u \in UsersIn(s)
    BY <1>1, <2>5, <2>6 DEF Left, UsersIn
  <2>10. \A other \in SessionId :
           /\ Left(sessions[other], table[other])
           /\ ~Live(other) \/ u \notin UsersIn(sessions[other])
                => table[other] = sessions[other]
    BY <2>3, <2>5, <2>8, <2>9 DEF Left, Live
  <2>11. ASSUME NEW other \in SessionId, table[other] # NoSession,
                NEW n \in DOMAIN table[other].members,
                table[other].members[n] = Member(u, index)
         PROVE  FALSE
    <3>1. CASE other = id
      <4>1. t # NoSession /\ n \in DOMAIN t.members /\ t.members[n] = Member(u, index)
        BY <2>8, <2>11, <3>1
      <4>2. /\ Shift(m, n) \in DOMAIN s.members \ {m}
            /\ t.members[n] = s.members[Shift(m, n)]
        BY <2>6, <4>1, RemovedSession
      <4> QED BY <1>1, <2>3, <2>5, <4>1, <4>2 DEF UniqueIn
    <3>2. CASE other # id
      <4>1. table[other] = sessions[other]
        BY <2>8, <3>2
      <4> QED BY <1>1, <2>3, <2>5, <2>11, <3>2, <4>1 DEF UniqueIn
    <3> QED BY <3>1, <3>2
  <2> QED BY <2>8, <2>10, <2>11
<1> QED BY <1>2, <1>3

\* Taking a player out of a session, for good.
LEMMA RemoveMember ==
  ASSUME NEW s \in Session \cup {NoSession}, NEW u \in Users,
         s # NoSession => OnceIn(s) /\ s.owner \in UsersIn(s)
  PROVE  LET t == RemoveMemberApplyOwner(s, u) IN
         /\ t \in Session \cup {NoSession} /\ Left(s, t)
         /\ t # NoSession => u \notin UsersIn(t)
         /\ s # NoSession /\ u \notin UsersIn(s) => t = s
<1>1. CASE s = NoSession \/ u \notin UsersIn(s)
  BY <1>1 DEF RemoveMemberApplyOwner, Left
<1>2. CASE s # NoSession /\ u \in UsersIn(s)
  <2>1. s \in Session
    BY <1>2
  <2>2. PICK m \in DOMAIN s.members : s.members[m].user = u
    BY <1>2 DEF UsersIn
  <2>3. \A n \in DOMAIN s.members : s.members[n].user = u => n = m
    BY <1>2, <2>2 DEF OnceIn
  <2>4. DOMAIN s.members = 1 .. Len(s.members) /\ Len(s.members) \in Nat
    BY <2>1 DEF Session
  <2>5. \A n \in 1 .. m - 1 : s.members[n].user # u
    BY <2>3, <2>4
  <2>6. (CHOOSE k \in DOMAIN s.members :
           s.members[k].user = u /\ \A n \in 1 .. k - 1 : s.members[n].user # u) = m
    BY <2>2, <2>3, <2>5
  <2>7. RemoveMemberApplyOwner(s, u) = Removed(s, m)
    BY <1>2, <2>6 DEF RemoveMemberApplyOwner
  <2>8. PICK t \in Session \cup {NoSession} : t = Removed(s, m)
    BY <2>1, RemovedSession
  <2>9. t # NoSession => u \notin UsersIn(t)
    <3> SUFFICES ASSUME t # NoSession, NEW i \in DOMAIN t.members, t.members[i].user = u
                 PROVE  FALSE
      BY DEF UsersIn
    <3>1. /\ Shift(m, i) \in DOMAIN s.members \ {m}
          /\ t.members[i] = s.members[Shift(m, i)]
      BY <2>1, <2>8, RemovedSession
    <3> QED BY <2>3, <3>1
  <2> QED BY <1>2, <2>7, <2>8, <2>9 DEF Left
<1> QED BY <1>1, <1>2

-----------------------------------------------------------------------------
(* What a step does to the sessions *)

\* The request in hand is that of a player, for an id that has been drawn; an id
\* that was not drawn yet, or is being created, names no session and has no
\* invitation.
RequestOK ==
  /\ request.step # "none" =>
       /\ request.user \in Users /\ request.index \in Indices
       /\ request.id \in 1 .. created
  /\ request.step = "create" => sessions[request.id] = NoSession
  /\ \A id \in SessionId : id > created => sessions[id] = NoSession
  /\ \A i \in DOMAIN invitations :
       /\ invitations[i].session \in 1 .. created
       /\ request.step = "create" => invitations[i].session # request.id

\* Some leave, and nobody comes.
Leaves == \A id \in SessionId : Left(sessions[id], sessions'[id])

\* A session's settings change.
Edits(id) ==
  /\ Live(id) /\ sessions'[id] \in Session
  /\ sessions'[id].owner = sessions[id].owner /\ sessions'[id].type = sessions[id].type
  /\ sessions'[id].members = sessions[id].members
  /\ \A other \in SessionId \ {id} : sessions'[other] = sessions[other]

\* u enters session id, which may be new, and leaves at most one other.
SeatsPlayer(u, id) ==
  /\ u \in Users /\ id \in 1 .. created /\ sessions'[id] \in Session
  /\ UsersIn(sessions'[id]) =
       (IF Live(id) THEN UsersIn(sessions[id]) ELSE {}) \cup {u}
  /\ Live(id) => /\ u \notin UsersIn(sessions[id])
                 /\ sessions'[id].owner = sessions[id].owner
                 /\ sessions'[id].privacy = sessions[id].privacy
  /\ \A other \in SessionId \ {id} : Left(sessions[other], sessions'[other])

\* A new session.
LEMMA InsertActs ==
  ASSUME TypeOK, SeatsSound, RequestOK, NEW kind \in Kinds, InsertSession(kind)
  PROVE  /\ sessions' \in Table /\ SeatsSound' /\ ~Live(request.id)
         /\ SeatsPlayer(request.user, request.id) /\ request.step = "create"
<1>1. PICK u \in Users : u = request.user
  BY DEF InsertSession, RequestOK
<1>2. PICK id \in SessionId : id = request.id /\ id \in 1 .. created
  BY SessionConstants DEF InsertSession, RequestOK, TypeOK, SessionId
<1>3. PICK index \in Indices : index = request.index
  BY DEF InsertSession, RequestOK
<1>4. sessions \in Table /\ OwnedIn(sessions) /\ UniqueIn(sessions)
  BY SeatsAre DEF TypeOK, Table
<1> DEFINE t == [type |-> kind.type, privacy |-> kind.privacy, maxUser |-> kind.maxUser,
                 owner |-> u, members |-> <<Member(u, index)>>]
<1>5. PICK table \in LeaveSessionAtIndex(u, index) :
        sessions' = [table EXCEPT ![id] = t]
  BY <1>1, <1>2, <1>3 DEF InsertSession
<1>6. /\ Member(u, index) \in Seat /\ <<Member(u, index)>> \in Seq(Seat)
      /\ Len(<<Member(u, index)>>) = 1 /\ <<Member(u, index)>>[1] = Member(u, index)
      /\ <<Member(u, index)>> # <<>> /\ Member(u, index).user = u
  BY DEF Member, Seat
<1>7. /\ t \in Session /\ t.members = <<Member(u, index)>> /\ t.owner = u
  <2>1. /\ kind.type \in {"owner-bind", "owner-migration"}
        /\ kind.privacy \in {"public", "private"} /\ kind.maxUser \in Int
    BY SessionConstants
  <2> QED BY <1>6, <2>1 DEF Session, Seat
<1>8. UsersIn(t) = {u}
  <2>1. DOMAIN t.members = {1}
    BY <1>6, <1>7
  <2> QED BY <1>6, <1>7, <2>1 DEF UsersIn
<1> HIDE DEF t
<1>9. /\ table \in Table
      /\ \A other \in SessionId : Left(sessions[other], table[other])
      /\ \A other \in SessionId : table[other] # NoSession =>
           \A n \in DOMAIN table[other].members :
             table[other].members[n] # Member(u, index)
  BY <1>4, <1>5, LeaveAtIndex
<1>10. OwnedIn(table) /\ UniqueIn(table)
  BY <1>4, <1>9, LeftTable DEF Table
<1>11. sessions' \in Table /\ OwnedIn(sessions') /\ UniqueIn(sessions')
  <2> DEFINE k == 0
  <2>1. /\ k \in Nat /\ Len(t.members) = k + 1 /\ t.members[k + 1] = Member(u, index)
        /\ t.owner \in UsersIn(t) /\ 1 .. k = {}
    BY <1>6, <1>7, <1>8
  <2> QED BY <1>5, <1>7, <1>9, <1>10, <2>1, EnteredTable
<1>12. SeatsSound'
  BY <1>11 DEF SeatsSound, OwnedIn, UniqueIn, Live
<1>13. ~Live(id)
  BY <1>2 DEF InsertSession, RequestOK, Live
<1>14. sessions'[id] = t /\ \A other \in SessionId \ {id} : sessions'[other] = table[other]
  BY <1>5, <1>9 DEF Table
<1>15. SeatsPlayer(u, id)
  BY <1>2, <1>7, <1>8, <1>9, <1>13, <1>14 DEF SeatsPlayer
<1> QED BY <1>1, <1>2, <1>11, <1>12, <1>13, <1>15 DEF InsertSession

\* A player joins.
LEMMA JoinActs ==
  ASSUME TypeOK, SeatsSound, RequestOK, JoinSession
  PROVE  /\ sessions' \in Table /\ SeatsSound' /\ Live(request.id)
         /\ SeatsPlayer(request.user, request.id) /\ request.step = "join"
<1>1. PICK u \in Users : u = request.user
  BY DEF JoinSession, RequestOK
<1>2. PICK id \in SessionId : id = request.id /\ id \in 1 .. created
  BY SessionConstants DEF JoinSession, RequestOK, TypeOK, SessionId
<1>3. PICK index \in Indices : index = request.index
  BY DEF JoinSession, RequestOK
<1>4. sessions \in Table /\ OwnedIn(sessions) /\ UniqueIn(sessions)
  BY SeatsAre DEF TypeOK, Table
<1>5. PICK s \in Session : s = sessions[id] /\ s # NoSession /\ u \notin UsersIn(s)
  BY <1>1, <1>2, <1>4 DEF JoinSession, Live, Table
<1>6. PICK table \in LeaveSessionAtIndex(u, index) :
        sessions' = [table EXCEPT ![id].members = Append(@, Member(u, index))]
  BY <1>1, <1>2, <1>3 DEF JoinSession
<1>7. /\ table \in Table /\ table[id] = s
      /\ \A other \in SessionId : Left(sessions[other], table[other])
      /\ \A other \in SessionId : table[other] # NoSession =>
           \A n \in DOMAIN table[other].members :
             table[other].members[n] # Member(u, index)
  BY <1>4, <1>5, <1>6, LeaveAtIndex
<1>8. OwnedIn(table) /\ UniqueIn(table)
  BY <1>4, <1>7, LeftTable DEF Table
<1> DEFINE k == Len(s.members)
           q == Append(s.members, Member(u, index))
<1>9. Member(u, index) \in Seat /\ Member(u, index).user = u
  BY DEF Member, Seat
<1>10. s.members \in Seq(Seat) /\ k \in Nat /\ DOMAIN s.members = 1 .. k
  BY DEF Session, Seat
<1>11. /\ q \in Seq(Seat) /\ q # <<>> /\ Len(q) = k + 1 /\ DOMAIN q = 1 .. k + 1
       /\ \A i \in 1 .. k : q[i] = s.members[i]
       /\ q[k + 1] = Member(u, index)
  BY <1>9, <1>10, AppendProperties
<1> HIDE DEF q, k
<1>12. PICK t \in Session : t = [s EXCEPT !.members = q]
  BY <1>11 DEF Session, Seat
<1>13. t.members = q /\ t.owner = s.owner /\ t.type = s.type /\ t.privacy = s.privacy
  BY <1>12 DEF Session
<1>14. sessions' = [table EXCEPT ![id] = t]
  BY <1>6, <1>7, <1>12 DEF q
<1>15. UsersIn(t) = UsersIn(s) \cup {u}
  BY <1>9, <1>10, <1>11, <1>13 DEF UsersIn
<1>16. sessions' \in Table /\ OwnedIn(sessions') /\ UniqueIn(sessions')
  <2>1. t.owner \in UsersIn(t)
    BY <1>4, <1>5, <1>13, <1>15 DEF OwnedIn
  <2>2. ASSUME NEW i \in 1 .. k
        PROVE  /\ table[id] # NoSession /\ i \in DOMAIN table[id].members
               /\ t.members[i] = table[id].members[i] /\ t.members[i].user # u
    BY <1>5, <1>7, <1>10, <1>11, <1>13 DEF UsersIn
  <2>3. Len(t.members) = k + 1 /\ t.members[k + 1] = Member(u, index)
    BY <1>11, <1>13
  <2>4. PICK new : new = [table EXCEPT ![id] = t]
    OBVIOUS
  <2>5. new \in Table /\ OwnedIn(new) /\ UniqueIn(new)
    BY ONLY <1>7, <1>8, <1>10, <2>1, <2>2, <2>3, <2>4, t \in Session, id \in SessionId,
            u \in Users, index \in Indices, EnteredTable
  <2> QED BY <1>14, <2>4, <2>5
<1>17. SeatsSound'
  BY <1>16 DEF SeatsSound, OwnedIn, UniqueIn, Live
<1>18. Live(id)
  BY <1>5 DEF Live
<1>19. sessions'[id] = t /\ \A other \in SessionId \ {id} : sessions'[other] = table[other]
  BY <1>7, <1>14 DEF Table
<1>20. SeatsPlayer(u, id)
  BY <1>2, <1>5, <1>7, <1>13, <1>15, <1>18, <1>19 DEF SeatsPlayer
<1> QED BY <1>1, <1>2, <1>16, <1>17, <1>18, <1>20 DEF JoinSession

\* A session that some have left has no new member, and is of the same kind.
LEMMA LeftUsers ==
  ASSUME sessions \in Table, OwnedIn(sessions), NEW id \in SessionId,
         Left(sessions[id], sessions'[id]), sessions'[id] # NoSession
  PROVE  /\ Live(id) /\ sessions'[id].privacy = sessions[id].privacy
         /\ UsersIn(sessions'[id]) \subseteq UsersIn(sessions[id])
<1>1. PICK a \in Session \cup {NoSession} : a = sessions[id]
  BY DEF Table
<1>2. PICK b : b = sessions'[id]
  OBVIOUS
<1>3. Left(a, b) /\ b # NoSession /\ (a # NoSession => a.owner \in UsersIn(a))
  BY <1>1, <1>2 DEF OwnedIn
<1>4. /\ a # NoSession /\ b.privacy = a.privacy
      /\ \A i \in DOMAIN b.members : \E n \in DOMAIN a.members :
           b.members[i] = a.members[n]
  BY <1>3, LeftSession
<1>5. UsersIn(b) \subseteq UsersIn(a)
  BY <1>4 DEF UsersIn
<1> QED BY <1>1, <1>2, <1>4, <1>5 DEF Live

\* The sessions are as sound as before when some have left.
LEMMA LeavesSound ==
  ASSUME TypeOK, SeatsSound, sessions' \in [SessionId -> Session \cup {NoSession}], Leaves
  PROVE  sessions' \in Table /\ SeatsSound'
<1>1. sessions \in Table /\ OwnedIn(sessions) /\ UniqueIn(sessions)
  BY SeatsAre DEF TypeOK, Table
<1>2. OwnedIn(sessions') /\ UniqueIn(sessions')
  BY <1>1, LeftTable DEF Leaves
<1> QED BY <1>2 DEF SeatsSound, OwnedIn, UniqueIn, Live, Table

\* In a sound table every session can lose a member for good.
LEMMA MemberTaken ==
  ASSUME TypeOK, SeatsSound, NEW id \in SessionId, NEW u \in Users
  PROVE  LET t == RemoveMemberApplyOwner(sessions[id], u) IN
         /\ t \in Session \cup {NoSession} /\ Left(sessions[id], t)
         /\ t # NoSession => u \notin UsersIn(t)
<1>1. PICK s \in Session \cup {NoSession} : s = sessions[id]
  BY DEF TypeOK
<1>2. s # NoSession => OnceIn(s) /\ s.owner \in UsersIn(s)
  BY <1>1, SeatsAre DEF OwnedIn, UniqueIn, OnceIn
<1> QED BY <1>1, <1>2, RemoveMember

\* The purge takes the player out of every session.
LEMMA PurgeActs ==
  ASSUME TypeOK, SeatsSound, NEW u \in Users, PurgeUserFromSessions(u)
  PROVE  /\ sessions' \in Table /\ SeatsSound' /\ Leaves
         /\ \A id \in SessionId :
              sessions'[id] # NoSession => u \notin UsersIn(sessions'[id])
<1>1. sessions' = [id \in SessionId |-> RemoveMemberApplyOwner(sessions[id], u)]
  BY DEF PurgeUserFromSessions
<1>2. \A id \in SessionId :
        /\ sessions'[id] \in Session \cup {NoSession} /\ Left(sessions[id], sessions'[id])
        /\ sessions'[id] # NoSession => u \notin UsersIn(sessions'[id])
  BY <1>1, MemberTaken
<1>3. sessions' \in [SessionId -> Session \cup {NoSession}]
  BY <1>1, <1>2
<1> QED BY <1>2, <1>3, LeavesSound DEF Leaves

\* Leaving, or being removed.
LEMMA LeaveActs ==
  ASSUME TypeOK, SeatsSound, NEW u \in Users, NEW id \in SessionId, NEW target \in Users,
         HandleSessionLeave(u, id, target)
  PROVE  sessions' \in Table /\ SeatsSound' /\ Leaves
<1>1. PICK t \in Session \cup {NoSession} :
        t = RemoveMemberApplyOwner(sessions[id], target) /\ Left(sessions[id], t)
  BY MemberTaken
<1>2. sessions' = [sessions EXCEPT ![id] = t]
  BY <1>1 DEF HandleSessionLeave
<1>3. sessions' \in [SessionId -> Session \cup {NoSession}] /\ Leaves
  BY <1>1, <1>2 DEF TypeOK, Leaves, Left
<1> QED BY <1>3, LeavesSound

\* Deleting.
LEMMA DeleteActs ==
  ASSUME TypeOK, SeatsSound, NEW u \in Users, NEW id \in SessionId,
         HandleSessionDelete(u, id)
  PROVE  sessions' \in Table /\ SeatsSound' /\ Leaves
<1>1. sessions' = [sessions EXCEPT ![id] = NoSession] /\ sessions[id] # NoSession
  BY DEF HandleSessionDelete, Live
<1>2. sessions' \in [SessionId -> Session \cup {NoSession}] /\ Leaves
  BY <1>1 DEF TypeOK, Leaves, Left
<1> QED BY <1>2, LeavesSound

\* A change of settings leaves the seats as they are.
LEMMA UpdateActs ==
  ASSUME TypeOK, SeatsSound, NEW u \in Users, NEW id \in SessionId, NEW update \in Updates,
         HandleSessionUpdate(u, id, update)
  PROVE  sessions' \in Table /\ SeatsSound' /\ Edits(id)
<1>1. PICK s \in Session : s = sessions[id] /\ s # NoSession
  BY DEF HandleSessionUpdate, Live, TypeOK
<1>2. PICK privacy \in {s.privacy, update.privacy}, maxUser \in {s.maxUser, update.maxUser} :
        sessions' = [sessions EXCEPT ![id].privacy = privacy, ![id].maxUser = maxUser]
  BY <1>1 DEF HandleSessionUpdate
<1>3. privacy \in {"public", "private"} /\ maxUser \in Int
  <2>1. /\ update.privacy \in {"public", "private"} /\ update.maxUser \in Int
    BY SessionConstants
  <2> QED BY <1>2, <2>1 DEF Session
<1>4. PICK t \in Session : t = [s EXCEPT !.privacy = privacy, !.maxUser = maxUser]
  BY <1>3 DEF Session
<1>5. t.owner = s.owner /\ t.type = s.type /\ t.members = s.members
  BY <1>4 DEF Session
<1>6. sessions' = [sessions EXCEPT ![id] = t]
  BY <1>1, <1>2, <1>4 DEF TypeOK
<1>7. /\ sessions' \in Table /\ sessions'[id] = t
      /\ \A other \in SessionId \ {id} : sessions'[other] = sessions[other]
  BY <1>6 DEF TypeOK, Table
<1>8. Edits(id)
  BY <1>1, <1>5, <1>7 DEF Edits, Live
<1>9. /\ \A other \in SessionId : (sessions'[other] # NoSession) <=> Live(other)
      /\ \A other \in SessionId : Live(other) =>
           /\ sessions'[other].members = sessions[other].members
           /\ sessions'[other].owner = sessions[other].owner
  BY <1>1, <1>5, <1>7, SessionConstants DEF Live
<1>10. OwnedIn(sessions') /\ UniqueIn(sessions')
  BY <1>9, SeatsAre DEF OwnedIn, UniqueIn, UsersIn, Live
<1>11. SeatsSound'
  BY <1>10 DEF SeatsSound, OwnedIn, UniqueIn, Live
<1> QED BY <1>7, <1>8, <1>11

\* The steps that leave the sessions as they are.
LEMMA SameSessions ==
  ASSUME TypeOK, SeatsSound, sessions' = sessions
  PROVE  sessions' \in Table /\ SeatsSound' /\ Leaves
BY DEF TypeOK, SeatsSound, Live, Leaves, Left, Table

\* Every step leaves the seats sound, and is of one of three kinds.
LEMMA SessionSteps ==
  ASSUME TypeOK, SeatsSound, RequestOK, [Next]_vars
  PROVE  /\ sessions' \in Table /\ SeatsSound'
         /\ \/ Leaves
            \/ \E id \in SessionId : Edits(id)
            \/ \E u \in Users, id \in SessionId : SeatsPlayer(u, id)
<1> DEFINE Goal == /\ sessions' \in Table /\ SeatsSound'
                   /\ \/ Leaves
                      \/ \E id \in SessionId : Edits(id)
                      \/ \E u \in Users, id \in SessionId : SeatsPlayer(u, id)
<1> SUFFICES Goal
  OBVIOUS
<1>1. ASSUME NEW u \in Users, CleanupOnDisconnect(u) \/ CleanupHeldLogin(u)
      PROVE  Goal
  <2>1. PurgeUserFromSessions(u)
    BY <1>1 DEF CleanupOnDisconnect, CleanupHeldLogin
  <2> QED BY <2>1, PurgeActs
<1>2. ASSUME NEW u \in Users, NEW id \in SessionId, NEW other \in Users,
             HandleSessionLeave(u, id, other)
      PROVE  Goal
  BY <1>2, LeaveActs
<1>3. ASSUME NEW u \in Users, NEW id \in SessionId, HandleSessionDelete(u, id)
      PROVE  Goal
  BY <1>3, DeleteActs
<1>4. ASSUME NEW u \in Users, NEW id \in SessionId, NEW update \in Updates,
             HandleSessionUpdate(u, id, update)
      PROVE  Goal
  BY <1>4, UpdateActs
<1>5. ASSUME NEW kind \in Kinds, InsertSession(kind)
      PROVE  Goal
  <2>1. /\ sessions' \in Table /\ SeatsSound' /\ SeatsPlayer(request.user, request.id)
    BY <1>5, InsertActs
  <2>2. request.user \in Users /\ request.id \in SessionId
    BY <1>5, SessionConstants DEF InsertSession, RequestOK, TypeOK, SessionId
  <2> QED BY <2>1, <2>2
<1>6. ASSUME JoinSession
      PROVE  Goal
  <2>1. /\ sessions' \in Table /\ SeatsSound' /\ SeatsPlayer(request.user, request.id)
    BY <1>6, JoinActs
  <2>2. request.user \in Users /\ request.id \in SessionId
    BY <1>6, SessionConstants DEF JoinSession, RequestOK, TypeOK, SessionId
  <2> QED BY <2>1, <2>2
<1>7. ASSUME sessions' = sessions
      PROVE  Goal
  BY <1>7, SameSessions
<1> HIDE DEF Goal
<1>8. CASE Next
  BY <1>1, <1>2, <1>3, <1>4, <1>5, <1>6, <1>7, <1>8
     DEF Next, RegisterOnline, EraseClient, HandleSessionCreate, HandleSessionJoin,
         HandleSessionInvite, JoinRefused, HandleInvitationUse
<1>9. CASE UNCHANGED vars
  BY <1>7, <1>9 DEF vars
<1> QED BY <1>8, <1>9

-----------------------------------------------------------------------------
(* Requests and invitations *)

Invitation == [session : SessionId, to : Users, used : BOOLEAN, inside : BOOLEAN]

\* Whichever way the sessions change, those of ids that were not drawn stay none.
LEMMA UndrawnStay ==
  ASSUME TypeOK, RequestOK, created' \in {created, created + 1},
         \/ Leaves
         \/ \E id \in SessionId : Edits(id)
         \/ \E u \in Users, id \in SessionId : SeatsPlayer(u, id)
  PROVE  \A id \in SessionId : id > created' => sessions'[id] = NoSession
<1> SUFFICES ASSUME NEW id \in SessionId, id > created'
             PROVE  sessions'[id] = NoSession
  OBVIOUS
<1>1. created \in Nat /\ id \in Nat
  BY SessionConstants DEF TypeOK, SessionId
<1>2. id > created
  BY <1>1
<1>3. sessions[id] = NoSession
  BY <1>2 DEF RequestOK
<1>4. CASE Leaves
  BY <1>3, <1>4 DEF Leaves, Left
<1>5. ASSUME NEW d \in SessionId, Edits(d)
      PROVE  sessions'[id] = NoSession
  BY <1>3, <1>5 DEF Edits, Live
<1>6. ASSUME NEW u \in Users, NEW d \in SessionId, SeatsPlayer(u, d)
      PROVE  sessions'[id] = NoSession
  <2>1. d # id
    BY <1>1, <1>2, <1>6 DEF SeatsPlayer
  <2> QED BY <1>3, <1>6, <2>1 DEF SeatsPlayer, Left
<1> QED BY <1>4, <1>5, <1>6

\* Invitations keep their type; a step leaves them, marks some as used, or sends
\* one more.
LEMMA InvitationsTyped ==
  ASSUME TypeOK, [Next]_vars
  PROVE  /\ invitations' \in Seq(Invitation)
         /\ \/ invitations' = invitations
            \/ /\ Len(invitations') = Len(invitations)
               /\ DOMAIN invitations' = DOMAIN invitations
               /\ \A i \in DOMAIN invitations :
                    /\ invitations'[i].session = invitations[i].session
                    /\ invitations'[i].to = invitations[i].to
                    /\ invitations'[i].inside = invitations[i].inside
                    /\ invitations[i].used => invitations'[i].used
            \/ \E u, to \in Users, id \in SessionId : HandleSessionInvite(u, id, to)
<1> DEFINE Marked == /\ Len(invitations') = Len(invitations)
                     /\ DOMAIN invitations' = DOMAIN invitations
                     /\ \A i \in DOMAIN invitations :
                          /\ invitations'[i].session = invitations[i].session
                          /\ invitations'[i].to = invitations[i].to
                          /\ invitations'[i].inside = invitations[i].inside
                          /\ invitations[i].used => invitations'[i].used
           Goal == /\ invitations' \in Seq(Invitation)
                   /\ \/ invitations' = invitations
                      \/ Marked
                      \/ \E u, to \in Users, id \in SessionId : HandleSessionInvite(u, id, to)
<1> SUFFICES Goal
  OBVIOUS
<1>1. /\ invitations \in Seq(Invitation) /\ Len(invitations) \in Nat
      /\ DOMAIN invitations = 1 .. Len(invitations)
      /\ \A i \in DOMAIN invitations : invitations[i] \in Invitation
  <2>1. invitations \in Seq(Invitation)
    BY DEF TypeOK, Invitation
  <2> QED BY <2>1
<1>2. ASSUME NEW u \in Users, NEW id \in SessionId, NEW to \in Users,
             HandleSessionInvite(u, id, to)
      PROVE  Goal
  <2> DEFINE inv == [session |-> id, to |-> to, used |-> FALSE,
                     inside |-> to \in UsersIn(sessions[id])]
  <2>1. inv \in Invitation
    BY DEF Invitation
  <2>2. invitations' = Append(invitations, inv)
    BY <1>2 DEF HandleSessionInvite
  <2> HIDE DEF inv
  <2>3. invitations' \in Seq(Invitation)
    BY <1>1, <2>1, <2>2, AppendProperties
  <2> QED BY <1>2, <2>3
<1>3. ASSUME NEW i \in 1 .. MaxInvitations, HandleInvitationUse(i)
      PROVE  Goal
  <2>1. PICK inv : inv = [invitations[i] EXCEPT !.used = TRUE]
    OBVIOUS
  <2>2. i \in DOMAIN invitations /\ invitations[i] \in Invitation
    BY <1>1, <1>3 DEF HandleInvitationUse
  <2>3. /\ inv \in Invitation /\ inv.session = invitations[i].session
        /\ inv.to = invitations[i].to /\ inv.inside = invitations[i].inside /\ inv.used
    BY <2>1, <2>2 DEF Invitation
  <2>4. invitations' = [invitations EXCEPT ![i] = inv]
    BY <1>3, <2>1, <2>2 DEF HandleInvitationUse
  <2>5. invitations' \in Seq(Invitation) /\ Len(invitations') = Len(invitations)
        /\ DOMAIN invitations' = DOMAIN invitations
        /\ \A j \in DOMAIN invitations :
             invitations'[j] = IF j = i THEN inv ELSE invitations[j]
    BY <1>1, <2>2, <2>3, <2>4, ExceptSeq
  <2>6. Marked
    BY <2>3, <2>5
  <2> QED BY <2>5, <2>6
<1>4. ASSUME JoinSession
      PROVE  Goal
  <2>1. invitations' = [i \in DOMAIN invitations |->
          IF invitations[i].to = request.user /\ invitations[i].session = request.id
          THEN [invitations[i] EXCEPT !.used = TRUE] ELSE invitations[i]]
    BY <1>4 DEF JoinSession, MarkInvitationsUsedOnJoin
  <2>2. ASSUME NEW i \in DOMAIN invitations
        PROVE  /\ invitations'[i] \in Invitation
               /\ invitations'[i].session = invitations[i].session
               /\ invitations'[i].to = invitations[i].to
               /\ invitations'[i].inside = invitations[i].inside
               /\ invitations[i].used => invitations'[i].used
    BY <1>1, <2>1 DEF Invitation
  <2>3. invitations' \in [1 .. Len(invitations) -> Invitation]
    BY <1>1, <2>1, <2>2
  <2>4. invitations' \in Seq(Invitation)
    BY <1>1, <2>3
  <2>5. DOMAIN invitations' = DOMAIN invitations /\ Len(invitations') = Len(invitations)
    BY <1>1, <2>3, <2>4
  <2>6. Marked
    BY <2>2, <2>5
  <2> QED BY <2>4, <2>6
<1>5. ASSUME invitations' = invitations
      PROVE  Goal
  BY <1>1, <1>5
<1> HIDE DEF Goal
<1>6. CASE Next
  BY <1>2, <1>3, <1>4, <1>5, <1>6
     DEF Next, RegisterOnline, EraseClient, HandleSessionCreate, HandleSessionJoin,
         JoinRefused, CleanupOnDisconnect, CleanupHeldLogin, PurgeUserFromSessions,
         HandleSessionLeave, HandleSessionDelete, HandleSessionUpdate, InsertSession
<1>7. CASE UNCHANGED vars
  BY <1>5, <1>7 DEF vars
<1> QED BY <1>6, <1>7

\* The variables beside the tables keep their types, and a step leaves the
\* request alone, takes a new one, or ends the one in hand.
LEMMA RequestSteps ==
  ASSUME TypeOK, RequestOK, [Next]_vars
  PROVE  /\ presence' \in [Users -> {"offline", "online", "leaving"}]
         /\ late' \subseteq Users
         /\ \/ request' \in {request, NoRequest} /\ created' = created
            \/ \E u \in Users, index \in Indices :
                 HandleSessionCreate(u, index)
            \/ \E u \in Users, id \in SessionId, index \in Indices :
                 HandleSessionJoin(u, id, index)
<1> DEFINE Goal ==
         /\ presence' \in [Users -> {"offline", "online", "leaving"}]
         /\ late' \subseteq Users
         /\ \/ request' \in {request, NoRequest} /\ created' = created
            \/ \E u \in Users, index \in Indices :
                 HandleSessionCreate(u, index)
            \/ \E u \in Users, id \in SessionId, index \in Indices :
                 HandleSessionJoin(u, id, index)
<1> SUFFICES Goal
  OBVIOUS
<1>1. presence \in [Users -> {"offline", "online", "leaving"}] /\ late \subseteq Users
  BY DEF TypeOK
<1>2. ASSUME NEW u \in Users,
             \/ RegisterOnline(u) \/ CleanupOnDisconnect(u)
             \/ CleanupHeldLogin(u) \/ EraseClient(u)
      PROVE  Goal
  BY <1>1, <1>2 DEF RegisterOnline, CleanupOnDisconnect, CleanupHeldLogin, EraseClient,
                    PurgeUserFromSessions
<1>3. ASSUME NEW u \in Users, NEW index \in Indices, HandleSessionCreate(u, index)
      PROVE  Goal
  BY <1>1, <1>3 DEF HandleSessionCreate
<1>4. ASSUME NEW u \in Users, NEW id \in SessionId, NEW index \in Indices,
             HandleSessionJoin(u, id, index)
      PROVE  Goal
  BY <1>1, <1>4 DEF HandleSessionJoin
<1>5. ASSUME NEW kind \in Kinds, InsertSession(kind)
      PROVE  Goal
  BY <1>1, <1>5 DEF InsertSession, Enters, RequestOK
<1>6. ASSUME JoinSession
      PROVE  Goal
  BY <1>1, <1>6 DEF JoinSession, Enters, RequestOK
<1>7. ASSUME JoinRefused
      PROVE  Goal
  BY <1>1, <1>7 DEF JoinRefused
<1>8. ASSUME presence' = presence, late' = late, request' = request, created' = created
      PROVE  Goal
  BY <1>1, <1>8
<1> HIDE DEF Goal
<1>9. ASSUME NEW u \in Users, NEW id \in SessionId,
             \/ \E update \in Updates : HandleSessionUpdate(u, id, update)
             \/ HandleSessionDelete(u, id)
             \/ \E other \in Users : \/ HandleSessionLeave(u, id, other)
                                     \/ HandleSessionInvite(u, id, other)
      PROVE  Goal
  BY <1>8, <1>9 DEF HandleSessionUpdate, HandleSessionDelete, HandleSessionLeave,
                    HandleSessionInvite
<1>10. ASSUME NEW i \in 1 .. MaxInvitations, HandleInvitationUse(i)
       PROVE  Goal
  BY <1>8, <1>10 DEF HandleInvitationUse
<1>11. CASE Next
  BY <1>2, <1>3, <1>4, <1>5, <1>6, <1>7, <1>9, <1>10, <1>11 DEF Next
<1>12. CASE UNCHANGED vars
  BY <1>8, <1>12 DEF vars
<1> QED BY <1>11, <1>12

\* Types, and the request's place among the ids, are kept.
LEMMA RequestKept ==
  ASSUME TypeOK, SeatsSound, RequestOK, [Next]_vars
  PROVE  TypeOK' /\ RequestOK' /\ SeatsSound'
<1>1. /\ sessions' \in Table /\ SeatsSound'
      /\ \/ Leaves
         \/ \E id \in SessionId : Edits(id)
         \/ \E u \in Users, id \in SessionId : SeatsPlayer(u, id)
  BY SessionSteps
<1>2. /\ presence' \in [Users -> {"offline", "online", "leaving"}]
      /\ late' \subseteq Users
  BY RequestSteps
<1>3. invitations' \in Seq(Invitation)
  BY InvitationsTyped
<1>4. MaxSessions \in Nat /\ created \in 0 .. MaxSessions
  BY SessionConstants DEF TypeOK
<1>5. created' \in 0 .. MaxSessions /\ created' \in {created, created + 1}
  <2>1. CASE created' = created
    BY <1>4, <2>1
  <2>2. ASSUME NEW u \in Users, NEW index \in Indices, HandleSessionCreate(u, index)
        PROVE  created' = created + 1 /\ created < MaxSessions
    BY <2>2 DEF HandleSessionCreate
  <2>3. ASSUME NEW u \in Users, NEW id \in SessionId, NEW index \in Indices,
               HandleSessionJoin(u, id, index)
        PROVE  created' = created
    BY <2>3 DEF HandleSessionJoin
  <2>4. created' = created \/ (created' = created + 1 /\ created < MaxSessions)
    BY <2>2, <2>3, RequestSteps
  <2> QED BY <1>4, <2>4
<1>6. request' \in [step: {"none", "create", "join"}, user: Users \cup {Nobody},
                    id: 0 .. MaxSessions, index: Indices \cup {0}]
      /\ (request'.step # "none" =>
            /\ request'.user \in Users /\ request'.index \in Indices
            /\ request'.id \in 1 .. created')
  <2>1. CASE request' = request
    <3>1. request.id \in 1 .. created => request.id \in 1 .. created'
      BY <1>4, <1>5
    <3> QED BY <2>1, <3>1 DEF TypeOK, RequestOK
  <2>2. CASE request' = NoRequest
    BY <1>4, <2>2 DEF NoRequest
  <2>3. ASSUME NEW u \in Users, NEW index \in Indices, HandleSessionCreate(u, index)
        PROVE  /\ request' = [step |-> "create", user |-> u, id |-> created + 1,
                              index |-> index]
               /\ created' = created + 1
    BY <2>3 DEF HandleSessionCreate, CheckOnline
  <2>4. ASSUME NEW u \in Users, NEW index \in Indices, HandleSessionCreate(u, index)
        PROVE  <1>6!1 /\ <1>6!2
    <3>1. created + 1 \in 1 .. created' /\ created + 1 \in 0 .. MaxSessions
      BY <1>4, <1>5, <2>3, <2>4
    <3> QED BY <2>3, <2>4, <3>1
  <2>5. ASSUME NEW u \in Users, NEW id \in SessionId, NEW index \in Indices,
               HandleSessionJoin(u, id, index)
        PROVE  <1>6!1 /\ <1>6!2
    <3>1. /\ request' = [step |-> "join", user |-> u, id |-> id, index |-> index]
          /\ created' = created /\ id <= created
      BY <2>5 DEF HandleSessionJoin, CheckOnline
    <3>2. id \in 1 .. created' /\ id \in 0 .. MaxSessions
      BY <1>4, <3>1 DEF SessionId
    <3> QED BY <3>1, <3>2
  <2> QED BY <2>1, <2>2, <2>4, <2>5, RequestSteps
<1>7. \A id \in SessionId : id > created' => sessions'[id] = NoSession
  BY <1>1, <1>5, UndrawnStay
<1>8. \A i \in DOMAIN invitations' : invitations'[i].session \in 1 .. created
  <2>1. \A i \in DOMAIN invitations : invitations[i].session \in 1 .. created
    BY DEF RequestOK
  <2>2. ASSUME NEW u \in Users, NEW to \in Users, NEW id \in SessionId,
               HandleSessionInvite(u, id, to)
        PROVE  \A i \in DOMAIN invitations' : invitations'[i].session \in 1 .. created
    <3>1. PICK inv : inv = [session |-> id, to |-> to, used |-> FALSE,
                            inside |-> to \in UsersIn(sessions[id])]
      OBVIOUS
    <3>2. invitations' = Append(invitations, inv) /\ inv.session = id /\ Live(id)
      BY <2>2, <3>1 DEF HandleSessionInvite
    <3>3. id \in 1 .. created
      BY <1>4, <3>2 DEF RequestOK, Live, SessionId
    <3>4. invitations \in Seq(Invitation) /\ inv \in Invitation
      BY <3>1 DEF TypeOK, Invitation
    <3>5. /\ Len(invitations') = Len(invitations) + 1
          /\ \A i \in 1 .. Len(invitations) : invitations'[i] = invitations[i]
          /\ invitations'[Len(invitations) + 1] = inv
      BY <3>2, <3>4, AppendProperties
    <3>6. DOMAIN invitations' = 1 .. Len(invitations) + 1 /\ Len(invitations) \in Nat
          /\ DOMAIN invitations = 1 .. Len(invitations)
      BY <1>3, <3>4, <3>5
    <3> QED BY <2>1, <3>2, <3>3, <3>5, <3>6
  <2> QED BY <2>1, <2>2, InvitationsTyped
<1>9. /\ request'.step = "create" => sessions'[request'.id] = NoSession
      /\ \A i \in DOMAIN invitations' :
           request'.step = "create" => invitations'[i].session # request'.id
  <2>1. ASSUME NEW u \in Users, NEW index \in Indices, HandleSessionCreate(u, index)
        PROVE  <1>9
    <3>1. /\ request'.id = created + 1 /\ sessions' = sessions /\ invitations' = invitations
          /\ created + 1 \in SessionId
      BY <1>4, <2>1 DEF HandleSessionCreate, CheckOnline, SessionId
    <3>2. sessions[created + 1] = NoSession
      BY <1>4, <3>1 DEF RequestOK
    <3>3. \A i \in DOMAIN invitations : invitations[i].session # created + 1
      BY <1>4 DEF RequestOK
    <3> QED BY <3>1, <3>2, <3>3
  <2>2. ASSUME NEW u \in Users, NEW id \in SessionId, NEW index \in Indices,
               HandleSessionJoin(u, id, index)
        PROVE  <1>9
    BY <2>2 DEF HandleSessionJoin, CheckOnline
  <2>3. CASE request' = NoRequest
    BY <2>3 DEF NoRequest
  <2>4. ASSUME request' = request, request.step = "create"
        PROVE  /\ sessions'[request.id] = NoSession
               /\ \A i \in DOMAIN invitations' : invitations'[i].session # request.id
    <3>1. request.id \in SessionId /\ sessions[request.id] = NoSession /\ request # NoRequest
      BY <1>4, <2>4 DEF RequestOK, SessionId, NoRequest
    <3>2. \/ Leaves
          \/ sessions' = sessions
      <4>1. ASSUME NEW u \in Users, CleanupOnDisconnect(u) \/ CleanupHeldLogin(u)
            PROVE  Leaves
        <5>1. PurgeUserFromSessions(u)
          BY <4>1 DEF CleanupOnDisconnect, CleanupHeldLogin
        <5> QED BY <5>1, PurgeActs
      <4>2. CASE Next
        BY <2>4, <3>1, <4>1, <4>2
           DEF Next, RegisterOnline, EraseClient, HandleSessionCreate, HandleSessionJoin,
               HandleSessionUpdate, HandleSessionDelete, HandleSessionLeave,
               HandleSessionInvite, InsertSession, JoinSession, Enters, JoinRefused,
               HandleInvitationUse
      <4>3. CASE UNCHANGED vars
        BY <4>3 DEF vars
      <4> QED BY <4>2, <4>3
    <3>3. ~\E u, to \in Users, id \in SessionId : HandleSessionInvite(u, id, to)
      BY <3>1 DEF HandleSessionInvite
    <3>4. sessions'[request.id] = NoSession
      BY <3>1, <3>2 DEF Leaves, Left
    <3>5. \A i \in DOMAIN invitations' :
            i \in DOMAIN invitations /\ invitations'[i].session = invitations[i].session
      BY <3>3, InvitationsTyped
    <3>6. \A i \in DOMAIN invitations : invitations[i].session # request.id
      BY <2>4 DEF RequestOK
    <3> QED BY <3>4, <3>5, <3>6
  <2> QED BY <2>1, <2>2, <2>3, <2>4, RequestSteps
<1>10. \A i \in DOMAIN invitations' : invitations'[i].session \in 1 .. created'
  BY <1>4, <1>5, <1>8
<1>11. TypeOK'
  BY <1>1, <1>2, <1>3, <1>5, <1>6 DEF TypeOK, Table, Invitation, SessionId
<1>12. RequestOK'
  BY <1>6, <1>7, <1>9, <1>10 DEF RequestOK
<1> QED BY <1>1, <1>11, <1>12

-----------------------------------------------------------------------------
(* Invitations, latecomers, succession and access *)

\* Nobody becomes a member but the player of a join or creation.
LEMMA Newcomer ==
  ASSUME TypeOK, SeatsSound, NEW id \in SessionId, sessions'[id] # NoSession,
         \/ Leaves
         \/ \E d \in SessionId : Edits(d)
         \/ \E u \in Users, d \in SessionId : SeatsPlayer(u, d)
  PROVE  \/ Live(id) /\ UsersIn(sessions'[id]) \subseteq UsersIn(sessions[id])
         \/ \E u \in Users : SeatsPlayer(u, id)
<1>1. sessions \in Table /\ OwnedIn(sessions)
  BY SeatsAre DEF TypeOK, Table
<1>2. CASE Left(sessions[id], sessions'[id])
  BY <1>1, <1>2, LeftUsers
<1>3. CASE Leaves
  BY <1>2, <1>3 DEF Leaves
<1>4. ASSUME NEW d \in SessionId, Edits(d)
      PROVE  Live(id) /\ UsersIn(sessions'[id]) \subseteq UsersIn(sessions[id])
  BY <1>4 DEF Edits, UsersIn, Live
<1>5. ASSUME NEW u \in Users, NEW d \in SessionId, SeatsPlayer(u, d), d # id
      PROVE  Left(sessions[id], sessions'[id])
  BY <1>5 DEF SeatsPlayer
<1> QED BY <1>2, <1>3, <1>4, <1>5

\* A step that seats a player is the creation or the join in hand.
LEMMA SeatingStep ==
  ASSUME TypeOK, SeatsSound, RequestOK, [Next]_vars,
         NEW u \in Users, NEW id \in SessionId, SeatsPlayer(u, id)
  PROVE  /\ request.step # "none" /\ u = request.user /\ id = request.id
         /\ Enters(u)
         /\ \/ \E kind \in Kinds : InsertSession(kind) /\ ~Live(id)
            \/ JoinSession
<1>1. sessions \in Table /\ OwnedIn(sessions)
  BY SeatsAre DEF TypeOK, Table
<1>2. /\ sessions'[id] # NoSession /\ u \in UsersIn(sessions'[id])
      /\ ~(Live(id) /\ UsersIn(sessions'[id]) \subseteq UsersIn(sessions[id]))
  BY SessionConstants DEF SeatsPlayer
<1>3. ASSUME Leaves
      PROVE  FALSE
  BY <1>1, <1>2, <1>3, LeftUsers DEF Leaves
<1>4. ASSUME NEW d \in SessionId, Edits(d)
      PROVE  FALSE
  BY <1>2, <1>4 DEF Edits, UsersIn, Live
<1>5. ASSUME NEW v \in Users, NEW d \in SessionId, SeatsPlayer(v, d)
      PROVE  v = u /\ d = id
  <2>1. d = id
    BY <1>1, <1>2, <1>5, LeftUsers DEF SeatsPlayer
  <2>2. UsersIn(sessions'[id]) = (IF Live(id) THEN UsersIn(sessions[id]) ELSE {}) \cup {v}
    BY <1>5, <2>1 DEF SeatsPlayer
  <2>3. ~Live(id) \/ u \notin UsersIn(sessions[id])
    BY DEF SeatsPlayer
  <2> QED BY <1>2, <2>1, <2>2, <2>3
<1>6. CASE \E kind \in Kinds : InsertSession(kind)
  <2>1. PICK kind \in Kinds : InsertSession(kind)
    BY <1>6
  <2>2. SeatsPlayer(request.user, request.id) /\ ~Live(request.id)
    BY <2>1, InsertActs
  <2>3. request.user \in Users /\ request.id \in SessionId
    BY <2>1, SessionConstants DEF InsertSession, RequestOK, TypeOK, SessionId
  <2>4. u = request.user /\ id = request.id
    BY <1>5, <2>2, <2>3
  <2> QED BY <2>1, <2>2, <2>4 DEF InsertSession
<1>7. CASE JoinSession
  <2>1. SeatsPlayer(request.user, request.id)
    BY <1>7, JoinActs
  <2>2. request.user \in Users /\ request.id \in SessionId
    BY <1>7, SessionConstants DEF JoinSession, RequestOK, TypeOK, SessionId
  <2>3. u = request.user /\ id = request.id
    BY <1>5, <2>1, <2>2
  <2> QED BY <1>7, <2>3 DEF JoinSession
<1>8. ASSUME NEW v \in Users, CleanupOnDisconnect(v) \/ CleanupHeldLogin(v)
      PROVE  FALSE
  <2>1. PurgeUserFromSessions(v)
    BY <1>8 DEF CleanupOnDisconnect, CleanupHeldLogin
  <2> QED BY <1>3, <2>1, PurgeActs
<1>9. ASSUME NEW v \in Users, NEW d \in SessionId, NEW other \in Users,
             HandleSessionLeave(v, d, other)
      PROVE  FALSE
  BY <1>3, <1>9, LeaveActs
<1>10. ASSUME NEW v \in Users, NEW d \in SessionId, HandleSessionDelete(v, d)
       PROVE  FALSE
  BY <1>3, <1>10, DeleteActs
<1>11. ASSUME NEW v \in Users, NEW d \in SessionId, NEW update \in Updates,
              HandleSessionUpdate(v, d, update)
       PROVE  FALSE
  BY <1>4, <1>11, UpdateActs
<1>12. ASSUME sessions' = sessions
       PROVE  FALSE
  BY <1>3, <1>12, SameSessions
<1>13. CASE Next
  BY <1>6, <1>7, <1>8, <1>9, <1>10, <1>11, <1>12, <1>13
     DEF Next, RegisterOnline, EraseClient, HandleSessionCreate, HandleSessionJoin,
         HandleSessionInvite, JoinRefused, HandleInvitationUse
<1>14. CASE UNCHANGED vars
  BY <1>12, <1>14 DEF vars
<1> QED BY <1>13, <1>14

\* JoiningUsesInvitations is kept: a creation is of an id nobody was invited to,
\* and a join marks the player's invitations.
LEMMA InvitationsKept ==
  ASSUME TypeOK, SeatsSound, RequestOK, JoiningUsesInvitations, [Next]_vars
  PROVE  JoiningUsesInvitations'
<1> SUFFICES ASSUME NEW i \in DOMAIN invitations', ~invitations'[i].used,
                    sessions'[invitations'[i].session] # NoSession,
                    invitations'[i].to \in UsersIn(sessions'[invitations'[i].session])
             PROVE  invitations'[i].inside
  BY DEF JoiningUsesInvitations, Live
<1>1. TypeOK' /\ RequestOK'
  BY RequestKept
<1>2. invitations'[i] \in Invitation
  <2>1. invitations' \in Seq(Invitation)
    BY <1>1 DEF TypeOK, Invitation
  <2> QED BY <2>1
<1>3. PICK id \in SessionId, to \in Users :
        id = invitations'[i].session /\ to = invitations'[i].to
  BY <1>2 DEF Invitation
<1>4. \/ Leaves
      \/ \E d \in SessionId : Edits(d)
      \/ \E u \in Users, d \in SessionId : SeatsPlayer(u, d)
  BY SessionSteps
<1>5. CASE \E u, v \in Users, d \in SessionId : HandleSessionInvite(u, d, v)
  <2>1. PICK u \in Users, v \in Users, d \in SessionId : HandleSessionInvite(u, d, v)
    BY <1>5
  <2>2. PICK inv : inv = [session |-> d, to |-> v, used |-> FALSE,
                          inside |-> v \in UsersIn(sessions[d])]
    OBVIOUS
  <2>3. /\ invitations' = Append(invitations, inv) /\ sessions' = sessions
        /\ inv.session = d /\ inv.to = v /\ (inv.inside <=> v \in UsersIn(sessions[d]))
    BY <2>1, <2>2 DEF HandleSessionInvite
  <2>4. invitations \in Seq(Invitation) /\ inv \in Invitation
    BY <2>2 DEF TypeOK, Invitation
  <2>5. /\ invitations' \in Seq(Invitation) /\ Len(invitations') = Len(invitations) + 1
        /\ \A j \in 1 .. Len(invitations) : invitations'[j] = invitations[j]
        /\ invitations'[Len(invitations) + 1] = inv
    BY <2>3, <2>4, AppendProperties
  <2>6. /\ Len(invitations) \in Nat /\ DOMAIN invitations = 1 .. Len(invitations)
        /\ DOMAIN invitations' = 1 .. Len(invitations')
    BY <2>4, <2>5
  <2>7. i \in DOMAIN invitations \/ i = Len(invitations) + 1
    BY <2>5, <2>6
  <2>8. CASE i \in DOMAIN invitations
    BY <2>3, <2>5, <2>6, <2>8 DEF JoiningUsesInvitations, Live
  <2>9. CASE i = Len(invitations) + 1
    BY <2>3, <2>5, <2>9
  <2> QED BY <2>7, <2>8, <2>9
<1>6. CASE ~\E u, v \in Users, d \in SessionId : HandleSessionInvite(u, d, v)
  <2>1. /\ i \in DOMAIN invitations /\ invitations[i].session = id
        /\ invitations[i].to = to /\ invitations'[i].inside = invitations[i].inside
        /\ ~invitations[i].used
    BY <1>3, <1>6, InvitationsTyped
  <2>2. CASE Live(id) /\ to \in UsersIn(sessions[id])
    BY <2>1, <2>2 DEF JoiningUsesInvitations
  <2>3. ASSUME NEW u \in Users, SeatsPlayer(u, id), ~Live(id) \/ to \notin UsersIn(sessions[id])
        PROVE  FALSE
    <3>1. to = u
      BY <1>3, <2>3 DEF SeatsPlayer
    <3>2. CASE ~Live(id)
      <4>1. request.step = "create" /\ id = request.id
        BY <2>3, <3>2, SeatingStep DEF InsertSession, JoinSession
      <4> QED BY <2>1, <4>1 DEF RequestOK
    <3>3. CASE JoinSession
      <4>1. invitations' = MarkInvitationsUsedOnJoin(id, u)
        BY <2>3, <3>3, SeatingStep DEF JoinSession
      <4>2. invitations[i] \in Invitation
        <5>1. invitations \in Seq(Invitation)
          BY DEF TypeOK, Invitation
        <5> QED BY <2>1, <5>1
      <4>3. invitations'[i] = [invitations[i] EXCEPT !.used = TRUE]
        BY <2>1, <3>1, <4>1 DEF MarkInvitationsUsedOnJoin
      <4> QED BY <4>2, <4>3 DEF Invitation
    <3>4. CASE \E kind \in Kinds : InsertSession(kind) /\ ~Live(id)
      BY <3>2, <3>4
    <3> QED BY <2>3, <3>3, <3>4, SeatingStep
  <2> QED BY <1>3, <1>4, <2>2, <2>3, Newcomer
<1> QED BY <1>5, <1>6

\* OfflineOnlyIfLate is kept: a player who goes offline is out of every session,
\* and one who is entered without being online is written down as late.
LEMMA LateKept ==
  ASSUME TypeOK, SeatsSound, RequestOK, OfflineOnlyIfLate, [Next]_vars
  PROVE  OfflineOnlyIfLate'
<1> SUFFICES ASSUME NEW id \in SessionId, NEW u \in Users, sessions'[id] # NoSession,
                    u \in UsersIn(sessions'[id]), presence'[u] # "online"
             PROVE  u \in late'
  BY DEF OfflineOnlyIfLate, Live
<1>1. \/ Leaves
      \/ \E d \in SessionId : Edits(d)
      \/ \E v \in Users, d \in SessionId : SeatsPlayer(v, d)
  BY SessionSteps
<1>2. presence \in [Users -> {"offline", "online", "leaving"}]
  BY DEF TypeOK
<1>3. CASE \E v \in Users : SeatsPlayer(v, id)
  <2>1. PICK v \in Users : SeatsPlayer(v, id)
    BY <1>3
  <2>2. Enters(v)
    BY <2>1, SeatingStep
  <2>3. CASE u = v
    BY <2>2, <2>3 DEF Enters
  <2>4. CASE u # v
    <3>1. Live(id) /\ u \in UsersIn(sessions[id])
      BY <2>1, <2>4 DEF SeatsPlayer
    <3> QED BY <2>2, <3>1 DEF Enters, OfflineOnlyIfLate
  <2> QED BY <2>3, <2>4
<1>4. CASE Live(id) /\ u \in UsersIn(sessions[id])
  <2>1. ASSUME NEW v \in Users, CleanupOnDisconnect(v) \/ CleanupHeldLogin(v)
        PROVE  u \in late'
    <3>1. PurgeUserFromSessions(v)
      BY <2>1 DEF CleanupOnDisconnect, CleanupHeldLogin
    <3>2. u # v
      BY <3>1, PurgeActs
    <3>3. presence'[u] = presence[u]
      BY <1>2, <2>1, <3>2 DEF CleanupOnDisconnect, CleanupHeldLogin
    <3> QED BY <1>4, <3>1, <3>2, <3>3 DEF PurgeUserFromSessions, OfflineOnlyIfLate
  <2>2. ASSUME NEW v \in Users, RegisterOnline(v) \/ EraseClient(v)
        PROVE  u \in late'
    <3>1. presence[u] # "online"
      BY <1>2, <2>2 DEF RegisterOnline, EraseClient
    <3> QED BY <1>4, <2>2, <3>1 DEF RegisterOnline, EraseClient, OfflineOnlyIfLate
  <2>3. CASE presence' = presence /\ late \subseteq late'
    BY <1>4, <2>3 DEF OfflineOnlyIfLate
  <2>4. CASE Next
    BY <2>1, <2>2, <2>3, <2>4
       DEF Next, HandleSessionCreate, HandleSessionJoin, HandleSessionUpdate,
           HandleSessionDelete, HandleSessionLeave, HandleSessionInvite, InsertSession,
           JoinSession, Enters, JoinRefused, HandleInvitationUse
  <2>5. CASE UNCHANGED vars
    BY <2>3, <2>5 DEF vars
  <2> QED BY <2>4, <2>5
<1> QED BY <1>1, <1>3, <1>4, Newcomer

\* What leaving does to the owner.
LEMMA LeftOwner ==
  ASSUME NEW s \in Session, OnceIn(s), NEW t, Left(s, t), t # NoSession, t.owner # s.owner
  PROVE  /\ s.type = "owner-migration" /\ s.owner \notin UsersIn(t)
         /\ \E m \in DOMAIN s.members :
              /\ s.members[m].user = t.owner
              /\ \A n \in 1 .. m - 1 : s.members[n].user = s.owner
<1>1. PICK m \in DOMAIN s.members : t = Removed(s, m)
  BY DEF Left
<1>2. /\ DOMAIN t.members = 1 .. Len(s.members) - 1
      /\ \A i \in DOMAIN t.members :
           /\ Shift(m, i) \in DOMAIN s.members \ {m}
           /\ t.members[i] = s.members[Shift(m, i)]
      /\ Len(s.members) - 1 > 0
      /\ t.owner = IF s.owner = s.members[m].user THEN t.members[1].user ELSE s.owner
      /\ s.owner = s.members[m].user => s.type = "owner-migration"
  BY <1>1, RemovedSession
<1>3. s.owner = s.members[m].user /\ t.owner = t.members[1].user
  BY <1>2
<1>4. DOMAIN s.members = 1 .. Len(s.members) /\ Len(s.members) \in Nat
  BY DEF Session
<1>5. s.owner \notin UsersIn(t)
  BY <1>2, <1>3 DEF UsersIn, OnceIn
<1>6. PICK n \in DOMAIN s.members : n = Shift(m, 1)
  BY <1>2, <1>4
<1>7. s.members[n].user = t.owner
  BY <1>2, <1>3, <1>4, <1>6
<1>8. \A k \in 1 .. n - 1 : k = m
  BY <1>4, <1>6 DEF Shift
<1> QED BY <1>2, <1>3, <1>5, <1>7, <1>8

\* The succession that OwnerSuccession asks of a step.
Succession(id) ==
  Live(id) /\ Live(id)' /\ sessions'[id].owner # sessions[id].owner =>
    LET old == sessions[id].owner
        members == sessions[id].members
    IN  /\ sessions[id].type = "owner-migration"
        /\ old \notin UsersIn(sessions'[id])
        /\ \E m \in DOMAIN members :
             /\ members[m].user = sessions'[id].owner
             /\ \A n \in 1 .. m - 1 : members[n].user = old

\* Every step keeps to it.
LEMMA SuccessionStep ==
  ASSUME TypeOK, SeatsSound, RequestOK, [Next]_vars, NEW id \in SessionId
  PROVE  Succession(id)
<1> SUFFICES ASSUME Live(id), Live(id)', sessions'[id].owner # sessions[id].owner
             PROVE  Succession(id)
  BY DEF Succession
<1>1. ASSUME NEW u \in Users, NEW d \in SessionId, SeatsPlayer(u, d)
      PROVE  Left(sessions[id], sessions'[id])
  BY <1>1 DEF SeatsPlayer, Live
<1>2. ASSUME NEW d \in SessionId, Edits(d)
      PROVE  Left(sessions[id], sessions'[id])
  BY <1>2 DEF Edits, Left
<1>3. Left(sessions[id], sessions'[id])
  BY <1>1, <1>2, SessionSteps DEF Leaves
<1>4. PICK s \in Session : s = sessions[id]
  BY DEF TypeOK, Live
<1>5. PICK t : t = sessions'[id]
  OBVIOUS
<1>6. Left(s, t) /\ t # NoSession /\ t.owner # s.owner
  BY <1>3, <1>4, <1>5 DEF Live
<1>7. OnceIn(s)
  BY <1>4, SeatsAre DEF UniqueIn, OnceIn, Live
<1>8. /\ s.type = "owner-migration" /\ s.owner \notin UsersIn(t)
      /\ \E m \in DOMAIN s.members :
           /\ s.members[m].user = t.owner
           /\ \A n \in 1 .. m - 1 : s.members[n].user = s.owner
  BY <1>6, <1>7, LeftOwner
<1> QED BY <1>4, <1>5, <1>8 DEF Succession

\* What AccessGranted asks of a step.
Granted(u, id) ==
  Live(id) /\ ~MayRead(u, id) /\ MayRead(u, id)' =>
    \/ sessions'[id].privacy # sessions[id].privacy
    \/ (UsersIn(sessions'[id]) \ UsersIn(sessions[id])) \cap (Friends[u] \cup {u}) # {}
    \/ /\ Len(invitations') > Len(invitations)
       /\ Last(invitations').session = id /\ Last(invitations').to = u

\* Every step keeps to it: an update changes the privacy, a newcomer is a friend
\* or the player, or the invitation is new.
LEMMA AccessStep ==
  ASSUME TypeOK, SeatsSound, RequestOK, [Next]_vars, NEW u \in Users, NEW id \in SessionId
  PROVE  Granted(u, id)
<1> DEFINE Invited == HasActiveInvitation(id, u)
           Sent == /\ Len(invitations') > Len(invitations)
                   /\ Last(invitations').session = id /\ Last(invitations').to = u
<1>1. Invited' => Invited \/ Sent
  <2>1. CASE \E v, to \in Users, d \in SessionId : HandleSessionInvite(v, d, to)
    <3>1. PICK v \in Users, to \in Users, d \in SessionId : HandleSessionInvite(v, d, to)
      BY <2>1
    <3>2. PICK inv : inv = [session |-> d, to |-> to, used |-> FALSE,
                            inside |-> to \in UsersIn(sessions[d])]
      OBVIOUS
    <3>3. invitations' = Append(invitations, inv)
      BY <3>1, <3>2 DEF HandleSessionInvite
    <3>4. invitations \in Seq(Invitation) /\ inv \in Invitation
      BY <3>2 DEF TypeOK, Invitation
    <3>5. /\ invitations' \in Seq(Invitation) /\ Len(invitations') = Len(invitations) + 1
          /\ \A j \in 1 .. Len(invitations) : invitations'[j] = invitations[j]
          /\ invitations'[Len(invitations) + 1] = inv
      BY <3>3, <3>4, AppendProperties
    <3>6. /\ Len(invitations) \in Nat /\ DOMAIN invitations = 1 .. Len(invitations)
          /\ DOMAIN invitations' = 1 .. Len(invitations')
      BY <3>4, <3>5
    <3>7. Last(invitations') = inv /\ Len(invitations') > Len(invitations)
      BY <3>5, <3>6 DEF Last
    <3>8. ASSUME NEW i \in DOMAIN invitations', invitations'[i].to = u,
                 invitations'[i].session = id, ~invitations'[i].used
          PROVE  Invited \/ (inv.session = id /\ inv.to = u)
      <4>1. i \in DOMAIN invitations \/ i = Len(invitations) + 1
        BY <3>5, <3>6
      <4> QED BY <3>5, <3>6, <3>8, <4>1 DEF HasActiveInvitation
    <3> QED BY <3>7, <3>8 DEF HasActiveInvitation
  <2>2. CASE ~\E v, to \in Users, d \in SessionId : HandleSessionInvite(v, d, to)
    BY <2>2, InvitationsTyped DEF HasActiveInvitation
  <2> QED BY <2>1, <2>2
<1> HIDE DEF Invited, Sent
<1> SUFFICES ASSUME Live(id), ~MayRead(u, id), MayRead(u, id)',
                    sessions'[id].privacy = sessions[id].privacy, ~Sent
             PROVE  (UsersIn(sessions'[id]) \ UsersIn(sessions[id]))
                      \cap (Friends[u] \cup {u}) # {}
  BY DEF Granted, Sent
<1>2. ~Invited' /\ u \notin UsersIn(sessions[id])
      /\ Friends[u] \cap UsersIn(sessions[id]) = {} /\ sessions[id].privacy = "private"
  <2>1. ~Invited
    BY DEF MayRead, Invited
  <2> QED BY <1>1, <2>1 DEF MayRead, Live
<1>3. u \in UsersIn(sessions'[id]) \/ Friends[u] \cap UsersIn(sessions'[id]) # {}
  BY <1>2 DEF MayRead, Live, Invited
<1> QED BY <1>2, <1>3

-----------------------------------------------------------------------------
(* The theorems *)

\* What holds at every moment.
WInv == TypeOK /\ SeatsSound /\ RequestOK /\ JoiningUsesInvitations /\ OfflineOnlyIfLate

\* Initially, and after every step.
LEMMA WInvInductive == (Init => WInv) /\ (WInv /\ [Next]_vars => WInv')
<1>1. ASSUME Init
      PROVE  WInv
  <2>1. \A id \in SessionId : ~Live(id)
    BY <1>1 DEF Init, Live
  <2>2. DOMAIN invitations = {} /\ invitations \in Seq(Invitation)
    BY <1>1 DEF Init
  <2>3. TypeOK
    BY <1>1, <2>2, SessionConstants DEF Init, TypeOK, NoRequest, Invitation
  <2>4. RequestOK
    BY <1>1, <2>2 DEF Init, RequestOK, NoRequest
  <2>5. SeatsSound /\ JoiningUsesInvitations /\ OfflineOnlyIfLate
    BY <2>1, <2>2 DEF SeatsSound, JoiningUsesInvitations, OfflineOnlyIfLate
  <2> QED BY <2>3, <2>4, <2>5 DEF WInv
<1>2. WInv /\ [Next]_vars => WInv'
  BY RequestKept, InvitationsKept, LateKept DEF WInv
<1> QED BY <1>1, <1>2

\* The invariant of the specification.
LEMMA WInvHolds == Spec => []WInv
<1>1. Init => WInv
  BY WInvInductive
<1>2. WInv /\ [Next]_vars => WInv'
  BY WInvInductive
<1> QED BY <1>1, <1>2, PTL DEF Spec

\* Every variable has its type, and a session that is there has members: one
\* that the last has left is gone.
THEOREM WebTypes == Spec => []TypeOK
<1>1. WInv => TypeOK
  BY DEF WInv
<1> QED BY <1>1, WInvHolds, PTL

\* The owner of a session is one of its members, nobody is twice in a session or
\* in two with the same index, so the loops that stop at the first match miss
\* nothing (RemoveMemberApplyOwner, LeaveSessionAtIndex), and a member's open
\* invitations were sent to a member (MarkInvitationsUsedOnJoin).
THEOREM MembersAlwaysSound == Spec => []MembersSound
<1>1. WInv => MembersSound
  BY DEF WInv, MembersSound
<1> QED BY <1>1, WInvHolds, PTL

\* The purge of a disconnect (PurgeUserFromSessions) misses no session: whoever
\* is in one without being online was entered by a request after it.
THEOREM OnlyLatecomersStay == Spec => []OfflineOnlyIfLate
<1>1. WInv => OfflineOnlyIfLate
  BY DEF WInv
<1> QED BY <1>1, WInvHolds, PTL

\* A session changes hands only when its owner leaves it, and only if it is
\* owner-migration; the member longest in it takes over (RemoveMemberApplyOwner).
THEOREM OwnersSucceed == Spec => OwnerSuccession
<1>1. WInv /\ [Next]_vars => \A id \in SessionId : Succession(id)
  BY SuccessionStep DEF WInv
<1>2. WInv /\ [Next]_vars =>
        [\A id \in SessionId :
           Live(id) /\ Live(id)' /\ sessions'[id].owner # sessions[id].owner =>
             LET old == sessions[id].owner
                 members == sessions[id].members
             IN  /\ sessions[id].type = "owner-migration"
                 /\ old \notin UsersIn(sessions'[id])
                 /\ \E m \in DOMAIN members :
                      /\ members[m].user = sessions'[id].owner
                      /\ \A n \in 1 .. m - 1 : members[n].user = old]_vars
  BY <1>1 DEF Succession
<1> QED BY <1>2, WInvHolds, PTL DEF Spec, OwnerSuccession

\* A private session opens to a player only by joining it, by a friend's joining
\* it, by an invitation to it, or by an update of its privacy (HandleSessionGet
\* and what changes the state it reads).
THEOREM AccessOnlyGranted == Spec => AccessGranted
<1>1. WInv /\ [Next]_vars => \A u \in Users, id \in SessionId : Granted(u, id)
  BY AccessStep DEF WInv
<1>2. WInv /\ [Next]_vars =>
        [\A u \in Users, id \in SessionId :
           Live(id) /\ ~MayRead(u, id) /\ MayRead(u, id)' =>
             \/ sessions'[id].privacy # sessions[id].privacy
             \/ (UsersIn(sessions'[id]) \ UsersIn(sessions[id]))
                  \cap (Friends[u] \cup {u}) # {}
             \/ /\ Len(invitations') > Len(invitations)
                /\ Last(invitations').session = id /\ Last(invitations').to = u]_vars
  BY <1>1 DEF Granted
<1> QED BY <1>2, WInvHolds, PTL DEF Spec, AccessGranted
=============================================================================
