------------------------- MODULE FriendPresenceProofs -------------------------
(***************************************************************************)
(* Theorems about FriendPresence, for every number of players and of       *)
(* threads of the two APIs.  Types, rows and audiences are proved for any  *)
(* overlap of the handlers; that all copies of a friendship agree when     *)
(* nothing is under way, for handlers that run one after the other.        *)
(***************************************************************************)
EXTENDS FriendPresence, FiniteSetTheorems, SequenceTheorems, TLAPS

-----------------------------------------------------------------------------
(* Types *)

Commands == {"AddFriend", "RemoveFriend", "AddBlock", "RemoveBlock", "MakeFriends"}
Job == [op : Commands \cup {"none", "login"},
        step : {"read", "register", "announce", "write", "apply", "notify"},
        a : SUBSET Users, b : SUBSET Users, mine : SUBSET Flags, theirs : SUBSET Flags,
        wasFriend : BOOLEAN, online : SUBSET Users, to : SUBSET Users]
Notice == [type : {"new", "lost", "status"}, about : Users, status : Shown]

\* TypeOK without the bound on the queues, and with what is in them.
Types ==
  /\ rel \in [Users -> [Users -> SUBSET Flags]]
  /\ sess \in [Users -> {"off", "held", "on"}]
  /\ clients \in [Users -> Entry]
  /\ job \in [Workers -> Job]
  /\ farewell \in [Users -> SUBSET Users]
  /\ queue \in [Users -> Seq(Notice)]
  /\ view \in [Users -> [Users -> Shown]]
  /\ plain \in BOOLEAN

\* A row never holds a block and a friend flag.
RowOK(mine, theirs) == "B" \in mine \cup theirs => "F" \notin mine \cup theirs

\* What a thread has in hand fits the step it is at: the registration of its own
\* player, or a row of two players that it may write.
JobOK(j, w) ==
  /\ j.step = "read" => j.op = "none" /\ j.to = {} /\ j.a = {}
  /\ j.step \in {"register", "announce"} => j.op = "login" /\ w \in Users /\ w \notin j.to
  /\ j.step \in {"write", "apply", "notify"} =>
       /\ j.op \in Commands /\ RowOK(j.mine, j.theirs)
       /\ \E a, b \in Users : a # b /\ j.a = {a} /\ j.b = {b}

\* Nobody stands in a relation to themselves, and every row and job is sound.
Sound ==
  /\ \A u \in Users : rel[u][u] = {} /\ u \notin clients[u].friends
  /\ \A a, b \in Users : RowOK(rel[a][b], rel[b][a])
  /\ \A w \in Workers : JobOK(job[w], w)

-----------------------------------------------------------------------------
(* The operators *)

\* The rows that an allowed command would write.
LEMMA NewRowSound ==
  ASSUME NEW op \in Commands, NEW mine \in SUBSET Flags, NEW theirs \in SUBSET Flags,
         Allowed(op, mine, theirs), RowOK(mine, theirs)
  PROVE  /\ NewRow(op, mine, theirs)[1] \in SUBSET Flags
         /\ NewRow(op, mine, theirs)[2] \in SUBSET Flags
         /\ RowOK(NewRow(op, mine, theirs)[1], NewRow(op, mine, theirs)[2])
<1>1. CASE op = "AddFriend"
  BY <1>1 DEF NewRow, Allowed, MayAdd, RowOK, Flags
<1>2. CASE op = "RemoveFriend"
  BY <1>2 DEF NewRow, Allowed, RowOK, Flags
<1>3. CASE op = "AddBlock"
  BY <1>3 DEF NewRow, Allowed, RowOK, Flags
<1>4. CASE op = "RemoveBlock"
  BY <1>4 DEF NewRow, Allowed, RowOK, Flags
<1>5. CASE op = "MakeFriends"
  BY <1>5 DEF NewRow, Allowed, RowOK, Flags
<1> QED BY <1>1, <1>2, <1>3, <1>4, <1>5 DEF Commands

\* Posting keeps the queues' type, and adds to the queues of its targets only.
LEMMA PostTypes ==
  ASSUME NEW q \in [Users -> Seq(Notice)], NEW targets, NEW m \in Notice
  PROVE  /\ Post(q, targets, m) \in [Users -> Seq(Notice)]
         /\ \A u \in Users :
              /\ u \in targets => /\ Post(q, targets, m)[u] = Append(q[u], m)
                                  /\ Len(Post(q, targets, m)[u]) = Len(q[u]) + 1
              /\ u \notin targets => Post(q, targets, m)[u] = q[u]
<1>1. \A u \in Users : Append(q[u], m) \in Seq(Notice) /\ Len(Append(q[u], m)) = Len(q[u]) + 1
  OBVIOUS
<1> QED BY <1>1 DEF Post

\* A message is a notice, and what is shown of it is a status.
LEMMA MessageTypes ==
  ASSUME NEW type \in {"new", "lost", "status"}, NEW v \in Users, NEW status \in Shown
  PROVE  /\ Message(type, v, status) \in Notice
         /\ Message(type, v, status).type = type /\ Message(type, v, status).about = v
         /\ Message(type, v, status).status = status
BY DEF Message, Notice

\* What a client shows once it has received a notice.
LEMMA ReceivedShown ==
  ASSUME NEW shown \in Shown, NEW m \in Notice
  PROVE  Received(shown, m) \in Shown
<1> m.status \in Shown /\ m.type \in {"new", "lost", "status"}
  BY DEF Notice
<1> QED BY DEF Received, Shown

\* The row of a and b is the one that thread w has computed, the others are as
\* they were.
Written(w, a, b) ==
  /\ rel' \in [Users -> [Users -> SUBSET Flags]]
  /\ rel'[a][b] = job[w].mine /\ rel'[b][a] = job[w].theirs
  /\ \A c, d \in Users : {c, d} # {a, b} => rel'[c][d] = rel[c][d]

\* The rows a write leaves.
LEMMA WrittenRows ==
  ASSUME Types, NEW w \in Workers, NEW a \in Users, NEW b \in Users, a # b,
         WriteRelStatus(w, a, b)
  PROVE  Written(w, a, b)
<1>1. rel' = [rel EXCEPT ![a][b] = job[w].mine, ![b][a] = job[w].theirs]
  BY DEF WriteRelStatus
<1>2. job[w].mine \in SUBSET Flags /\ job[w].theirs \in SUBSET Flags
  BY DEF Types, Job
<1>3. PICK mine \in SUBSET Flags, theirs \in SUBSET Flags :
        mine = job[w].mine /\ theirs = job[w].theirs
  BY <1>2
<1>4. rel' = [rel EXCEPT ![a] = [rel[a] EXCEPT ![b] = mine],
                         ![b] = [rel[b] EXCEPT ![a] = theirs]]
  BY <1>1, <1>3 DEF Types
<1>5. \A c \in Users \ {a, b} : rel'[c] = rel[c]
  BY <1>4 DEF Types
<1>6. /\ rel'[a] = [rel[a] EXCEPT ![b] = mine]
      /\ rel'[b] = [rel[b] EXCEPT ![a] = theirs]
  BY <1>4 DEF Types
<1>7. /\ rel'[a][b] = mine /\ rel'[b][a] = theirs
      /\ \A d \in Users \ {b} : rel'[a][d] = rel[a][d]
      /\ \A d \in Users \ {a} : rel'[b][d] = rel[b][d]
  BY <1>6 DEF Types
<1>8. rel' \in [Users -> [Users -> SUBSET Flags]]
  BY <1>4 DEF Types
<1>9. ASSUME NEW c \in Users, NEW d \in Users, {c, d} # {a, b}
      PROVE  rel'[c][d] = rel[c][d]
  BY <1>5, <1>7, <1>9
<1> QED BY <1>3, <1>7, <1>8, <1>9 DEF Written

-----------------------------------------------------------------------------
(* Who has been friends with whom *)

\* A command about to enter two players in each other's lists has found that they
\* have met, or is about to make them friends.
AddsOK(j, known) ==
  \A a, b \in Users : j.a = {a} /\ j.b = {b} =>
    /\ j.step = "write" /\ j.op = "MakeFriends" => "F" \in j.mine /\ "F" \in j.theirs
    /\ j.step = "apply" /\ j.op \in {"AddFriend", "MakeFriends"} => {a, b} \in known

\* Those whom a player's coming and going is told, or about to be told.
Audience(u) ==
  clients[u].friends \cup farewell[u] \cup (IF job[u].op = "login" THEN job[u].to ELSE {})

\* All who are friends, or are told of one another, have met.
Acquainted ==
  /\ \A a, b \in Users : a # b /\ MutualIn(rel, a, b) => {a, b} \in met
  /\ \A w \in Workers : AddsOK(job[w], met)
  /\ \A u \in Users : \A v \in Audience(u) : {u, v} \in met

\* What holds at every moment, whatever overlaps.
RInv == Types /\ Sound /\ Acquainted

\* One that is idle has nothing in hand.
LEMMA NoJobTypes ==
  /\ NoJob \in Job /\ \A w \in Workers : JobOK(NoJob, w)
  /\ NoJob.op = "none" /\ NoJob.step = "read" /\ NoJob.to = {} /\ NoJob.a = {}
BY DEF NoJob, Job, Commands, Flags, JobOK

\* Acquainted is kept when audiences gain only those who have met.
LEMMA AcquaintedKept ==
  ASSUME RInv, rel' = rel, met' = met,
         \A w \in Workers : job'[w] = job[w] \/ AddsOK(job'[w], met),
         \A u \in Users : \A v \in Audience(u)' : v \in Audience(u) \/ {u, v} \in met
  PROVE  Acquainted'
<1>1. \A w \in Workers : AddsOK(job'[w], met)
  BY DEF RInv, Acquainted
<1>2. \A u \in Users : \A v \in Audience(u)' : {u, v} \in met
  BY DEF RInv, Acquainted
<1>3. \A a, b \in Users : a # b /\ MutualIn(rel, a, b) => {a, b} \in met
  BY DEF RInv, Acquainted
<1> QED BY <1>1, <1>2, <1>3 DEF Acquainted, MutualIn

\* A step that changes neither rows, jobs, entries nor farewells nor who has met
\* keeps RInv if the rest keep their types.
LEMMA OthersKeep ==
  ASSUME RInv, UNCHANGED <<rel, clients, job, farewell, met>>,
         sess' \in [Users -> {"off", "held", "on"}],
         queue' \in [Users -> Seq(Notice)], view' \in [Users -> [Users -> Shown]],
         plain' \in BOOLEAN
  PROVE  RInv'
<1>1. Types'
  BY DEF RInv, Types
<1>2. Sound'
  BY DEF RInv, Sound
<1>3. Acquainted'
  BY DEF RInv, Acquainted, Audience, MutualIn
<1> QED BY <1>1, <1>2, <1>3 DEF RInv

\* The flag that says whether things were plain is one after every start.
LEMMA StartsPlain ==
  ASSUME RInv, NEW w, NEW ordinary \in BOOLEAN, Starts(w, ordinary)
  PROVE  plain' \in BOOLEAN
BY DEF RInv, Types, Starts

\* A login makes an entry without friends.
LEMMA CmdLoginKeeps ==
  ASSUME RInv, NEW u \in Users, CmdLogin(u)
  PROVE  RInv'
<1>1. PICK hidden \in BOOLEAN :
        /\ Starts(u, NobodyHeld /\ ~hidden)
        /\ clients' = [clients EXCEPT ![u] = [NoEntry EXCEPT !.hidden = hidden]]
  BY DEF CmdLogin
<1>2. PICK entry \in Entry : entry = [NoEntry EXCEPT !.hidden = hidden] /\ entry.friends = {}
  <2>1. NoEntry \in Entry /\ NoEntry.friends = {}
    BY DEF NoEntry, Entry
  <2>2. PICK e \in Entry : e = NoEntry /\ e.friends = {}
    BY <2>1
  <2>3. [e EXCEPT !.hidden = hidden] \in Entry /\ [e EXCEPT !.hidden = hidden].friends = {}
    BY <2>2 DEF Entry
  <2> QED BY <2>2, <2>3
<1>3. /\ clients' \in [Users -> Entry]
      /\ \A v \in Users : clients'[v].friends \subseteq clients[v].friends
  BY <1>1, <1>2 DEF RInv, Types
<1>4. view' \in [Users -> [Users -> Shown]]
  <2> DEFINE shown == [v \in Users |->
               IF v \notin MutualFriends(u) THEN "none"
               ELSE IF v \in Online /\ ~clients[v].hidden THEN "online" ELSE "offline"]
  <2>1. shown \in [Users -> Shown]
    BY DEF Shown
  <2> HIDE DEF shown
  <2>2. view' = [view EXCEPT ![u] = shown]
    BY DEF CmdLogin, shown
  <2> QED BY <2>1, <2>2 DEF RInv, Types
<1>5. sess' \in [Users -> {"off", "held", "on"}]
  BY DEF CmdLogin, RInv, Types
<1>6. plain' \in BOOLEAN
  BY <1>1 DEF Starts, RInv, Types
<1>7. Types'
  BY <1>3, <1>4, <1>5, <1>6 DEF RInv, Types, CmdLogin
<1>8. Sound'
  BY <1>3 DEF RInv, Sound, CmdLogin
<1>9. Acquainted'
  BY <1>3, AcquaintedKept DEF Audience, CmdLogin
<1> QED BY <1>7, <1>8, <1>9 DEF RInv

\* The relationships that are read are those of players who have met.
LEMMA RegisterReadKeeps ==
  ASSUME RInv, NEW u \in Users, RegisterRead(u)
  PROVE  RInv'
<1>1. PICK j : j = [NoJob EXCEPT !.op = "login", !.step = "register", !.to = MutualFriends(u)]
  OBVIOUS
<1>2. /\ j \in Job /\ j.op = "login" /\ j.step = "register" /\ j.a = {} /\ j.b = {}
      /\ j.to = MutualFriends(u) /\ JobOK(j, u)
  BY <1>1 DEF NoJob, Job, Commands, Flags, MutualFriends, JobOK
<1>3. u \in Workers
  BY DEF Workers
<1>4. job' = [job EXCEPT ![u] = j]
  BY <1>1 DEF RegisterRead
<1>5. /\ job' \in [Workers -> Job] /\ job'[u] = j
      /\ \A w \in Workers \ {u} : job'[w] = job[w]
  BY <1>2, <1>3, <1>4 DEF RInv, Types
<1>6. plain' \in BOOLEAN
  BY StartsPlain DEF RegisterRead
<1>7. Types'
  BY <1>5, <1>6 DEF RInv, Types, RegisterRead
<1>8. Sound'
  BY <1>2, <1>5 DEF RInv, Sound, RegisterRead
<1>9. Acquainted'
  <2>1. \A v \in MutualFriends(u) : {u, v} \in met
    BY DEF RInv, Acquainted, MutualFriends
  <2>2. AddsOK(j, met)
    BY <1>2 DEF AddsOK
  <2>3. \A w \in Workers : job'[w] = job[w] \/ AddsOK(job'[w], met)
    BY <1>5, <2>2
  <2>4. \A v \in Users : \A x \in Audience(v)' : x \in Audience(v) \/ {v, x} \in met
    BY <1>2, <1>5, <2>1 DEF Audience, RegisterRead, Workers
  <2> QED BY <2>3, <2>4, AcquaintedKept DEF RegisterRead
<1> QED BY <1>7, <1>8, <1>9 DEF RInv

\* RegisterOnline enters the player in the lists of those in its own, who have
\* met the player.
LEMMA RegisterOnlineKeeps ==
  ASSUME RInv, NEW u \in Users, RegisterOnline(u)
  PROVE  RInv'
<1>1. u \in Workers /\ job[u] \in Job /\ JobOK(job[u], u)
  BY DEF Workers, RInv, Types, Sound
<1>2. PICK friends \in SUBSET Users : friends = job[u].to /\ u \notin friends
  BY <1>1 DEF RegisterOnline, JobOK, Job
<1>3. PICK j : j = [job[u] EXCEPT !.step = "announce", !.to = friends \cap Online]
  OBVIOUS
<1>4. /\ j \in Job /\ j.op = "login" /\ j.step = "announce" /\ j.to = friends \cap Online
      /\ JobOK(j, u)
  BY <1>1, <1>2, <1>3 DEF RegisterOnline, Job, JobOK, Online
<1>5. job' = [job EXCEPT ![u] = j]
  BY <1>1, <1>2, <1>3 DEF RegisterOnline, RInv, Types
<1>6. /\ job' \in [Workers -> Job] /\ job'[u] = j
      /\ \A w \in Workers \ {u} : job'[w] = job[w]
  BY <1>1, <1>4, <1>5 DEF RInv, Types
<1>7. ASSUME NEW v \in Users
      PROVE  /\ clients'[v] \in Entry
             /\ v = u => clients'[v].friends = friends
             /\ v # u => \/ clients'[v].friends = clients[v].friends
                         \/ v \in friends /\ clients'[v].friends = clients[v].friends \cup {u}
  <2>1. clients[v] \in Entry /\ clients[u] \in Entry
    BY DEF RInv, Types
  <2>2. clients'[v] =
          IF v = u THEN [online |-> TRUE, hidden |-> clients[u].hidden, friends |-> friends]
          ELSE IF v \in friends /\ clients[v].online
               THEN [clients[v] EXCEPT !.friends = @ \cup {u}] ELSE clients[v]
    BY <1>2 DEF RegisterOnline
  <2> QED BY <2>1, <2>2 DEF Entry
<1>8. clients' \in [Users -> Entry]
  <2>1. clients' = [v \in Users |-> clients'[v]]
    BY DEF RegisterOnline
  <2> QED BY <1>7, <2>1
<1>9. Types'
  BY <1>6, <1>8 DEF RInv, Types, RegisterOnline
<1>10. Sound'
  BY <1>2, <1>4, <1>6, <1>7 DEF RInv, Sound, RegisterOnline
<1>11. \A v \in friends : {u, v} \in met /\ {v, u} = {u, v}
  BY <1>1, <1>2 DEF RInv, Acquainted, Audience, RegisterOnline
<1>12. ASSUME NEW v \in Users, NEW x \in Audience(v)'
       PROVE  x \in Audience(v) \/ {v, x} \in met
  <2>1. CASE v = u
    BY <1>4, <1>6, <1>7, <1>11, <2>1 DEF Audience, RegisterOnline
  <2>2. CASE v # u
    <3>1. job'[v] = job[v] /\ farewell'[v] = farewell[v]
      BY <1>6, <2>2 DEF Workers, RegisterOnline
    <3> QED BY <1>7, <1>11, <2>2, <3>1 DEF Audience
  <2> QED BY <2>1, <2>2
<1>13. Acquainted'
  <2>1. AddsOK(j, met)
    BY <1>4 DEF AddsOK
  <2>2. \A w \in Workers : job'[w] = job[w] \/ AddsOK(job'[w], met)
    BY <1>6, <2>1
  <2> QED BY <1>12, <2>2, AcquaintedKept DEF RegisterOnline
<1> QED BY <1>9, <1>10, <1>13 DEF RInv

\* A job that ends: nothing in it is left to look after.
LEMMA JobEnds ==
  ASSUME RInv, NEW w \in Workers, job' = [job EXCEPT ![w] = NoJob],
         UNCHANGED <<rel, sess, clients, farewell, met, plain>>,
         queue' \in [Users -> Seq(Notice)], view' \in [Users -> [Users -> Shown]]
  PROVE  RInv'
<1>1. /\ job' \in [Workers -> Job] /\ job'[w] = NoJob
      /\ \A x \in Workers \ {w} : job'[x] = job[x]
  BY NoJobTypes DEF RInv, Types
<1>2. Types'
  BY <1>1 DEF RInv, Types
<1>3. Sound'
  BY <1>1, NoJobTypes DEF RInv, Sound
<1>4. \A v \in Users : Audience(v)' \subseteq Audience(v)
  BY <1>1, NoJobTypes DEF Audience, Workers
<1>5. Acquainted'
  <2>1. AddsOK(NoJob, met)
    BY NoJobTypes DEF AddsOK
  <2>2. \A x \in Workers : job'[x] = job[x] \/ AddsOK(job'[x], met)
    BY <1>1, <2>1
  <2> QED BY <1>4, <2>2, AcquaintedKept
<1> QED BY <1>2, <1>3, <1>5 DEF RInv

\* An announcement ends the registration.
LEMMA AnnounceOnlineKeeps ==
  ASSUME RInv, NEW u \in Users, AnnounceOnline(u)
  PROVE  RInv'
<1>1. Message("status", u, "online") \in Notice
  BY MessageTypes DEF Shown
<1>2. queue' \in [Users -> Seq(Notice)]
  <2>1. queue \in [Users -> Seq(Notice)]
    BY DEF RInv, Types
  <2>2. queue' = queue \/ queue' = Post(queue, job[u].to, Message("status", u, "online"))
    BY DEF AnnounceOnline
  <2> QED BY <1>1, <2>1, <2>2, PostTypes
<1> QED BY <1>2, JobEnds DEF AnnounceOnline, RInv, Types, Workers

\* What a player's end of session takes out of the jobs of others leaves them sound.
LEMMA ForgottenTarget ==
  ASSUME NEW j \in Job, NEW w, JobOK(j, w), NEW u \in Users
  PROVE  LET k == [j EXCEPT !.to = IF j.step = "register" THEN @ ELSE @ \ {u}] IN
         /\ k \in Job /\ JobOK(k, w) /\ k.to \subseteq j.to
         /\ k.op = j.op /\ k.step = j.step /\ k.a = j.a /\ k.b = j.b
         /\ k.mine = j.mine /\ k.theirs = j.theirs
<1> DEFINE to == IF j.step = "register" THEN j.to ELSE j.to \ {u}
<1>1. PICK k : k = [j EXCEPT !.to = to]
  OBVIOUS
<1>2. to \subseteq j.to /\ j.to \subseteq Users
  BY DEF Job
<1> HIDE DEF to
<1>3. /\ k \in Job /\ k.to \subseteq j.to
      /\ k.op = j.op /\ k.step = j.step /\ k.a = j.a /\ k.b = j.b
      /\ k.mine = j.mine /\ k.theirs = j.theirs
  BY <1>1, <1>2 DEF Job
<1>4. JobOK(k, w)
  BY <1>3 DEF JobOK
<1> QED BY <1>1, <1>3, <1>4 DEF to

\* CleanupOnDisconnect tells those in the list the entry had, who have met the
\* player.
LEMMA CleanupKeeps ==
  ASSUME RInv, NEW u \in Users, CleanupOnDisconnect(u)
  PROVE  RInv'
<1>1. /\ job' = [w \in Workers |-> [job[w] EXCEPT !.to =
                   IF job[w].step = "register" THEN @ ELSE @ \ {u}]]
      /\ clients' = [clients EXCEPT ![u] = NoEntry]
      /\ sess' = [sess EXCEPT ![u] = "off"] /\ queue' = [queue EXCEPT ![u] = <<>>]
      /\ view' = [view EXCEPT ![u] = [v \in Users |-> "none"]]
      /\ UNCHANGED <<rel, met>>
  BY DEF CleanupOnDisconnect
<1>2. PICK told \in SUBSET clients[u].friends :
        farewell' = [v \in Users |-> IF v = u THEN told ELSE farewell[v] \ {u}]
  BY DEF CleanupOnDisconnect
<1>3. clients[u].friends \subseteq Users /\ NoEntry \in Entry /\ NoEntry.friends = {}
  BY DEF RInv, Types, Entry, NoEntry
<1>4. ASSUME NEW w \in Workers
      PROVE  /\ job'[w] \in Job /\ JobOK(job'[w], w) /\ job'[w].to \subseteq job[w].to
             /\ job'[w].op = job[w].op /\ job'[w].step = job[w].step
             /\ job'[w].a = job[w].a /\ job'[w].b = job[w].b
             /\ job'[w].mine = job[w].mine /\ job'[w].theirs = job[w].theirs
  <2>1. PICK j \in Job : j = job[w] /\ JobOK(j, w)
    BY DEF RInv, Types, Sound
  <2>2. PICK k : k = [j EXCEPT !.to = IF j.step = "register" THEN @ ELSE @ \ {u}]
    OBVIOUS
  <2>3. /\ k \in Job /\ JobOK(k, w) /\ k.to \subseteq j.to
        /\ k.op = j.op /\ k.step = j.step /\ k.a = j.a /\ k.b = j.b
        /\ k.mine = j.mine /\ k.theirs = j.theirs
    BY <2>1, <2>2, ForgottenTarget
  <2>4. job'[w] = k
    BY <1>1, <2>1, <2>2
  <2> QED BY <2>1, <2>3, <2>4
<1>5. /\ clients' \in [Users -> Entry]
      /\ \A v \in Users : clients'[v].friends \subseteq clients[v].friends
  BY <1>1, <1>3 DEF RInv, Types
<1>6. Types'
  <2>1. job' \in [Workers -> Job]
    BY <1>1, <1>4
  <2>2. farewell' \in [Users -> SUBSET Users]
    BY <1>2, <1>3 DEF RInv, Types
  <2>3. view' \in [Users -> [Users -> Shown]]
    BY <1>1 DEF RInv, Types, Shown
  <2>4. queue' \in [Users -> Seq(Notice)] /\ sess' \in [Users -> {"off", "held", "on"}]
    BY <1>1 DEF RInv, Types
  <2>5. plain' \in BOOLEAN
    BY DEF RInv, Types, CleanupOnDisconnect, Starts
  <2> QED BY <1>1, <1>5, <2>1, <2>2, <2>3, <2>4, <2>5 DEF RInv, Types
<1>7. Sound'
  BY <1>1, <1>4, <1>5 DEF RInv, Sound
<1>8. Acquainted'
  <2>1. \A w \in Workers : AddsOK(job'[w], met)
    BY <1>4 DEF RInv, Acquainted, AddsOK
  <2>2. ASSUME NEW v \in Users, NEW x \in Audience(v)'
        PROVE  x \in Audience(v)
    <3>1. farewell'[v] \subseteq clients[v].friends \cup farewell[v]
      BY <1>2
    <3>2. job'[v].to \subseteq job[v].to /\ job'[v].op = job[v].op
      BY <1>4 DEF Workers
    <3> QED BY <1>5, <2>2, <3>1, <3>2 DEF Audience
  <2> QED BY <1>1, <2>1, <2>2, AcquaintedKept
<1> QED BY <1>6, <1>7, <1>8 DEF RInv

\* The farewells of one player are those that are forgotten.
LEMMA AnnounceOfflineKeeps ==
  ASSUME RInv, NEW u \in Users, AnnounceOffline(u)
  PROVE  RInv'
<1>1. queue' \in [Users -> Seq(Notice)]
  <2>1. Message("status", u, "offline") \in Notice
    BY MessageTypes DEF Shown
  <2> QED BY <2>1, PostTypes DEF AnnounceOffline, RInv, Types
<1>2. /\ farewell' \in [Users -> SUBSET Users]
      /\ \A v \in Users : farewell'[v] \subseteq farewell[v]
  BY DEF AnnounceOffline, RInv, Types
<1>3. Types'
  BY <1>1, <1>2 DEF RInv, Types, AnnounceOffline
<1>4. Sound'
  BY DEF RInv, Sound, AnnounceOffline
<1>5. Acquainted'
  <2>1. \A v \in Users : Audience(v)' \subseteq Audience(v)
    BY <1>2 DEF Audience, AnnounceOffline
  <2> QED BY <2>1, AcquaintedKept DEF AnnounceOffline
<1> QED BY <1>3, <1>4, <1>5 DEF RInv

\* The setting touches neither rows nor lists.
LEMMA CmdSetAppearOfflineKeeps ==
  ASSUME RInv, NEW u \in Users, NEW hidden \in BOOLEAN, CmdSetAppearOffline(u, hidden)
  PROVE  RInv'
<1>1. PICK entry : entry = [clients[u] EXCEPT !.hidden = hidden]
  OBVIOUS
<1>2. entry \in Entry /\ entry.friends = clients[u].friends
  <2>1. PICK e \in Entry : e = clients[u]
    BY DEF RInv, Types
  <2>2. entry = [e EXCEPT !.hidden = hidden]
    BY <1>1, <2>1
  <2> QED BY <2>1, <2>2 DEF Entry
<1>3. clients' = [clients EXCEPT ![u] = entry]
  BY <1>1 DEF CmdSetAppearOffline, RInv, Types
<1>4. /\ clients' \in [Users -> Entry]
      /\ \A v \in Users : clients'[v].friends = clients[v].friends
  BY <1>2, <1>3 DEF RInv, Types
<1>5. Types'
  BY <1>4 DEF RInv, Types, CmdSetAppearOffline, Starts
<1>6. Sound'
  BY <1>4 DEF RInv, Sound, CmdSetAppearOffline
<1>7. Acquainted'
  BY <1>4, AcquaintedKept DEF Audience, CmdSetAppearOffline
<1> QED BY <1>5, <1>6, <1>7 DEF RInv

\* A delivery changes what is shown and what is queued.
LEMMA DeliverKeeps ==
  ASSUME RInv, NEW u \in Users, Deliver(u)
  PROVE  RInv'
<1>1. queue[u] \in Seq(Notice) /\ queue[u] # <<>>
  BY DEF Deliver, RInv, Types
<1>2. Head(queue[u]) \in Notice /\ Tail(queue[u]) \in Seq(Notice)
  BY <1>1, HeadTailProperties
<1>3. PICK m \in Notice : m = Head(queue[u])
  BY <1>2
<1>4. m.about \in Users
  BY DEF Notice
<1>5. view[u][m.about] \in Shown
  BY <1>4 DEF RInv, Types
<1>6. PICK shown \in Shown : shown = Received(view[u][m.about], m)
  BY <1>5, ReceivedShown
<1>7. view' = [view EXCEPT ![u] = [view[u] EXCEPT ![m.about] = shown]]
  BY <1>3, <1>4, <1>6 DEF Deliver, RInv, Types
<1>8. view' \in [Users -> [Users -> Shown]]
  BY <1>4, <1>7 DEF RInv, Types
<1>9. queue' \in [Users -> Seq(Notice)]
  BY <1>2 DEF Deliver, RInv, Types
<1> QED BY <1>8, <1>9, OthersKeep DEF Deliver, RInv, Types

\* What a command reads, refuses and is about to write.
LEMMA ReadKeeps ==
  ASSUME RInv, NEW w \in Workers, NEW op \in Commands, NEW a \in Users, NEW b \in Users,
         Read(w, op, a, b)
  PROVE  RInv'
<1>1. PICK mine \in SUBSET Flags, theirs \in SUBSET Flags :
        mine = rel[a][b] /\ theirs = rel[b][a] /\ RowOK(mine, theirs)
  BY DEF RInv, Types, Sound
<1>2. PICK m \in SUBSET Flags, t \in SUBSET Flags :
        m = NewRow(op, mine, theirs)[1] /\ t = NewRow(op, mine, theirs)[2] /\ RowOK(m, t)
  BY <1>1, NewRowSound DEF Read
<1>3. PICK wasFriend \in BOOLEAN : wasFriend = MutualIn(rel, a, b)
  BY DEF MutualIn
<1>4. PICK j : j = [op |-> op, step |-> "write", a |-> {a}, b |-> {b}, mine |-> m,
                    theirs |-> t, wasFriend |-> wasFriend, online |-> {}, to |-> {}]
  OBVIOUS
<1>5. /\ j \in Job /\ j.op = op /\ j.step = "write" /\ j.a = {a} /\ j.b = {b}
      /\ j.mine = m /\ j.theirs = t /\ j.to = {}
  BY <1>4 DEF Job
<1>6. job' = [job EXCEPT ![w] = j]
  BY <1>1, <1>2, <1>3, <1>4 DEF Read
<1>7. /\ job' \in [Workers -> Job] /\ job'[w] = j
      /\ \A x \in Workers \ {w} : job'[x] = job[x]
  BY <1>5, <1>6 DEF RInv, Types
<1>8. JobOK(j, w)
  BY <1>2, <1>5 DEF JobOK, Read
<1>9. AddsOK(j, met)
  <2>1. op = "MakeFriends" => "F" \in m /\ "F" \in t
    BY <1>2 DEF NewRow
  <2> QED BY <1>5, <2>1 DEF AddsOK
<1>10. Types'
  BY <1>7 DEF RInv, Types, Read, Starts
<1>11. Sound'
  BY <1>7, <1>8 DEF RInv, Sound, Read
<1>12. Acquainted'
  <2>1. \A x \in Workers : job'[x] = job[x] \/ AddsOK(job'[x], met)
    BY <1>7, <1>9
  <2>2. \A v \in Users : Audience(v)' \subseteq Audience(v)
    BY <1>5, <1>7 DEF Audience, Read, Workers, Commands
  <2> QED BY <2>1, <2>2, AcquaintedKept DEF Read
<1> QED BY <1>10, <1>11, <1>12 DEF RInv

\* A write replaces a row by a sound one, whatever happened since it was read.
LEMMA WriteKeeps ==
  ASSUME RInv, NEW w \in Workers, NEW a \in Users, NEW b \in Users, WriteRelStatus(w, a, b)
  PROVE  RInv'
<1>1. PICK j \in Job : j = job[w] /\ JobOK(j, w) /\ AddsOK(j, met)
  BY DEF RInv, Types, Sound, Acquainted
<1>2. /\ j.step = "write" /\ j.a = {a} /\ j.b = {b} /\ a # b
      /\ j.op \in Commands /\ RowOK(j.mine, j.theirs)
  BY <1>1 DEF WriteRelStatus, JobOK
<1>3. /\ rel' \in [Users -> [Users -> SUBSET Flags]]
      /\ rel'[a][b] = j.mine /\ rel'[b][a] = j.theirs
      /\ \A c, d \in Users : {c, d} # {a, b} => rel'[c][d] = rel[c][d]
  <2>1. Types
    BY DEF RInv
  <2>2. a # b
    BY <1>2
  <2>3. Written(w, a, b)
    BY <2>1, <2>2, WrittenRows
  <2> QED BY <1>1, <2>3 DEF Written
<1> DEFINE mutual == "F" \in j.mine /\ "F" \in j.theirs
<1>4. met' = IF mutual THEN met \cup {{a, b}} ELSE met
  BY <1>1 DEF WriteRelStatus
<1>5. PICK k : k = [j EXCEPT !.step = "apply"]
  OBVIOUS
<1>6. /\ k \in Job /\ k.step = "apply" /\ k.op = j.op /\ k.a = j.a /\ k.b = j.b
      /\ k.mine = j.mine /\ k.theirs = j.theirs /\ k.to = j.to
  BY <1>5 DEF Job
<1>7. PICK l : l = job'[w] /\ (l = NoJob \/ (l = k /\
        \/ j.op \in {"RemoveFriend", "MakeFriends", "AddBlock"}
        \/ j.op = "AddFriend" /\ mutual))
  <2>1. job' = [job EXCEPT ![w] =
          IF \/ j.op \in {"RemoveFriend", "MakeFriends"}
             \/ j.op = "AddFriend" /\ mutual
             \/ j.op = "AddBlock" /\ j.wasFriend
          THEN k ELSE NoJob]
    BY <1>1, <1>5 DEF WriteRelStatus, RInv, Types
  <2> QED BY <2>1 DEF RInv, Types
<1>8. /\ job' \in [Workers -> Job] /\ job'[w] = l
      /\ \A x \in Workers \ {w} : job'[x] = job[x]
  <2>1. l \in Job
    BY <1>6, <1>7, NoJobTypes
  <2>2. \E new : job' = [job EXCEPT ![w] = new]
    BY DEF WriteRelStatus
  <2>3. PICK new : job' = [job EXCEPT ![w] = new]
    BY <2>2
  <2>4. new = l
    BY <1>7, <2>3 DEF RInv, Types
  <2> QED BY <2>1, <2>3, <2>4 DEF RInv, Types
<1>9. Types'
  BY <1>3, <1>8 DEF RInv, Types, WriteRelStatus
<1>10. JobOK(l, w)
  BY <1>1, <1>2, <1>6, <1>7, NoJobTypes DEF JobOK
<1>11. Sound'
  <2>1. \A c, d \in Users : RowOK(rel'[c][d], rel'[d][c])
    <3> SUFFICES ASSUME NEW c \in Users, NEW d \in Users
                 PROVE  RowOK(rel'[c][d], rel'[d][c])
      OBVIOUS
    <3>1. CASE {c, d} # {a, b}
      <4>1. rel'[c][d] = rel[c][d] /\ rel'[d][c] = rel[d][c]
        <5>1. {d, c} # {a, b}
          BY <3>1
        <5> QED BY <1>3, <3>1, <5>1
      <4> QED BY <4>1 DEF RInv, Sound
    <3>2. CASE {c, d} = {a, b}
      <4>1. (c = a /\ d = b) \/ (c = b /\ d = a)
        BY <3>2
      <4> QED BY <1>2, <1>3, <4>1 DEF RowOK
    <3> QED BY <3>1, <3>2
  <2>2. \A u \in Users : rel'[u][u] = rel[u][u]
    <3>1. \A u \in Users : {u, u} # {a, b}
      BY <1>2
    <3> QED BY <1>3, <3>1
  <2> QED BY <1>8, <1>10, <2>1, <2>2 DEF RInv, Sound, WriteRelStatus
<1>12. Acquainted'
  <2>1. met \subseteq met' /\ (mutual => {a, b} \in met')
    BY <1>4
  <2> HIDE DEF mutual
  <2>2. ASSUME NEW c \in Users, NEW d \in Users, c # d, MutualIn(rel', c, d)
        PROVE  {c, d} \in met'
    <3>1. CASE {c, d} # {a, b}
      <4>1. {d, c} # {a, b}
        BY <3>1
      <4>2. rel'[c][d] = rel[c][d] /\ rel'[d][c] = rel[d][c]
        BY <1>3, <3>1, <4>1
      <4>3. MutualIn(rel, c, d)
        BY <2>2, <4>2 DEF MutualIn
      <4> QED BY <2>1, <2>2, <4>3 DEF RInv, Acquainted
    <3>2. CASE {c, d} = {a, b}
      <4>1. (c = a /\ d = b) \/ (c = b /\ d = a)
        BY <3>2
      <4>2. mutual
        BY <1>3, <2>2, <4>1 DEF MutualIn, mutual
      <4> QED BY <2>1, <3>2, <4>2
    <3> QED BY <3>1, <3>2
  <2>3. AddsOK(l, met')
    <3>1. CASE l = NoJob
      BY <3>1, NoJobTypes DEF AddsOK
    <3>2. CASE l = k
      <4>1. j.op = "MakeFriends" => mutual
        BY <1>1, <1>2 DEF AddsOK, mutual
      <4>2. l.op \in {"AddFriend", "MakeFriends"} => {a, b} \in met'
        <5>1. CASE l = NoJob
          BY <5>1, NoJobTypes
        <5>2. CASE l = k /\ (j.op \in {"RemoveFriend", "MakeFriends", "AddBlock"}
                              \/ (j.op = "AddFriend" /\ mutual))
          BY <1>6, <2>1, <4>1, <5>2
        <5> QED BY <1>7, <5>1, <5>2
      <4>3. \A c, d \in Users : l.a = {c} /\ l.b = {d} => c = a /\ d = b
        BY <1>2, <1>6, <3>2
      <4>4. l.step = "apply"
        BY <1>6, <3>2
      <4> QED BY <4>2, <4>3, <4>4 DEF AddsOK
    <3> QED BY <1>7, <3>1, <3>2
  <2>4. \A x \in Workers : AddsOK(job'[x], met')
    <3>1. \A x \in Workers : AddsOK(job[x], met')
      BY <2>1 DEF RInv, Acquainted, AddsOK
    <3> QED BY <1>8, <2>3, <3>1
  <2>5. \A v \in Users : Audience(v)' \subseteq Audience(v)
    <3>1. l.op = "login" => FALSE
      BY <1>2, <1>6, <1>7, NoJobTypes DEF Commands
    <3> QED BY <1>8, <3>1 DEF Audience, WriteRelStatus, Workers
  <2>6. \A v \in Users : \A x \in Audience(v)' : {v, x} \in met'
    BY <2>1, <2>5 DEF RInv, Acquainted
  <2> QED BY <2>2, <2>4, <2>6 DEF Acquainted, MutualIn
<1> QED BY <1>9, <1>11, <1>12 DEF RInv

\* The entry of a player with another entered or taken out, if it is there.
Changed(entry, add, other) ==
  IF ~entry.online THEN entry
  ELSE [entry EXCEPT !.friends = IF add THEN @ \cup {other} ELSE @ \ {other}]

\* What becomes of an entry.
LEMMA ChangedEntry ==
  ASSUME NEW entry \in Entry, NEW add \in BOOLEAN, NEW other \in Users
  PROVE  LET new == Changed(entry, add, other) IN
         /\ new \in Entry /\ (new.online <=> entry.online) /\ (new.hidden <=> entry.hidden)
         /\ ~entry.online => new.friends = entry.friends
         /\ entry.online => new.friends = IF add THEN entry.friends \cup {other}
                                          ELSE entry.friends \ {other}
<1>1. CASE ~entry.online
  BY <1>1 DEF Changed
<1>2. CASE entry.online
  <2>1. PICK friends \in SUBSET Users :
          friends = IF add THEN entry.friends \cup {other} ELSE entry.friends \ {other}
    BY DEF Entry
  <2>2. PICK new : new = [entry EXCEPT !.friends = friends]
    OBVIOUS
  <2>3. /\ new \in Entry /\ new.friends = friends /\ (new.online <=> entry.online)
        /\ (new.hidden <=> entry.hidden)
    BY <2>2 DEF Entry
  <2>4. Changed(entry, add, other) = new
    BY <1>2, <2>1, <2>2 DEF Changed
  <2> QED BY <1>2, <2>1, <2>3, <2>4
<1> QED BY <1>1, <1>2

\* What applying does to the client table and to the job.
LEMMA ApplyActs ==
  ASSUME RInv, NEW w \in Workers, NEW a \in Users, NEW b \in Users, a # b,
         ApplyToClients(w, a, b)
  PROVE  LET add == job[w].op \in {"AddFriend", "MakeFriends"} IN
         /\ clients' \in [Users -> Entry]
         /\ clients'[a] = Changed(clients[a], add, b)
         /\ clients'[b] = Changed(clients[b], add, a)
         /\ \A v \in Users \ {a, b} : clients'[v] = clients[v]
         /\ job' \in [Workers -> Job]
         /\ job'[w] = [job[w] EXCEPT !.step = "notify", !.online = {a, b} \cap Online,
                                     !.to = {a, b} \cap Online]
         /\ \A x \in Workers \ {w} : job'[x] = job[x]
<1> DEFINE add == job[w].op \in {"AddFriend", "MakeFriends"}
<1>1. /\ clients \in [Users -> Entry] /\ job \in [Workers -> Job]
  BY DEF RInv, Types
<1>2. PICK x \in Entry, y \in Entry :
        x = Changed(clients[a], add, b) /\ y = Changed(clients[b], add, a)
  <2>1. clients[a] \in Entry /\ clients[b] \in Entry /\ add \in BOOLEAN
    BY <1>1
  <2> HIDE DEF add
  <2>2. Changed(clients[a], add, b) \in Entry
    BY <2>1, ChangedEntry
  <2>3. Changed(clients[b], add, a) \in Entry
    BY <2>1, ChangedEntry
  <2> QED BY <2>2, <2>3
<1>3. clients' = [clients EXCEPT ![a] = x, ![b] = y]
  BY <1>1, <1>2 DEF ApplyToClients, Changed
<1>4. PICK there \in SUBSET Users : there = {a, b} \cap Online
  OBVIOUS
<1>5. PICK j \in Job : j = job[w]
  BY <1>1
<1>6. PICK k : k = [j EXCEPT !.step = "notify", !.online = there, !.to = there]
  OBVIOUS
<1>7. k \in Job
  BY <1>6 DEF Job
<1>8. job' = [job EXCEPT ![w] = k]
  BY <1>1, <1>4, <1>5, <1>6 DEF ApplyToClients
<1>9. /\ clients' \in [Users -> Entry] /\ clients'[a] = x /\ clients'[b] = y
      /\ \A v \in Users \ {a, b} : clients'[v] = clients[v]
  BY <1>1, <1>3
<1>10. /\ job' \in [Workers -> Job] /\ job'[w] = k
       /\ \A z \in Workers \ {w} : job'[z] = job[z]
  BY <1>1, <1>7, <1>8
<1> QED BY <1>2, <1>4, <1>5, <1>6, <1>9, <1>10

\* Two who are entered in each other's lists have met.
LEMMA ApplyKeeps ==
  ASSUME RInv, NEW w \in Workers, NEW a \in Users, NEW b \in Users, ApplyToClients(w, a, b)
  PROVE  RInv'
<1>1. PICK j \in Job : j = job[w] /\ JobOK(j, w) /\ AddsOK(j, met)
  BY DEF RInv, Types, Sound, Acquainted
<1>2. /\ j.step = "apply" /\ j.a = {a} /\ j.b = {b} /\ a # b
      /\ j.op \in Commands /\ RowOK(j.mine, j.theirs)
  BY <1>1 DEF ApplyToClients, JobOK
<1> DEFINE add == j.op \in {"AddFriend", "MakeFriends"}
<1>3. /\ clients' \in [Users -> Entry]
      /\ clients'[a] = Changed(clients[a], add, b)
      /\ clients'[b] = Changed(clients[b], add, a)
      /\ \A v \in Users \ {a, b} : clients'[v] = clients[v]
      /\ job' \in [Workers -> Job]
      /\ job'[w] = [j EXCEPT !.step = "notify", !.online = {a, b} \cap Online,
                             !.to = {a, b} \cap Online]
      /\ \A x \in Workers \ {w} : job'[x] = job[x]
  <2>1. a # b
    BY <1>2
  <2>2. LET adds == job[w].op \in {"AddFriend", "MakeFriends"} IN
         /\ clients' \in [Users -> Entry]
         /\ clients'[a] = Changed(clients[a], adds, b)
         /\ clients'[b] = Changed(clients[b], adds, a)
         /\ \A v \in Users \ {a, b} : clients'[v] = clients[v]
         /\ job' \in [Workers -> Job]
         /\ job'[w] = [job[w] EXCEPT !.step = "notify", !.online = {a, b} \cap Online,
                                     !.to = {a, b} \cap Online]
         /\ \A x \in Workers \ {w} : job'[x] = job[x]
    BY <2>1, ApplyActs
  <2> QED BY <1>1, <2>2
<1>4. PICK k \in Job : k = job'[w]
  BY <1>3
<1>5. /\ k.op = j.op /\ k.step = "notify" /\ k.a = j.a /\ k.b = j.b
      /\ k.mine = j.mine /\ k.theirs = j.theirs
  BY <1>3, <1>4 DEF Job
<1>6. JobOK(k, w)
  BY <1>1, <1>2, <1>5 DEF JobOK
<1>7. Types'
  BY <1>3 DEF RInv, Types, ApplyToClients
<1>8. add => {a, b} \in met
  BY <1>1, <1>2 DEF AddsOK
<1>9. ASSUME NEW v \in Users, NEW x \in clients'[v].friends
      PROVE  x \in clients[v].friends \/ ({v, x} \in met /\ x # v /\ x \in Users)
  <2>1. clients[a] \in Entry /\ clients[b] \in Entry /\ add \in BOOLEAN
    BY DEF RInv, Types
  <2> HIDE DEF add
  <2>2. CASE v = a
    <3>1. clients'[a].friends \subseteq clients[a].friends \cup (IF add THEN {b} ELSE {})
      <4>1. PICK e \in Entry : e = clients[a]
        BY <2>1
      <4>2. PICK new : new = Changed(e, add, b)
        OBVIOUS
      <4>3. /\ ~e.online => new.friends = e.friends
            /\ e.online => new.friends = IF add THEN e.friends \cup {b} ELSE e.friends \ {b}
        BY <2>1, <4>2 DEF Changed, Entry
      <4>4. clients'[a] = new
        BY <1>3, <4>1, <4>2
      <4> QED BY <4>1, <4>3, <4>4
    <3> QED BY <1>2, <1>8, <1>9, <2>2, <3>1
  <2>3. CASE v = b
    <3>1. clients'[b].friends \subseteq clients[b].friends \cup (IF add THEN {a} ELSE {})
      <4>1. PICK e \in Entry : e = clients[b]
        BY <2>1
      <4>2. PICK new : new = Changed(e, add, a)
        OBVIOUS
      <4>3. /\ ~e.online => new.friends = e.friends
            /\ e.online => new.friends = IF add THEN e.friends \cup {a} ELSE e.friends \ {a}
        BY <2>1, <4>2 DEF Changed, Entry
      <4>4. clients'[b] = new
        BY <1>3, <4>1, <4>2
      <4> QED BY <4>1, <4>3, <4>4
    <3>2. {b, a} = {a, b}
      OBVIOUS
    <3> QED BY <1>2, <1>8, <1>9, <2>3, <3>1, <3>2
  <2>4. CASE v \notin {a, b}
    BY <1>3, <1>9, <2>4
  <2> QED BY <2>2, <2>3, <2>4
<1>10. Sound'
  <2>1. rel' = rel
    BY DEF ApplyToClients
  <2>2. \A x \in Workers : JobOK(job'[x], x)
    BY <1>3, <1>4, <1>6 DEF RInv, Sound
  <2>3. \A u \in Users : u \notin clients'[u].friends
    BY <1>9 DEF RInv, Sound
  <2> QED BY <2>1, <2>2, <2>3 DEF RInv, Sound
<1>11. Acquainted'
  <2>1. AddsOK(k, met)
    BY <1>5 DEF AddsOK
  <2>2. \A x \in Workers : job'[x] = job[x] \/ AddsOK(job'[x], met)
    BY <1>3, <1>4, <2>1
  <2>3. ASSUME NEW v \in Users, NEW x \in Audience(v)'
        PROVE  x \in Audience(v) \/ {v, x} \in met
    <3>1. farewell' = farewell /\ (job'[v] = job[v] \/ job'[v].op # "login")
      BY <1>2, <1>3, <1>4, <1>5 DEF ApplyToClients, Workers, Commands
    <3> QED BY <1>9, <2>3, <3>1 DEF Audience
  <2> QED BY <2>2, <2>3, AcquaintedKept DEF ApplyToClients
<1> QED BY <1>7, <1>10, <1>11 DEF RInv

\* What notifying sends: at most one message to each of the two.
LEMMA NotifyActs ==
  ASSUME RInv, NEW w \in Workers, NEW a \in Users, NEW b \in Users, NotifyBoth(w, a, b)
  PROVE  /\ a # b /\ queue' \in [Users -> Seq(Notice)]
         /\ view' \in [Users -> [Users -> Shown]]
         /\ \A u \in Users : \/ queue'[u] = queue[u]
                             \/ \E m \in Notice : queue'[u] = Append(queue[u], m)
<1>1. PICK j \in Job : j = job[w] /\ JobOK(j, w)
  BY DEF RInv, Types, Sound
<1>2. a # b
  BY <1>1 DEF NotifyBoth, JobOK
<1> DEFINE add == j.op \in {"AddFriend", "MakeFriends"}
           Status(u) == IF u \in j.online THEN "online" ELSE "offline"
           toA == IF add THEN Message("new", b, Status(b)) ELSE Message("lost", b, "none")
           toB == IF add THEN Message("new", a, IF w \in Admins THEN Status(a) ELSE "online")
                  ELSE Message("lost", a, "none")
           reached == IF w \notin Admins THEN {a, b} \cap Online
                      ELSE IF add \/ j.wasFriend THEN j.to ELSE {}
<1>3. toA \in Notice /\ toB \in Notice
  BY MessageTypes DEF Shown
<1> HIDE DEF toA, toB, reached
<1>4. IF w = a
      THEN /\ view' = [view EXCEPT ![a][b] = Received(@, toA)]
           /\ queue' = Post(queue, reached \ {a}, toB)
      ELSE /\ queue' = Post(Post(queue, reached \cap {a}, toA), reached \cap {b}, toB)
           /\ UNCHANGED view
  BY <1>1 DEF NotifyBoth, toA, toB, reached
<1>5. queue \in [Users -> Seq(Notice)] /\ view \in [Users -> [Users -> Shown]]
  BY DEF RInv, Types
<1>q. PICK q0 \in [Users -> Seq(Notice)] : q0 = queue
  BY <1>5
<1>6. CASE w = a
  <2>1. PICK shown \in Shown : shown = Received(view[a][b], toA)
    BY <1>3, <1>5, ReceivedShown
  <2>2. view' = [view EXCEPT ![a] = [view[a] EXCEPT ![b] = shown]]
    BY <1>4, <1>5, <1>6, <2>1
  <2>3. view' \in [Users -> [Users -> Shown]]
    BY <1>5, <2>2
  <2>4. queue' = Post(queue, reached \ {a}, toB)
    BY <1>4, <1>6
  <2>5. /\ queue' \in [Users -> Seq(Notice)]
        /\ \A u \in Users :
             /\ u \in reached \ {a} => queue'[u] = Append(queue[u], toB)
             /\ u \notin reached \ {a} => queue'[u] = queue[u]
    <3>1. PICK t \in SUBSET reached, m \in Notice : t = reached \ {a} /\ m = toB
      BY <1>3
    <3>2. /\ Post(q0, t, m) \in [Users -> Seq(Notice)]
          /\ \A u \in Users :
               /\ u \in t => Post(q0, t, m)[u] = Append(q0[u], m)
               /\ u \notin t => Post(q0, t, m)[u] = q0[u]
      BY PostTypes
    <3> QED BY <1>q, <2>4, <3>1, <3>2
  <2> QED BY <1>2, <1>3, <2>3, <2>5
<1>7. CASE w # a
  <2>1. PICK q \in [Users -> Seq(Notice)] :
          /\ q = Post(queue, reached \cap {a}, toA)
          /\ \A u \in Users :
               /\ u \in reached \cap {a} => q[u] = Append(queue[u], toA)
               /\ u \notin reached \cap {a} => q[u] = queue[u]
    <3>1. PICK q : q = Post(queue, reached \cap {a}, toA)
      OBVIOUS
    <3>2. /\ q \in [Users -> Seq(Notice)]
          /\ \A u \in Users :
               /\ u \in reached \cap {a} => q[u] = Append(queue[u], toA)
               /\ u \notin reached \cap {a} => q[u] = queue[u]
      <4>1. PICK t \in SUBSET reached, m \in Notice : t = reached \cap {a} /\ m = toA
        BY <1>3
      <4>2. /\ Post(q0, t, m) \in [Users -> Seq(Notice)]
            /\ \A u \in Users :
                 /\ u \in t => Post(q0, t, m)[u] = Append(q0[u], m)
                 /\ u \notin t => Post(q0, t, m)[u] = q0[u]
        BY PostTypes
      <4> QED BY <1>q, <3>1, <4>1, <4>2
    <3> QED BY <3>1, <3>2
  <2>2. queue' = Post(q, reached \cap {b}, toB)
    BY <1>4, <1>7, <2>1
  <2>3. /\ queue' \in [Users -> Seq(Notice)]
        /\ \A u \in Users :
             /\ u \in reached \cap {b} => queue'[u] = Append(q[u], toB)
             /\ u \notin reached \cap {b} => queue'[u] = q[u]
    <3>1. PICK t \in SUBSET reached, m \in Notice : t = reached \cap {b} /\ m = toB
      BY <1>3
    <3>2. /\ Post(q, t, m) \in [Users -> Seq(Notice)]
          /\ \A u \in Users :
               /\ u \in t => Post(q, t, m)[u] = Append(q[u], m)
               /\ u \notin t => Post(q, t, m)[u] = q[u]
      <4>1. \A u \in Users : Append(q[u], m) \in Seq(Notice)
        OBVIOUS
      <4> QED BY <4>1 DEF Post
    <3> QED BY <2>2, <3>1, <3>2
  <2>4. ASSUME NEW u \in Users
        PROVE  \/ queue'[u] = queue[u]
               \/ \E m \in Notice : queue'[u] = Append(queue[u], m)
    BY <1>2, <1>3, <2>1, <2>3
  <2> QED BY <1>2, <1>4, <1>5, <1>7, <2>3, <2>4
<1> QED BY <1>6, <1>7

\* Notifying ends the job, with at most a message to each of the two.
LEMMA NotifyKeeps ==
  ASSUME RInv, NEW w \in Workers, NEW a \in Users, NEW b \in Users, NotifyBoth(w, a, b)
  PROVE  RInv'
BY NotifyActs, JobEnds DEF NotifyBoth

\* RInv holds initially and after every step.
LEMMA RInvInductive == (Init => RInv) /\ (RInv /\ [Next]_vars => RInv')
<1>1. ASSUME Init
      PROVE  RInv
  <2>1. Types
    BY <1>1, NoJobTypes DEF Init, Types, NoEntry, Entry, Shown
  <2>2. Sound
    BY <1>1, NoJobTypes DEF Init, Sound, NoEntry, RowOK
  <2>3. Acquainted
    BY <1>1, NoJobTypes DEF Init, Acquainted, AddsOK, Audience, MutualIn, NoEntry, Workers
  <2> QED BY <2>1, <2>2, <2>3 DEF RInv
<1>2. ASSUME RInv, Next
      PROVE  RInv'
  <2>1. ASSUME NEW u \in Users, SessionNext(u)
        PROVE  RInv'
    BY <1>2, <2>1, CmdLoginKeeps, RegisterReadKeeps, RegisterOnlineKeeps,
       AnnounceOnlineKeeps, CleanupKeeps, AnnounceOfflineKeeps, DeliverKeeps,
       CmdSetAppearOfflineKeeps DEF SessionNext
  <2>2. ASSUME ReadRelStatus
        PROVE  RInv'
    <3>1. PICK w \in Workers, op \in Commands, a \in Users, b \in Users : Read(w, op, a, b)
      BY <2>2 DEF ReadRelStatus, SessionReads, MemberAdds, MemberRemoves, AdminBefriends,
                  AdminUnfriends, Commands, Workers
    <3> QED BY <1>2, <3>1, ReadKeeps
  <2>3. ASSUME NEW w \in Workers, NEW a \in Users, NEW b \in Users,
               WriteRelStatus(w, a, b) \/ ApplyToClients(w, a, b) \/ NotifyBoth(w, a, b)
        PROVE  RInv'
    BY <1>2, <2>3, WriteKeeps, ApplyKeeps, NotifyKeeps
  <2> QED BY <1>2, <2>1, <2>2, <2>3 DEF Next
<1>3. ASSUME RInv, UNCHANGED vars
      PROVE  RInv'
  BY <1>3, OthersKeep DEF vars, RInv, Types
<1> QED BY <1>1, <1>2, <1>3

\* The invariant of the specification.
LEMMA RInvHolds == Spec => []RInv
<1>1. Init => RInv
  BY RInvInductive
<1>2. RInv /\ [Next]_vars => RInv'
  BY RInvInductive
<1> QED BY <1>1, <1>2, PTL DEF Spec

\* A block and a friendship or request never stand in one row, although a command
\* writes both sides from a row it read in an earlier step (SetRelStatus), and any
\* number of commands, routes and sessions may come between.
THEOREM BlockAlwaysExcludes == Spec => []BlockExcludesFriendship
<1>1. RInv => BlockExcludesFriendship
  BY DEF RInv, Sound, RowOK, BlockExcludesFriendship
<1> QED BY <1>1, RInvHolds, PTL

\* A player's coming and going (RegisterOnline, CleanupOnDisconnect) is told only to
\* players that player has been friends with, however the reads, the writes and the
\* changes of the client table overlap.
THEOREM PresenceStaysAmongFriends == Spec => []PresenceOnlyToFriends
<1>1. RInv => PresenceOnlyToFriends
  BY DEF RInv, Acquainted, Audience, PresenceOnlyToFriends
<1> QED BY <1>1, RInvHolds, PTL

-----------------------------------------------------------------------------
(* The bound on the queues *)

Parting == {u \in Users : farewell[u] # {}}
Bound == MaxQueue + Cardinality(Workers) + Cardinality(Users)

\* Every thread that has something in hand, and every player who parts, will add
\* at most one message to a queue.
QueueOK ==
  \A u \in Users : Len(queue[u]) + Cardinality(Busy) + Cardinality(Parting) <= Bound

\* The sets of QueueOK are finite, and no larger than there are threads and players.
LEMMA FiniteLoads ==
  ASSUME NEW busy \in SUBSET Workers, NEW parting \in SUBSET Users
  PROVE  /\ IsFiniteSet(busy) /\ IsFiniteSet(parting)
         /\ Cardinality(busy) \in Nat /\ Cardinality(parting) \in Nat
         /\ Cardinality(Workers) \in Nat /\ Cardinality(Users) \in Nat
         /\ Cardinality(busy) <= Cardinality(Workers)
         /\ Cardinality(parting) <= Cardinality(Users)
<1>1. IsFiniteSet(Workers) /\ IsFiniteSet(Users)
  <2>1. IsFiniteSet(Users \cup Members)
    BY FriendConstants, FS_Union
  <2>2. IsFiniteSet((Users \cup Members) \cup Admins)
    BY <2>1, FriendConstants, FS_Union
  <2>3. Workers = (Users \cup Members) \cup Admins
    BY DEF Workers
  <2> QED BY <2>2, <2>3, FriendConstants
<1>2. IsFiniteSet(busy) /\ Cardinality(busy) <= Cardinality(Workers)
  BY <1>1, FS_Subset
<1>3. IsFiniteSet(parting) /\ Cardinality(parting) <= Cardinality(Users)
  BY <1>1, FS_Subset
<1> QED BY <1>1, <1>2, <1>3, FS_CardinalityType

\* A set without one of its elements, or less, is smaller by one.
LEMMA OneLess ==
  ASSUME NEW S, IsFiniteSet(S), NEW x \in S, NEW T \in SUBSET (S \ {x})
  PROVE  Cardinality(T) <= Cardinality(S) - 1
<1>1. /\ IsFiniteSet(S \ {x}) /\ Cardinality(S \ {x}) = Cardinality(S) - 1
  BY FS_RemoveElement
<1> QED BY <1>1, FS_Subset

\* The queues are no longer, or by one message at most.
NoLonger(more) == \A u \in Users : Len(queue'[u]) <= Len(queue[u]) + more

\* The bound is kept by a start, which needs room; by what adds nothing; and by
\* what ends a job or a farewell with a message.
LEMMA QueueKept ==
  ASSUME RInv, RInv', QueueOK,
         \/ RoomInQueues /\ NoLonger(0)
         \/ Busy' \subseteq Busy /\ Parting' \subseteq Parting /\ NoLonger(0)
         \/ /\ NoLonger(1) /\ Parting' \subseteq Parting
            /\ \E w \in Busy : Busy' \subseteq Busy \ {w}
         \/ /\ NoLonger(1) /\ Busy' \subseteq Busy
            /\ \E v \in Parting : Parting' \subseteq Parting \ {v}
  PROVE  QueueOK'
<1> SUFFICES ASSUME NEW u \in Users
             PROVE  Len(queue'[u]) + Cardinality(Busy') + Cardinality(Parting') <= Bound
  BY DEF QueueOK, Bound
<1>1. Busy \in SUBSET Workers /\ Parting \in SUBSET Users
  BY DEF Busy, Parting
<1>2. Busy' \in SUBSET Workers /\ Parting' \in SUBSET Users
  BY DEF Busy, Parting
<1>3. PICK B, P, B2, P2 : B = Busy /\ P = Parting /\ B2 = Busy' /\ P2 = Parting'
  OBVIOUS
<1>4. PICK l \in Nat, l2 \in Nat : l = Len(queue[u]) /\ l2 = Len(queue'[u])
  <2>1. queue[u] \in Seq(Notice) /\ queue'[u] \in Seq(Notice)
    BY DEF RInv, Types
  <2> QED BY <2>1, LenProperties
<1>5. /\ IsFiniteSet(B) /\ IsFiniteSet(P) /\ IsFiniteSet(B2) /\ IsFiniteSet(P2)
      /\ Cardinality(B) \in Nat /\ Cardinality(P) \in Nat
      /\ Cardinality(B2) \in Nat /\ Cardinality(P2) \in Nat
      /\ Cardinality(Workers) \in Nat /\ Cardinality(Users) \in Nat
      /\ Cardinality(B2) <= Cardinality(Workers) /\ Cardinality(P2) <= Cardinality(Users)
  BY <1>1, <1>2, <1>3, FiniteLoads
<1>6. /\ MaxQueue \in Nat /\ Bound = MaxQueue + Cardinality(Workers) + Cardinality(Users)
      /\ l + Cardinality(B) + Cardinality(P) <= Bound
  BY <1>3, <1>4, FriendConstants DEF QueueOK, Bound
<1>b. PICK b \in Nat, c \in Nat, b2 \in Nat, c2 \in Nat :
        b = Cardinality(B) /\ c = Cardinality(P) /\ b2 = Cardinality(B2) /\ c2 = Cardinality(P2)
  BY <1>5
<1>n. PICK ws \in Nat, us \in Nat : ws = Cardinality(Workers) /\ us = Cardinality(Users)
  BY <1>5
<1>s. /\ b2 <= ws /\ c2 <= us /\ MaxQueue \in Nat /\ Bound = MaxQueue + ws + us
      /\ l + b + c <= Bound
  BY <1>5, <1>6, <1>b, <1>n
<1> SUFFICES l2 + b2 + c2 <= Bound
  BY <1>3, <1>4, <1>b
<1>7. CASE RoomInQueues /\ NoLonger(0)
  <2>1. l < MaxQueue /\ l2 <= l
    BY <1>4, <1>7 DEF RoomInQueues, NoLonger
  <2> QED BY <1>s, <2>1
<1>8. CASE Busy' \subseteq Busy /\ Parting' \subseteq Parting /\ NoLonger(0)
  <2>1. Cardinality(B2) <= Cardinality(B) /\ Cardinality(P2) <= Cardinality(P)
    BY <1>3, <1>5, <1>8, FS_Subset
  <2>2. l2 <= l
    BY <1>4, <1>8 DEF NoLonger
  <2> QED BY <1>b, <1>s, <2>1, <2>2
<1>9. CASE /\ NoLonger(1) /\ Parting' \subseteq Parting
           /\ \E w \in Busy : Busy' \subseteq Busy \ {w}
  <2>1. Cardinality(P2) <= Cardinality(P)
    BY <1>3, <1>5, <1>9, FS_Subset
  <2>2. Cardinality(B2) <= Cardinality(B) - 1
    BY <1>3, <1>5, <1>9, OneLess
  <2>3. l2 <= l + 1
    BY <1>4, <1>9 DEF NoLonger
  <2> QED BY <1>b, <1>s, <2>1, <2>2, <2>3
<1>10. CASE /\ NoLonger(1) /\ Busy' \subseteq Busy
            /\ \E v \in Parting : Parting' \subseteq Parting \ {v}
  <2>1. Cardinality(B2) <= Cardinality(B)
    BY <1>3, <1>5, <1>10, FS_Subset
  <2>2. Cardinality(P2) <= Cardinality(P) - 1
    BY <1>3, <1>5, <1>10, OneLess
  <2>3. l2 <= l + 1
    BY <1>4, <1>10 DEF NoLonger
  <2> QED BY <1>b, <1>s, <2>1, <2>2, <2>3
<1> QED BY <1>7, <1>8, <1>9, <1>10

\* What leaves the queues alone makes none longer.
LEMMA SameQueue ==
  ASSUME RInv, queue' = queue
  PROVE  NoLonger(0)
<1> SUFFICES ASSUME NEW u \in Users
             PROVE  Len(queue[u]) <= Len(queue[u]) + 0
  BY DEF NoLonger
<1>1. queue[u] \in Seq(Notice)
  BY DEF RInv, Types
<1>2. Len(queue[u]) \in Nat
  BY <1>1, LenProperties
<1> QED BY <1>2

\* A queue grows by one where one message is added to it, or none.
LEMMA OneMore ==
  ASSUME RInv, \A u \in Users : \/ queue'[u] = queue[u]
                                \/ \E m \in Notice : queue'[u] = Append(queue[u], m)
  PROVE  NoLonger(1)
<1> SUFFICES ASSUME NEW u \in Users
             PROVE  Len(queue'[u]) <= Len(queue[u]) + 1
  BY DEF NoLonger
<1>1. queue[u] \in Seq(Notice)
  BY DEF RInv, Types
<1>2. Len(queue[u]) \in Nat
  BY <1>1, LenProperties
<1>3. \A m \in Notice : Len(Append(queue[u], m)) = Len(queue[u]) + 1
  BY <1>1, AppendProperties
<1> QED BY <1>2, <1>3

\* Posting one message adds one message or none.
LEMMA PostsOne ==
  ASSUME RInv, NEW targets, NEW m \in Notice, queue' = Post(queue, targets, m)
  PROVE  NoLonger(1)
<1>1. \A u \in Users : queue'[u] = queue[u] \/ queue'[u] = Append(queue[u], m)
  BY DEF Post
<1> QED BY <1>1, OneMore

\* A thread that ends its job is no longer busy, and nobody else gets busy.
LEMMA EndsBusy ==
  ASSUME RInv, NEW w \in Busy, job' = [job EXCEPT ![w] = NoJob]
  PROVE  Busy' \subseteq Busy \ {w}
BY NoJobTypes DEF RInv, Types, Busy

\* A step at which nobody gets busy or parts, and no queue grows.
LEMMA QuietStep ==
  ASSUME RInv, RInv', QueueOK, farewell' = farewell, queue' = queue,
         \A w \in Workers : job'[w].op \in {job[w].op, "none"}
  PROVE  QueueOK'
<1>1. Busy' \subseteq Busy /\ Parting' \subseteq Parting
  BY DEF Busy, Parting
<1> QED BY <1>1, SameQueue, QueueKept

\* Every step keeps the bound.
LEMMA QueueSteps ==
  ASSUME RInv, RInv', QueueOK, [Next]_vars
  PROVE  QueueOK'
<1>1. ASSUME NEW w, NEW ordinary, Starts(w, ordinary), NoLonger(0)
      PROVE  QueueOK'
  BY <1>1, QueueKept DEF Starts
<1>2. ASSUME NEW u \in Users, CmdLogin(u)
      PROVE  QueueOK'
  BY <1>1, <1>2, SameQueue DEF CmdLogin
<1>3. ASSUME NEW u \in Users, RegisterRead(u)
      PROVE  QueueOK'
  BY <1>1, <1>3, SameQueue DEF RegisterRead
<1>4. ASSUME NEW u \in Users, RegisterOnline(u)
      PROVE  QueueOK'
  <2>1. \A w \in Workers : job'[w].op = job[w].op
    BY <1>4 DEF RegisterOnline, RInv, Types, Job
  <2> QED BY <1>4, <2>1, QuietStep DEF RegisterOnline
<1>5. ASSUME NEW u \in Users, AnnounceOnline(u)
      PROVE  QueueOK'
  <2>1. u \in Busy
    BY <1>5 DEF AnnounceOnline, Busy, Workers
  <2>2. Busy' \subseteq Busy \ {u}
    BY <1>5, <2>1, EndsBusy DEF AnnounceOnline
  <2>3. NoLonger(1)
    <3>1. PICK m \in Notice : m = Message("status", u, "online")
      BY MessageTypes DEF Shown
    <3>2. CASE queue' = queue
      BY <3>2, OneMore
    <3>3. CASE queue' = Post(queue, job[u].to, m)
      BY <3>3, PostsOne
    <3> QED BY <1>5, <3>1, <3>2, <3>3 DEF AnnounceOnline
  <2>4. Parting' = Parting
    BY <1>5 DEF AnnounceOnline, Parting
  <2> QED BY <2>1, <2>2, <2>3, <2>4, QueueKept
<1>6. ASSUME NEW u \in Users, CleanupOnDisconnect(u)
      PROVE  QueueOK'
  <2>1. NoLonger(0)
    <3> SUFFICES ASSUME NEW v \in Users
                 PROVE  Len(queue'[v]) <= Len(queue[v]) + 0
      BY DEF NoLonger
    <3>1. queue[v] \in Seq(Notice)
      BY DEF RInv, Types
    <3>2. Len(queue[v]) \in Nat
      BY <3>1, LenProperties
    <3>3. queue'[v] = queue[v] \/ queue'[v] = <<>>
      BY <1>6 DEF CleanupOnDisconnect, RInv, Types
    <3> QED BY <3>2, <3>3
  <2> QED BY <1>1, <1>6, <2>1 DEF CleanupOnDisconnect
<1>7. ASSUME NEW u \in Users, AnnounceOffline(u)
      PROVE  QueueOK'
  <2>1. NoLonger(1)
    <3>1. PICK m \in Notice : m = Message("status", u, "offline")
      BY MessageTypes DEF Shown
    <3> QED BY <1>7, <3>1, PostsOne DEF AnnounceOffline
  <2>2. u \in Parting /\ Parting' \subseteq Parting \ {u} /\ Busy' = Busy
    BY <1>7 DEF AnnounceOffline, Parting, Busy, RInv, Types
  <2> QED BY <2>1, <2>2, QueueKept
<1>8. ASSUME NEW u \in Users, NEW hidden \in BOOLEAN, CmdSetAppearOffline(u, hidden)
      PROVE  QueueOK'
  BY <1>1, <1>8, SameQueue DEF CmdSetAppearOffline
<1>9. ASSUME NEW u \in Users, Deliver(u)
      PROVE  QueueOK'
  <2>1. NoLonger(0)
    <3> SUFFICES ASSUME NEW v \in Users
                 PROVE  Len(queue'[v]) <= Len(queue[v]) + 0
      BY DEF NoLonger
    <3>1. queue[v] \in Seq(Notice) /\ queue[u] \in Seq(Notice) /\ queue[u] # <<>>
      BY <1>9 DEF Deliver, RInv, Types
    <3>2. Len(queue[v]) \in Nat /\ Len(queue[u]) \in Nat
      BY <3>1, LenProperties
    <3>3. Len(Tail(queue[u])) = Len(queue[u]) - 1
      BY <3>1, HeadTailProperties
    <3>4. queue'[v] = IF v = u THEN Tail(queue[u]) ELSE queue[v]
      BY <1>9 DEF Deliver, RInv, Types
    <3> QED BY <3>2, <3>3, <3>4
  <2>2. Busy' \subseteq Busy /\ Parting' \subseteq Parting
    BY <1>9 DEF Deliver, Busy, Parting
  <2> QED BY <2>1, <2>2, QueueKept
<1>10. ASSUME ReadRelStatus
       PROVE  QueueOK'
  <2>1. PICK w \in Workers, op \in Commands, a \in Users, b \in Users : Read(w, op, a, b)
    BY <1>10 DEF ReadRelStatus, SessionReads, MemberAdds, MemberRemoves, AdminBefriends,
                 AdminUnfriends, Commands, Workers
  <2> QED BY <1>1, <2>1, SameQueue DEF Read
<1>11. ASSUME NEW w \in Workers, NEW a \in Users, NEW b \in Users, WriteRelStatus(w, a, b)
       PROVE  QueueOK'
  <2>1. \A x \in Workers : job'[x].op \in {job[x].op, "none"}
    BY <1>11, NoJobTypes DEF WriteRelStatus, RInv, Types, Job
  <2> QED BY <1>11, <2>1, QuietStep DEF WriteRelStatus
<1>12. ASSUME NEW w \in Workers, NEW a \in Users, NEW b \in Users, ApplyToClients(w, a, b)
       PROVE  QueueOK'
  <2>1. \A x \in Workers : job'[x].op \in {job[x].op, "none"}
    BY <1>12 DEF ApplyToClients, RInv, Types, Job
  <2> QED BY <1>12, <2>1, QuietStep DEF ApplyToClients
<1>13. ASSUME NEW w \in Workers, NEW a \in Users, NEW b \in Users, NotifyBoth(w, a, b)
       PROVE  QueueOK'
  <2>1. w \in Busy
    BY <1>13 DEF NotifyBoth, Busy, RInv, Sound, JobOK, Commands
  <2>2. Busy' \subseteq Busy \ {w}
    BY <1>13, <2>1, EndsBusy DEF NotifyBoth
  <2>3. NoLonger(1)
    BY <1>13, NotifyActs, OneMore
  <2>4. Parting' = Parting
    BY <1>13 DEF NotifyBoth, Parting
  <2> QED BY <2>1, <2>2, <2>3, <2>4, QueueKept
<1>14. ASSUME UNCHANGED vars
       PROVE  QueueOK'
  BY <1>14, QuietStep DEF vars
<1>15. ASSUME NEW u \in Users, SessionNext(u)
       PROVE  QueueOK'
  BY <1>2, <1>3, <1>4, <1>5, <1>6, <1>7, <1>8, <1>9, <1>15 DEF SessionNext
<1> QED BY <1>10, <1>11, <1>12, <1>13, <1>14, <1>15 DEF Next

\* Every variable has its type, nobody is related to themselves, and no queue is
\* longer than the threads and the players who part can make it.
THEOREM FriendTypes == Spec => []TypeOK
<1>1. Init => QueueOK
  <2> SUFFICES ASSUME Init, NEW u \in Users
               PROVE  Len(queue[u]) + Cardinality(Busy) + Cardinality(Parting) <= Bound
    BY DEF QueueOK
  <2>1. Len(queue[u]) = 0 /\ Busy = {} /\ Parting = {}
    BY NoJobTypes DEF Init, Busy, Parting
  <2>2. Cardinality(Busy) = 0 /\ Cardinality(Parting) = 0
    BY <2>1, FS_EmptySet
  <2>3. Cardinality(Workers) \in Nat /\ Cardinality(Users) \in Nat /\ MaxQueue \in Nat
    BY FiniteLoads, FriendConstants
  <2> QED BY <2>1, <2>2, <2>3 DEF Bound
<1>2. RInv /\ RInv' /\ QueueOK /\ [Next]_vars => QueueOK'
  BY QueueSteps
<1>3. RInv /\ QueueOK => TypeOK
  <2> SUFFICES ASSUME RInv, QueueOK
               PROVE  TypeOK
    OBVIOUS
  <2>1. \A u \in Users : Len(queue[u]) <= Bound
    <3> SUFFICES ASSUME NEW u \in Users
                 PROVE  Len(queue[u]) <= Bound
      OBVIOUS
    <3>1. queue[u] \in Seq(Notice) /\ Busy \in SUBSET Workers /\ Parting \in SUBSET Users
      BY DEF RInv, Types, Busy, Parting
    <3>2. /\ Len(queue[u]) \in Nat /\ Cardinality(Busy) \in Nat
          /\ Cardinality(Parting) \in Nat
      BY <3>1, FiniteLoads, LenProperties
    <3>3. Bound \in Nat
      BY FiniteLoads, FriendConstants DEF Bound
    <3> QED BY <3>2, <3>3 DEF QueueOK
  <2>2. ASSUME NEW w \in Workers
        PROVE  /\ job[w].step \in {"read", "register", "announce", "write", "apply", "notify"}
               /\ UNION {job[w].a, job[w].b, job[w].online, job[w].to} \subseteq Users
               /\ job[w].mine \cup job[w].theirs \subseteq Flags
    BY DEF RInv, Types, Job
  <2> QED BY <2>1, <2>2 DEF TypeOK, RInv, Types, Sound, Bound
<1> QED BY <1>1, <1>2, <1>3, RInvHolds, PTL DEF Spec

-----------------------------------------------------------------------------
(* One handler after the other *)

\* What u's client should show of v.
Expected(u, v) ==
  IF v \notin MutualFriends(u) THEN "none" ELSE IF Visible(v) THEN "online" ELSE "offline"

Signed == {u \in Users : sess[u] # "off"}
Silent == \A u \in Users : farewell[u] = {} /\ queue[u] = <<>>
CachesAgree == \A u \in Online : clients[u].friends = MutualFriends(u)

\* What u's client will show of v once it has the message that is queued for it.
Shows(u, v) ==
  IF queue[u] # <<>> /\ Head(queue[u]).about = v THEN Received(view[u][v], Head(queue[u]))
  ELSE view[u][v]
AllShown == \A u \in Signed : \A v \in Users \ {u} : Shows(u, v) = Expected(u, v)

\* Nothing is in hand; messages may be on their way, one to a player.
Resting ==
  /\ Busy = {} /\ CachesAgree
  /\ \A u \in Users : farewell[u] = {} /\ Len(queue[u]) <= 1
  /\ plain => AllShown

Registering(u) ==
  /\ Busy = {u} /\ job[u].step = "register" /\ sess[u] = "held"
  /\ Silent /\ CachesAgree /\ job[u].to = MutualFriends(u)
  /\ plain => AllShown

\* All is told but that v, who has just come or gone, is there or not.
ToldExcept(v, targets) ==
  \A x \in Signed : \A y \in Users \ {x} :
    IF y = v /\ x \in targets THEN v \in MutualFriends(x) /\ view[x][v] # "none"
    ELSE view[x][y] = Expected(x, y)

Announcing(u) ==
  /\ Busy = {u} /\ job[u].step = "announce" /\ sess[u] = "on"
  /\ Silent /\ CachesAgree /\ job[u].to \subseteq Online
  /\ plain => NobodyHeld /\ ToldExcept(u, job[u].to)

Parted(u) ==
  /\ Busy = {} /\ CachesAgree /\ sess[u] = "off"
  /\ farewell[u] # {} /\ farewell[u] \subseteq Online
  /\ \A v \in Users : queue[v] = <<>> /\ (v # u => farewell[v] = {})
  /\ plain => NobodyHeld /\ ToldExcept(u, farewell[u])

\* Thread w has a row of a and b in hand, for a who is online or for an operator.
InHand(w, a, b) ==
  /\ Busy = {w} /\ job[w].a = {a} /\ job[w].b = {b} /\ a # b /\ Silent
  /\ plain => NobodyHeld /\ (w \in Admins \/ (w = a /\ a \in Online))

Writing(w, a, b) ==
  /\ InHand(w, a, b) /\ job[w].step = "write" /\ CachesAgree
  /\ Allowed(job[w].op, rel[a][b], rel[b][a])
  /\ job[w].mine = NewRow(job[w].op, rel[a][b], rel[b][a])[1]
  /\ job[w].theirs = NewRow(job[w].op, rel[a][b], rel[b][a])[2]
  /\ job[w].wasFriend <=> MutualIn(rel, a, b)
  /\ plain => AllShown

Adds(w) == job[w].op \in {"AddFriend", "MakeFriends"}

\* All is told but what has become of a and b, if anything has.
PairUntold(w, a, b) ==
  \A x \in Signed : \A y \in Users \ {x} :
    {x, y} # {a, b} \/ ~(Adds(w) \/ job[w].wasFriend) => view[x][y] = Expected(x, y)

Applying(w, a, b) ==
  /\ InHand(w, a, b) /\ job[w].step = "apply"
  /\ Adds(w) <=> MutualIn(rel, a, b)
  /\ \A u \in Online : LET friends == clients[u].friends IN
       MutualFriends(u) = IF u \notin {a, b} THEN friends
                          ELSE IF Adds(w) THEN friends \cup ({a, b} \ {u})
                          ELSE friends \ ({a, b} \ {u})
  /\ plain => PairUntold(w, a, b)

Notifying(w, a, b) ==
  /\ InHand(w, a, b) /\ job[w].step = "notify" /\ CachesAgree
  /\ Adds(w) <=> MutualIn(rel, a, b)
  /\ job[w].online = {a, b} \cap Online /\ job[w].to = {a, b} \cap Online
  /\ plain => PairUntold(w, a, b)

\* Who is online has an entry that says so; as long as things are plain nobody
\* hides, and one player at most is between the reply and the registration.
Orderly ==
  /\ \A u \in Users : clients[u].online <=> sess[u] = "on"
  /\ plain => /\ \A u \in Users : ~clients[u].hidden
              /\ \A u, v \in Users : sess[u] = "held" /\ sess[v] = "held" => u = v

Phase ==
  \/ Resting
  \/ \E u \in Users : Registering(u) \/ Announcing(u) \/ Parted(u)
  \/ \E w \in Workers, a, b \in Users :
       Writing(w, a, b) \/ Applying(w, a, b) \/ Notifying(w, a, b)

SeqInv == Orderly /\ Phase

\* Friendship is mutual.
LEMMA MutualSymmetric ==
  ASSUME NEW u \in Users, NEW v \in Users
  PROVE  v \in MutualFriends(u) <=> u \in MutualFriends(v)
BY DEF MutualFriends, MutualIn

\* What should be shown changes only with a row or with who is visible.
LEMMA SameExpected ==
  ASSUME rel' = rel, NEW v, Visible(v)' <=> Visible(v)
  PROVE  \A u : Expected(u, v)' = Expected(u, v)
BY DEF Expected, MutualFriends, MutualIn

\* Where the rows and the entries stay, so does what they say.
LEMMA SameCaches ==
  ASSUME rel' = rel, clients' = clients
  PROVE  /\ Online' = Online /\ (CachesAgree' <=> CachesAgree)
         /\ \A u : MutualFriends(u)' = MutualFriends(u)
         /\ \A u, v : Expected(u, v)' = Expected(u, v)
BY DEF Online, CachesAgree, MutualFriends, MutualIn, Expected, Visible

\* A handler starts only when things are at rest, and all has arrived.
LEMMA AtRest ==
  ASSUME ~Overlap, SeqInv, NEW w, NEW ordinary, Starts(w, ordinary)
  PROVE  /\ Resting /\ Silent /\ Busy = {} /\ CachesAgree
         /\ plain' => plain /\ ordinary
         /\ plain => \A u \in Signed : \A v \in Users \ {u} : view[u][v] = Expected(u, v)
<1>1. Settled /\ (plain' => plain /\ ordinary)
  BY DEF Starts
<1>2. Resting
  BY <1>1, FriendConstants DEF Settled, SeqInv, Phase, Registering, Announcing, Parted,
     Writing, Applying, Notifying, InHand
<1>3. Silent /\ Busy = {} /\ CachesAgree
  BY <1>1, <1>2 DEF Resting, Silent, Settled
<1>4. plain => \A u \in Signed : \A v \in Users \ {u} : view[u][v] = Expected(u, v)
  <2>1. \A u \in Signed : u \in Users /\ queue[u] = <<>>
    BY <1>3 DEF Signed, Silent
  <2>2. plain => AllShown
    BY <1>2 DEF Resting
  <2>3. \A u \in Signed : \A v : Shows(u, v) = view[u][v]
    BY <2>1 DEF Shows
  <2> QED BY <2>2, <2>3 DEF AllShown
<1> QED BY <1>1, <1>2, <1>3, <1>4

\* The handler that is in hand is at the step its job says.
LEMMA InProgress ==
  ASSUME SeqInv, NEW w \in Workers, job[w].op # "none"
  PROVE  /\ job[w].step = "register" => Registering(w)
         /\ job[w].step = "announce" => Announcing(w)
         /\ \A a, b \in Users : job[w].a = {a} /\ job[w].b = {b} =>
              /\ job[w].step = "write" => Writing(w, a, b)
              /\ job[w].step = "apply" => Applying(w, a, b)
              /\ job[w].step = "notify" => Notifying(w, a, b)
<1>1. w \in Busy
  BY DEF Busy
<1>2. ~Resting /\ \A u \in Users : ~Parted(u)
  BY <1>1 DEF Resting, Parted
<1>3. \A u \in Users : Registering(u) => u = w /\ job[w].step = "register"
  BY <1>1 DEF Registering
<1>4. \A u \in Users : Announcing(u) => u = w /\ job[w].step = "announce"
  BY <1>1 DEF Announcing
<1>5. \A x, a, b : Writing(x, a, b) =>
        x = w /\ job[w].step = "write" /\ job[w].a = {a} /\ job[w].b = {b}
  BY <1>1 DEF Writing, InHand
<1>6. \A x, a, b : Applying(x, a, b) =>
        x = w /\ job[w].step = "apply" /\ job[w].a = {a} /\ job[w].b = {b}
  BY <1>1 DEF Applying, InHand
<1>7. \A x, a, b : Notifying(x, a, b) =>
        x = w /\ job[w].step = "notify" /\ job[w].a = {a} /\ job[w].b = {b}
  BY <1>1 DEF Notifying, InHand
<1>8. \A x, y : {x} = {y} => x = y
  OBVIOUS
<1> QED BY <1>2, <1>3, <1>4, <1>5, <1>6, <1>7, <1>8 DEF SeqInv, Phase

\* Once a thread has ended its job, or where none had one, nobody is busy.
LEMMA NobodyBusy ==
  ASSUME RInv, NEW w \in Workers, Busy \subseteq {w}, job' = [job EXCEPT ![w] = NoJob]
  PROVE  Busy' = {}
BY NoJobTypes DEF RInv, Types, Busy

-----------------------------------------------------------------------------
(* Signing in and out, one after the other *)

\* The reply to a login shows what is so, where nothing is under way.
LEMMA CmdLoginOrderly ==
  ASSUME ~Overlap, RInv, SeqInv, NEW u \in Users, CmdLogin(u)
  PROVE  SeqInv'
<1>1. PICK hidden \in BOOLEAN :
        /\ Starts(u, NobodyHeld /\ ~hidden)
        /\ clients' = [clients EXCEPT ![u] = [NoEntry EXCEPT !.hidden = hidden]]
  BY DEF CmdLogin
<1>2. /\ Resting /\ Silent /\ Busy = {} /\ CachesAgree
      /\ plain' => plain /\ NobodyHeld /\ ~hidden
      /\ plain => \A x \in Signed : \A v \in Users \ {x} : view[x][v] = Expected(x, v)
  BY <1>1, AtRest
<1>3. PICK entry : entry = [NoEntry EXCEPT !.hidden = hidden]
  OBVIOUS
<1>4. entry \in Entry /\ ~entry.online /\ (entry.hidden <=> hidden)
  <2>1. NoEntry \in Entry /\ ~NoEntry.online
    BY DEF NoEntry, Entry
  <2>2. PICK e \in Entry : e = NoEntry /\ ~e.online
    BY <2>1
  <2>3. /\ [e EXCEPT !.hidden = hidden] \in Entry /\ ~[e EXCEPT !.hidden = hidden].online
        /\ [e EXCEPT !.hidden = hidden].hidden = hidden
    BY <2>2 DEF Entry
  <2> QED BY <1>3, <2>2, <2>3
<1>5. /\ clients'[u] = entry /\ \A v \in Users \ {u} : clients'[v] = clients[v]
  BY <1>1, <1>3 DEF RInv, Types
<1>6. /\ sess[u] = "off" /\ ~clients[u].online /\ u \notin Online
      /\ sess'[u] = "held" /\ \A v \in Users \ {u} : sess'[v] = sess[v]
  BY DEF CmdLogin, SeqInv, Orderly, RInv, Types, Online
<1>7. Orderly'
  <2>1. \A v \in Users : clients'[v].online <=> sess'[v] = "on"
    BY <1>4, <1>5, <1>6 DEF SeqInv, Orderly
  <2>2. plain' => \A v \in Users : ~clients'[v].hidden
    BY <1>2, <1>4, <1>5 DEF SeqInv, Orderly
  <2>3. plain' => \A v, x \in Users : sess'[v] = "held" /\ sess'[x] = "held" => v = x
    BY <1>2, <1>6 DEF NobodyHeld
  <2> QED BY <2>1, <2>2, <2>3 DEF Orderly
<1>8. /\ rel' = rel /\ queue' = queue /\ farewell' = farewell /\ job' = job
      /\ view' = [view EXCEPT ![u] = [v \in Users |->
           IF v \notin MutualFriends(u) THEN "none"
           ELSE IF v \in Online /\ ~clients[v].hidden THEN "online" ELSE "offline"]]
  BY DEF CmdLogin
<1>9. \A v \in Users : Visible(v)' <=> Visible(v)
  BY <1>4, <1>5, <1>6 DEF Visible, Online
<1>10. \A x : \A v \in Users : Expected(x, v)' = Expected(x, v)
  BY <1>8, <1>9, SameExpected
<1>11. /\ \A v \in Users : view'[u][v] = Expected(u, v)
       /\ \A x \in Users \ {u} : view'[x] = view[x]
  BY <1>8 DEF Expected, Visible, RInv, Types
<1>12. CachesAgree'
  <2>1. Online' = Online /\ \A x : MutualFriends(x)' = MutualFriends(x)
    BY <1>4, <1>5, <1>6, <1>8 DEF Online, MutualFriends, MutualIn
  <2>2. \A x \in Online : x # u /\ clients'[x] = clients[x]
    BY <1>5, <1>6 DEF Online
  <2> QED BY <1>2, <2>1, <2>2 DEF CachesAgree
<1>13. plain' => AllShown'
  <2> SUFFICES ASSUME plain', NEW x \in Users, sess'[x] # "off", NEW v \in Users \ {x}
               PROVE  view'[x][v] = Expected(x, v)
    BY <1>2, <1>8, <1>10 DEF AllShown, Signed, Shows, Silent
  <2> QED BY <1>2, <1>6, <1>11 DEF Signed
<1>14. Resting'
  BY <1>2, <1>8, <1>12, <1>13 DEF Resting, Busy
<1> QED BY <1>7, <1>14 DEF SeqInv, Phase

\* What is read for the registration stays so until it is done.
LEMMA RegisterReadOrderly ==
  ASSUME ~Overlap, RInv, SeqInv, NEW u \in Users, RegisterRead(u)
  PROVE  SeqInv'
<1>1. /\ Resting /\ Silent /\ Busy = {} /\ CachesAgree /\ (plain' => plain)
  BY AtRest DEF RegisterRead
<1>2. /\ UNCHANGED <<rel, sess, clients, farewell, queue, view, met>> /\ sess[u] = "held"
      /\ job' = [job EXCEPT ![u] = [NoJob EXCEPT !.op = "login", !.step = "register",
                                                !.to = MutualFriends(u)]]
  BY DEF RegisterRead
<1>3. PICK j : j = [NoJob EXCEPT !.op = "login", !.step = "register", !.to = MutualFriends(u)]
  OBVIOUS
<1>4. j.op = "login" /\ j.step = "register" /\ j.to = MutualFriends(u)
  BY <1>3 DEF NoJob
<1>5. u \in Workers /\ job'[u] = j /\ \A w \in Workers \ {u} : job'[w] = job[w]
  BY <1>2, <1>3 DEF RInv, Types, Workers
<1>6. Busy' = {u}
  BY <1>1, <1>4, <1>5 DEF Busy
<1>7. /\ CachesAgree' /\ MutualFriends(u)' = MutualFriends(u)
      /\ \A x, v : Expected(x, v)' = Expected(x, v)
  BY <1>1, <1>2, SameCaches
<1>8. plain' => AllShown'
  BY <1>1, <1>2, <1>7 DEF Resting, AllShown, Shows, Signed
<1>9. Registering(u)'
  BY <1>1, <1>2, <1>4, <1>5, <1>6, <1>7, <1>8 DEF Registering, Silent
<1>10. Orderly'
  BY <1>1, <1>2 DEF SeqInv, Orderly
<1> QED BY <1>9, <1>10 DEF SeqInv, Phase

\* While nobody is between the reply and the registration, who is signed in is online.
LEMMA SignedOnline ==
  ASSUME RInv, SeqInv, NobodyHeld
  PROVE  Signed = Online
BY DEF RInv, Types, SeqInv, Orderly, NobodyHeld, Signed, Online

\* RegisterOnline enters the player in both directions: the table agrees with the
\* rows, and what is left is to tell the friends who are there.
LEMMA RegisterOnlineOrderly ==
  ASSUME RInv, SeqInv, NEW u \in Users, RegisterOnline(u)
  PROVE  SeqInv'
<1>1. u \in Workers /\ job[u].op = "login" /\ job[u].step = "register"
  BY DEF RegisterOnline, Workers
<1>2. Registering(u)
  BY <1>1, InProgress
<1>3. PICK friends \in SUBSET Users :
        friends = job[u].to /\ friends = MutualFriends(u) /\ u \notin friends
  BY <1>2 DEF Registering, MutualFriends
<1>4. /\ rel' = rel /\ farewell' = farewell /\ queue' = queue /\ view' = view
      /\ plain' = plain /\ sess' = [sess EXCEPT ![u] = "on"]
  BY DEF RegisterOnline
<1>5. ASSUME NEW v \in Users
      PROVE  /\ clients[v] \in Entry /\ (clients'[v].hidden <=> clients[v].hidden)
             /\ v = u => clients'[v].online /\ clients'[v].friends = friends
             /\ v # u => /\ clients'[v].online <=> clients[v].online
                         /\ clients'[v].friends = IF v \in friends /\ clients[v].online
                              THEN clients[v].friends \cup {u} ELSE clients[v].friends
  <2>1. clients[v] \in Entry /\ clients[u] \in Entry
    BY DEF RInv, Types
  <2>2. clients'[v] =
          IF v = u THEN [online |-> TRUE, hidden |-> clients[u].hidden, friends |-> friends]
          ELSE IF v \in friends /\ clients[v].online
               THEN [clients[v] EXCEPT !.friends = @ \cup {u}] ELSE clients[v]
    BY <1>3 DEF RegisterOnline
  <2> QED BY <2>1, <2>2 DEF Entry
<1>6. /\ Online' = Online \cup {u} /\ \A x : MutualFriends(x)' = MutualFriends(x)
      /\ \A v \in Users \ {u} : Visible(v)' <=> Visible(v)
  BY <1>4, <1>5 DEF Online, Visible, MutualFriends, MutualIn
<1>7. /\ sess[u] = "held" /\ sess'[u] = "on" /\ \A v \in Users \ {u} : sess'[v] = sess[v]
  BY <1>2, <1>4 DEF RInv, Types, Registering
<1>8. Orderly'
  <2>1. \A v \in Users : clients'[v].online <=> sess'[v] = "on"
    BY <1>5, <1>7 DEF SeqInv, Orderly
  <2>2. plain' => \A v \in Users : ~clients'[v].hidden
    BY <1>4, <1>5 DEF SeqInv, Orderly
  <2>3. plain' => \A v, x \in Users : sess'[v] = "held" /\ sess'[x] = "held" => v = x
    BY <1>4, <1>7 DEF SeqInv, Orderly
  <2> QED BY <2>1, <2>2, <2>3 DEF Orderly
<1>9. CachesAgree'
  <2> SUFFICES ASSUME NEW v \in Online'
               PROVE  clients'[v].friends = MutualFriends(v)
    BY <1>6 DEF CachesAgree
  <2>1. CASE v = u
    BY <1>3, <1>5, <2>1
  <2>2. CASE v # u
    <3>1. v \in Online /\ v \in Users /\ clients[v].online
      BY <1>6, <2>2 DEF Online
    <3>2. clients[v].friends = MutualFriends(v)
      BY <1>2, <3>1 DEF Registering, CachesAgree
    <3>3. v \in friends => u \in MutualFriends(v)
      BY <1>3, <3>1, MutualSymmetric
    <3>4. CASE v \in friends
      <4>1. clients'[v].friends = clients[v].friends \cup {u}
        BY <1>5, <2>2, <3>1, <3>4
      <4> QED BY <3>2, <3>3, <3>4, <4>1
    <3>5. CASE v \notin friends
      BY <1>5, <2>2, <3>1, <3>2, <3>5
    <3> QED BY <3>4, <3>5
  <2> QED BY <2>1, <2>2
<1>10. PICK j : j = [job[u] EXCEPT !.step = "announce", !.to = friends \cap Online]
  OBVIOUS
<1>11. j.op = "login" /\ j.step = "announce" /\ j.to = friends \cap Online
  <2>1. job[u] \in Job
    BY <1>1 DEF RInv, Types
  <2> QED BY <1>1, <1>10, <2>1 DEF Job
<1>12. job'[u] = j /\ \A w \in Workers \ {u} : job'[w] = job[w]
  BY <1>1, <1>3, <1>10 DEF RInv, Types, RegisterOnline
<1>13. Busy' = {u}
  BY <1>2, <1>11, <1>12 DEF Busy, Registering
<1>14. plain' => NobodyHeld'
  BY <1>4, <1>7 DEF SeqInv, Orderly, NobodyHeld
<1>15. plain' => ToldExcept(u, job[u].to)'
  <2> SUFFICES ASSUME plain, NEW x \in Users, sess'[x] # "off", NEW y \in Users \ {x}
               PROVE  IF y = u /\ x \in friends \cap Online
                      THEN u \in MutualFriends(x) /\ view[x][u] # "none"
                      ELSE view[x][y] = Expected(x, y)'
    BY <1>4, <1>6, <1>11, <1>12 DEF ToldExcept, Signed
  <2>1. view[x][y] = Expected(x, y)
    BY <1>2, <1>7 DEF Registering, AllShown, Shows, Silent, Signed
  <2>2. CASE y # u
    BY <1>6, <2>1, <2>2 DEF Expected
  <2>3. CASE y = u /\ x \in friends
    <3>1. u \in MutualFriends(x)
      BY <1>3, <2>3, MutualSymmetric
    <3>2. x # u /\ sess[x] # "off" /\ sess[x] # "held"
      BY <1>7, <2>3 DEF SeqInv, Orderly
    <3>3. x \in Online
      BY <3>2 DEF SeqInv, Orderly, RInv, Types, Online
    <3> QED BY <2>1, <2>3, <3>1, <3>3 DEF Expected
  <2>4. CASE y = u /\ x \notin friends
    <3>1. u \notin MutualFriends(x)
      BY <1>3, <2>4, MutualSymmetric
    <3> QED BY <1>6, <2>1, <2>4, <3>1 DEF Expected
  <2> QED BY <2>2, <2>3, <2>4
<1>16. Announcing(u)'
  <2>1. Silent'
    BY <1>2, <1>4 DEF Registering, Silent
  <2>2. job'[u].step = "announce" /\ sess'[u] = "on" /\ job'[u].to \subseteq Online'
    BY <1>6, <1>7, <1>11, <1>12
  <2>3. plain' => NobodyHeld' /\ ToldExcept(u, job[u].to)'
    BY <1>14, <1>15
  <2> QED BY <1>9, <1>13, <2>1, <2>2, <2>3 DEF Announcing
<1> QED BY <1>8, <1>16 DEF SeqInv, Phase

\* One message to each of the targets, where nothing was queued: as many of them as
\* are signed in will then show of u what they should.
LEMMA StatusTold ==
  ASSUME RInv, NEW u \in Users, NEW targets \in SUBSET Users,
         NEW status \in {"online", "offline"}, \A v \in Users : queue[v] = <<>>,
         UNCHANGED <<rel, clients, sess, view>>,
         queue' = Post(queue, targets, Message("status", u, status))
  PROVE  /\ \A v \in Users : Len(queue'[v]) <= 1
         /\ ToldExcept(u, targets) /\ (Visible(u) <=> status = "online") => AllShown'
<1>1. PICK m \in Notice : /\ m = Message("status", u, status) /\ m.type = "status"
                          /\ m.about = u /\ m.status = status
  <2>1. status \in Shown
    BY DEF Shown
  <2> QED BY <2>1, MessageTypes
<1>2. queue' = Post(queue, targets, m) /\ queue \in [Users -> Seq(Notice)]
  BY <1>1 DEF RInv, Types
<1>3. ASSUME NEW v \in Users
      PROVE  queue'[v] = IF v \in targets THEN <<m>> ELSE <<>>
  <2>1. Append(<<>>, m) = <<m>>
    OBVIOUS
  <2> QED BY <1>2, <2>1 DEF Post
<1>4. \A v \in Users : Len(queue'[v]) <= 1
  <2>1. Len(<<m>>) = 1 /\ Len(<<>>) = 0
    OBVIOUS
  <2>2. \A v \in Users : Len(queue'[v]) = 1 \/ Len(queue'[v]) = 0
    BY <1>3, <2>1
  <2>3. \A n : n = 1 \/ n = 0 => n <= 1
    OBVIOUS
  <2> QED BY <2>2, <2>3
<1>5. ASSUME ToldExcept(u, targets), Visible(u) <=> status = "online"
      PROVE  AllShown'
  <2>1. \A x, v : Expected(x, v)' = Expected(x, v)
    BY SameCaches
  <2> SUFFICES ASSUME NEW x \in Signed, NEW y \in Users \ {x}
               PROVE  Shows(x, y)' = Expected(x, y)
    BY <2>1 DEF AllShown, Signed
  <2>2. x \in Users
    BY DEF Signed
  <2>3. CASE x \in targets /\ y = u
    <3>1. u \in MutualFriends(x) /\ view[x][u] # "none"
      BY <1>5, <2>3 DEF ToldExcept
    <3>2. Expected(x, u) = status
      BY <1>5, <3>1 DEF Expected
    <3>3. Received(view[x][u], m) = status
      BY <1>1, <3>1 DEF Received
    <3>4. queue'[x] = <<m>>
      BY <1>3, <2>2, <2>3
    <3>5. Head(<<m>>) = m /\ <<m>> # <<>>
      OBVIOUS
    <3> QED BY <1>1, <2>3, <3>2, <3>3, <3>4, <3>5 DEF Shows
  <2>4. CASE x \in targets /\ y # u
    <3>1. view[x][y] = Expected(x, y)
      BY <1>5, <2>4 DEF ToldExcept
    <3>2. queue'[x] = <<m>> /\ Head(<<m>>) = m
      BY <1>3, <2>2, <2>4
    <3> QED BY <1>1, <2>4, <3>1, <3>2 DEF Shows
  <2>5. CASE x \notin targets
    <3>1. view[x][y] = Expected(x, y)
      BY <1>5, <2>5 DEF ToldExcept
    <3>2. queue'[x] = <<>>
      BY <1>3, <2>2, <2>5
    <3> QED BY <3>1, <3>2 DEF Shows
  <2> QED BY <2>3, <2>4, <2>5
<1> QED BY <1>4, <1>5

\* The friends who are there are told; a player who hides is not announced, but
\* things were not plain then.
LEMMA AnnounceOnlineOrderly ==
  ASSUME RInv, SeqInv, NEW u \in Users, AnnounceOnline(u)
  PROVE  SeqInv'
<1>1. u \in Workers /\ job[u].op = "login" /\ job[u].step = "announce"
  BY DEF AnnounceOnline, Workers
<1>2. Announcing(u)
  BY <1>1, InProgress
<1>3. /\ UNCHANGED <<rel, sess, clients, farewell, view, plain>>
      /\ job' = [job EXCEPT ![u] = NoJob]
  BY DEF AnnounceOnline
<1>4. PICK targets \in SUBSET Users : targets = job[u].to
  BY <1>1 DEF RInv, Types, Job
<1>5. Busy' = {}
  BY <1>1, <1>2, <1>3, NobodyBusy DEF Announcing
<1>6. CachesAgree' /\ \A x, v : Expected(x, v)' = Expected(x, v)
  BY <1>2, <1>3, SameCaches DEF Announcing
<1>7. \A v \in Users : queue[v] = <<>> /\ farewell[v] = {}
  BY <1>2 DEF Announcing, Silent
<1>8. /\ \A v \in Users : Len(queue'[v]) <= 1
      /\ plain' => AllShown'
  <2>1. CASE clients[u].hidden
    <3>1. queue' = queue /\ ~plain'
      BY <1>3, <2>1 DEF AnnounceOnline, SeqInv, Orderly
    <3> QED BY <1>7, <3>1
  <2>2. CASE ~clients[u].hidden
    <3>1. queue' = Post(queue, targets, Message("status", u, "online"))
      BY <1>4, <2>2 DEF AnnounceOnline
    <3>2. Visible(u)
      BY <1>2, <2>2 DEF Announcing, Visible, Online, SeqInv, Orderly
    <3>3. plain => ToldExcept(u, targets)
      BY <1>2, <1>4 DEF Announcing
    <3> QED BY <1>3, <1>7, <3>1, <3>2, <3>3, StatusTold
  <2> QED BY <2>1, <2>2
<1>9. Resting'
  BY <1>3, <1>5, <1>6, <1>7, <1>8 DEF Resting
<1>10. Orderly'
  BY <1>3 DEF SeqInv, Orderly
<1> QED BY <1>9, <1>10 DEF SeqInv, Phase

\* The entry goes first: the friends who were there are those who still show a
\* player who has left.
LEMMA CleanupOrderly ==
  ASSUME ~Overlap, RInv, SeqInv, NEW u \in Users, CleanupOnDisconnect(u)
  PROVE  SeqInv'
<1>1. Starts(u, NobodyHeld \/ sess[u] = "held")
  BY DEF CleanupOnDisconnect
<1>2. /\ Resting /\ Silent /\ Busy = {} /\ CachesAgree
      /\ plain' => plain /\ (NobodyHeld \/ sess[u] = "held")
      /\ plain => \A x \in Signed : \A v \in Users \ {x} : view[x][v] = Expected(x, v)
  BY <1>1, AtRest
<1>3. PICK told \in SUBSET Users :
        told = IF sess[u] = "held" \/ clients[u].hidden THEN {}
               ELSE clients[u].friends \cap Online
  BY DEF Online
<1>4. /\ rel' = rel
      /\ farewell' = [v \in Users |-> IF v = u THEN told ELSE farewell[v] \ {u}]
      /\ sess' = [sess EXCEPT ![u] = "off"]
      /\ clients' = [clients EXCEPT ![u] = NoEntry]
      /\ queue' = [queue EXCEPT ![u] = <<>>]
      /\ view' = [view EXCEPT ![u] = [v \in Users |-> "none"]]
      /\ job' = [w \in Workers |-> [job[w] EXCEPT !.to =
                   IF job[w].step = "register" THEN @ ELSE @ \ {u}]]
  BY <1>3 DEF CleanupOnDisconnect
<1>5. /\ sess'[u] = "off" /\ \A v \in Users \ {u} : sess'[v] = sess[v]
      /\ clients'[u] = NoEntry /\ \A v \in Users \ {u} : clients'[v] = clients[v]
      /\ \A v \in Users \ {u} : view'[v] = view[v]
      /\ \A v \in Users : queue'[v] = <<>>
      /\ farewell'[u] = told /\ \A v \in Users \ {u} : farewell'[v] = {}
  BY <1>2, <1>4 DEF RInv, Types, Silent
<1>6. ~NoEntry.online /\ ~NoEntry.hidden
  BY DEF NoEntry
<1>7. Busy' = {}
  <2>1. \A w \in Workers : job[w] \in Job /\ job[w].op = "none"
    BY <1>2 DEF RInv, Types, Busy
  <2>2. \A w \in Workers : job'[w].op = "none"
    BY <1>4, <2>1 DEF Job
  <2> QED BY <2>2 DEF Busy
<1>8. /\ Online' = Online \ {u} /\ \A x : MutualFriends(x)' = MutualFriends(x)
      /\ \A v \in Users \ {u} : Visible(v)' <=> Visible(v)
      /\ ~Visible(u)'
  BY <1>4, <1>5, <1>6 DEF Online, Visible, MutualFriends, MutualIn
<1>9. CachesAgree'
  <2>1. \A v \in Online' : v \in Online /\ clients'[v] = clients[v]
    BY <1>5, <1>8 DEF Online
  <2> QED BY <1>2, <1>8, <2>1 DEF CachesAgree
<1>10. Orderly'
  <2>1. \A v \in Users : clients'[v].online <=> sess'[v] = "on"
    BY <1>5, <1>6 DEF SeqInv, Orderly
  <2>2. plain' => \A v \in Users : ~clients'[v].hidden
    BY <1>2, <1>5, <1>6 DEF SeqInv, Orderly
  <2>3. plain' => \A v, x \in Users : sess'[v] = "held" /\ sess'[x] = "held" => v = x
    BY <1>2, <1>5 DEF SeqInv, Orderly
  <2> QED BY <2>1, <2>2, <2>3 DEF Orderly
<1>11. ASSUME plain', NEW x \in Users \ {u}, sess[x] # "off"
       PROVE  /\ \A y \in Users \ {x, u} : view[x][y] = Expected(x, y)'
              /\ x \in told => u \in MutualFriends(x) /\ view[x][u] # "none"
              /\ x \notin told => view[x][u] = Expected(x, u)'
  <2>1. \A y \in Users \ {x} : view[x][y] = Expected(x, y)
    BY <1>2, <1>11 DEF Signed
  <2>2. \A y \in Users \ {x, u} : Expected(x, y)' = Expected(x, y)
    BY <1>8 DEF Expected
  <2>3. ~clients[u].hidden
    BY <1>2, <1>11 DEF SeqInv, Orderly
  <2>4. CASE sess[u] = "held"
    <3>1. told = {} /\ ~Visible(u)
      BY <1>3, <2>4 DEF Visible, Online, SeqInv, Orderly
    <3>2. Expected(x, u)' = Expected(x, u)
      BY <1>8, <3>1 DEF Expected
    <3> QED BY <2>1, <2>2, <3>1, <3>2
  <2>5. CASE sess[u] # "held"
    <3>1. NobodyHeld /\ x \in Signed
      BY <1>2, <1>11, <2>5 DEF Signed
    <3>2. x \in Online
      BY <3>1, SignedOnline
    <3>3. sess[u] = "on" /\ u \in Online
      BY <2>5 DEF CleanupOnDisconnect, RInv, Types, SeqInv, Orderly, Online
    <3>4. clients[u].friends = MutualFriends(u)
      BY <1>2, <3>3 DEF CachesAgree
    <3>5. x \in told <=> u \in MutualFriends(x)
      BY <1>3, <2>3, <2>5, <3>2, <3>4, MutualSymmetric
    <3>6. u \in MutualFriends(x) => view[x][u] # "none"
      BY <2>1 DEF Expected
    <3>7. u \notin MutualFriends(x) => view[x][u] = Expected(x, u)'
      BY <1>8, <2>1 DEF Expected
    <3> QED BY <2>1, <2>2, <3>5, <3>6, <3>7
  <2> QED BY <2>4, <2>5
<1>12. CASE told = {}
  <2>1. plain' => AllShown'
    <3> SUFFICES ASSUME plain', NEW x \in Users, sess'[x] # "off", NEW y \in Users \ {x}
                 PROVE  view'[x][y] = Expected(x, y)'
      BY <1>5 DEF AllShown, Signed, Shows
    <3>1. x # u /\ sess[x] # "off" /\ view'[x] = view[x]
      BY <1>5
    <3> QED BY <1>11, <1>12, <3>1
  <2>2. \A v \in Users : farewell'[v] = {} /\ Len(queue'[v]) <= 1
    <3>1. Len(<<>>) = 0
      OBVIOUS
    <3>2. \A v \in Users : Len(queue'[v]) = 0
      BY <1>5, <3>1
    <3> QED BY <1>5, <1>12, <3>2
  <2>3. Resting'
    BY <1>7, <1>9, <2>1, <2>2 DEF Resting
  <2> QED BY <1>10, <2>3 DEF SeqInv, Phase
<1>13. CASE told # {}
  <2>1. told \subseteq Online' /\ sess[u] # "held"
    BY <1>3, <1>8, <1>13 DEF RInv, Sound
  <2>2. plain' => NobodyHeld'
    BY <1>2, <1>5, <2>1 DEF NobodyHeld
  <2>3. plain' => ToldExcept(u, farewell[u])'
    <3> SUFFICES ASSUME plain', NEW x \in Users, sess'[x] # "off", NEW y \in Users \ {x}
                 PROVE  IF y = u /\ x \in told
                        THEN u \in MutualFriends(x) /\ view'[x][u] # "none"
                        ELSE view'[x][y] = Expected(x, y)'
      BY <1>5, <1>8 DEF ToldExcept, Signed
    <3>1. x # u /\ sess[x] # "off" /\ view'[x] = view[x]
      BY <1>5
    <3> QED BY <1>11, <3>1
  <2>4. Parted(u)'
    BY <1>5, <1>7, <1>9, <1>13, <2>1, <2>2, <2>3 DEF Parted
  <2> QED BY <1>10, <2>4 DEF SeqInv, Phase
<1> QED BY <1>12, <1>13

\* The farewells go out; nobody has become visible meanwhile.
LEMMA AnnounceOfflineOrderly ==
  ASSUME RInv, SeqInv, NEW u \in Users, AnnounceOffline(u)
  PROVE  SeqInv'
<1>1. farewell[u] # {}
  BY DEF AnnounceOffline
<1>2. Parted(u)
  BY <1>1 DEF SeqInv, Phase, Resting, Registering, Announcing, Parted, Writing, Applying,
     Notifying, InHand, Silent
<1>3. PICK targets \in SUBSET Users : targets = farewell[u]
  BY DEF RInv, Types
<1>4. /\ UNCHANGED <<rel, sess, clients, job, view, plain>>
      /\ farewell' = [farewell EXCEPT ![u] = {}]
      /\ queue' = Post(queue, targets, Message("status", u, "offline"))
  BY <1>3 DEF AnnounceOffline
<1>5. \A v \in Users : queue[v] = <<>> /\ farewell'[v] = {}
  BY <1>2, <1>4 DEF Parted, RInv, Types
<1>6. CachesAgree' /\ Busy' = {}
  BY <1>2, <1>4, SameCaches DEF Parted, Busy
<1>7. ~Visible(u)
  BY <1>2 DEF Parted, Visible, Online, SeqInv, Orderly
<1>8. plain => ToldExcept(u, targets)
  BY <1>2, <1>3 DEF Parted
<1>9. (\A v \in Users : Len(queue'[v]) <= 1) /\ (plain' => AllShown')
  BY <1>4, <1>5, <1>7, <1>8, StatusTold
<1>10. Resting'
  BY <1>5, <1>6, <1>9 DEF Resting
<1>11. Orderly'
  BY <1>4 DEF SeqInv, Orderly
<1> QED BY <1>10, <1>11 DEF SeqInv, Phase

\* A setting that ends what is plain, and touches no list.
LEMMA CmdSetAppearOfflineOrderly ==
  ASSUME ~Overlap, RInv, SeqInv, NEW u \in Users, NEW hidden \in BOOLEAN,
         CmdSetAppearOffline(u, hidden)
  PROVE  SeqInv'
<1>1. Resting /\ Silent /\ ~plain'
  <2>1. Starts(u, FALSE)
    BY DEF CmdSetAppearOffline
  <2> QED BY <2>1, AtRest
<1>2. /\ UNCHANGED <<rel, sess, job, farewell, queue, view>>
      /\ clients' = [clients EXCEPT ![u].hidden = hidden]
  BY DEF CmdSetAppearOffline
<1>3. ASSUME NEW v \in Users
      PROVE  /\ clients'[v].online <=> clients[v].online
             /\ clients'[v].friends = clients[v].friends
  <2>1. clients[v] \in Entry /\ clients[u] \in Entry
    BY DEF RInv, Types
  <2>2. clients'[v] = IF v = u THEN [clients[u] EXCEPT !.hidden = hidden] ELSE clients[v]
    BY <1>2 DEF RInv, Types
  <2> QED BY <2>1, <2>2 DEF Entry
<1>4. CachesAgree'
  <2>1. Online' = Online /\ \A x : MutualFriends(x)' = MutualFriends(x)
    BY <1>2, <1>3 DEF Online, MutualFriends, MutualIn
  <2>2. \A x \in Online : clients'[x].friends = clients[x].friends
    BY <1>3 DEF Online
  <2> QED BY <1>1, <2>1, <2>2 DEF Resting, CachesAgree
<1>5. Resting'
  BY <1>1, <1>2, <1>4 DEF Resting, Busy
<1>6. Orderly'
  BY <1>1, <1>2, <1>3 DEF SeqInv, Orderly
<1> QED BY <1>5, <1>6 DEF SeqInv, Phase

\* What arrives is what was counted as shown already.
LEMMA DeliverOrderly ==
  ASSUME RInv, SeqInv, NEW u \in Users, Deliver(u)
  PROVE  SeqInv'
<1>1. queue[u] # <<>> /\ queue \in [Users -> Seq(Notice)]
  BY DEF Deliver, RInv, Types
<1>2. Resting
  BY <1>1 DEF SeqInv, Phase, Registering, Announcing, Parted, Writing, Applying,
     Notifying, InHand, Silent
<1>3. PICK m \in Notice : m = Head(queue[u])
  BY <1>1
<1>4. /\ UNCHANGED <<rel, sess, clients, job, farewell, plain>>
      /\ view' = [view EXCEPT ![u][m.about] = Received(view[u][m.about], m)]
      /\ queue' = [queue EXCEPT ![u] = Tail(queue[u])]
  BY <1>3 DEF Deliver
<1>5. Tail(queue[u]) = <<>>
  <2>1. Len(queue[u]) <= 1 /\ queue[u] \in Seq(Notice)
    BY <1>1, <1>2 DEF Resting
  <2> QED BY <1>1, <2>1
<1>6. m.about \in Users
  BY DEF Notice
<1>7. /\ queue'[u] = <<>> /\ \A x \in Users \ {u} : queue'[x] = queue[x]
      /\ \A x \in Users \ {u} : view'[x] = view[x]
      /\ view'[u][m.about] = Received(view[u][m.about], m)
      /\ \A y \in Users \ {m.about} : view'[u][y] = view[u][y]
  BY <1>4, <1>5, <1>6 DEF RInv, Types
<1>8. \A x, y \in Users : Shows(x, y)' = Shows(x, y)
  <2> SUFFICES ASSUME NEW x \in Users, NEW y \in Users
               PROVE  Shows(x, y)' = Shows(x, y)
    OBVIOUS
  <2>1. CASE x = u
    BY <1>1, <1>3, <1>7, <2>1 DEF Shows
  <2>2. CASE x # u
    BY <1>7, <2>2 DEF Shows
  <2> QED BY <2>1, <2>2
<1>9. CachesAgree' /\ \A x, v : Expected(x, v)' = Expected(x, v)
  BY <1>2, <1>4, SameCaches DEF Resting
<1>10. plain' => AllShown'
  BY <1>2, <1>4, <1>8, <1>9 DEF Resting, AllShown, Signed
<1>11. \A v \in Users : farewell'[v] = {} /\ Len(queue'[v]) <= 1
  <2>1. Len(<<>>) = 0 /\ 0 <= 1
    OBVIOUS
  <2> QED BY <1>2, <1>4, <1>7, <2>1 DEF Resting
<1>12. Resting'
  BY <1>2, <1>4, <1>9, <1>10, <1>11 DEF Resting, Busy
<1>13. Orderly'
  BY <1>4 DEF SeqInv, Orderly
<1> QED BY <1>12, <1>13 DEF SeqInv, Phase

-----------------------------------------------------------------------------
(* Commands, one after the other *)

\* A command starts at rest; as long as things are plain it is a player's who is
\* online, or an operator's.
LEMMA ReadOrderly ==
  ASSUME ~Overlap, RInv, SeqInv, NEW w \in Workers, NEW op \in Commands,
         NEW a \in Users, NEW b \in Users, Read(w, op, a, b),
         w \in Members \cup Admins \/ (w = a /\ sess[a] # "off")
  PROVE  SeqInv'
<1>1. Starts(w, w \notin Members /\ NobodyHeld)
  BY DEF Read
<1>2. /\ Resting /\ Silent /\ Busy = {} /\ CachesAgree
      /\ plain' => plain /\ w \notin Members /\ NobodyHeld
  BY <1>1, AtRest
<1>3. PICK m, t : m = NewRow(op, rel[a][b], rel[b][a])[1]
                  /\ t = NewRow(op, rel[a][b], rel[b][a])[2]
  OBVIOUS
<1>4. PICK wasFriend \in BOOLEAN : wasFriend = MutualIn(rel, a, b)
  BY DEF MutualIn
<1>5. PICK j : j = [op |-> op, step |-> "write", a |-> {a}, b |-> {b}, mine |-> m,
                    theirs |-> t, wasFriend |-> wasFriend, online |-> {}, to |-> {}]
  OBVIOUS
<1>6. /\ j.op = op /\ j.step = "write" /\ j.a = {a} /\ j.b = {b}
      /\ j.mine = m /\ j.theirs = t /\ (j.wasFriend <=> MutualIn(rel, a, b))
  BY <1>4, <1>5
<1>7. job' = [job EXCEPT ![w] = j]
  BY <1>3, <1>4, <1>5 DEF Read
<1>8. job'[w] = j /\ \A x \in Workers \ {w} : job'[x] = job[x]
  BY <1>7 DEF RInv, Types
<1>9. Busy' = {w}
  BY <1>2, <1>6, <1>8 DEF Busy, Commands
<1>10. /\ UNCHANGED <<rel, sess, clients, farewell, queue, view>>
       /\ a # b /\ Allowed(op, rel[a][b], rel[b][a])
  BY DEF Read
<1>11. CachesAgree' /\ \A x, v : Expected(x, v)' = Expected(x, v)
  BY <1>2, <1>10, SameCaches
<1>12. plain' => AllShown'
  BY <1>2, <1>10, <1>11 DEF Resting, AllShown, Shows, Signed
<1>13. plain' => NobodyHeld' /\ (w \in Admins \/ (w = a /\ a \in Online'))
  <2>1. NobodyHeld /\ sess[a] # "off" => a \in Online
    BY DEF NobodyHeld, RInv, Types, SeqInv, Orderly, Online
  <2> QED BY <1>2, <1>10, <2>1 DEF NobodyHeld, Online
<1>14. InHand(w, a, b)'
  BY <1>2, <1>6, <1>8, <1>9, <1>10, <1>13 DEF InHand, Silent
<1>15. /\ job'[w].op = op /\ job'[w].step = "write"
       /\ job'[w].mine = NewRow(op, rel[a][b], rel[b][a])[1]
       /\ job'[w].theirs = NewRow(op, rel[a][b], rel[b][a])[2]
       /\ job'[w].wasFriend <=> MutualIn(rel, a, b)
  BY <1>3, <1>6, <1>8
<1>16. Writing(w, a, b)'
  BY <1>10, <1>11, <1>12, <1>14, <1>15 DEF Writing
<1>17. Orderly'
  BY <1>2, <1>10 DEF SeqInv, Orderly
<1> QED BY <1>16, <1>17 DEF SeqInv, Phase

\* Whether the command goes on after the write, and is to tell of a friendship that
\* began or ended.
GoesOn(op, wasFriend, mutual) ==
  \/ op \in {"RemoveFriend", "MakeFriends"}
  \/ op = "AddFriend" /\ mutual
  \/ op = "AddBlock" /\ wasFriend

\* A command that goes on has made friends exactly if it is one that adds; one that
\* does not, or has no friendship to tell of, leaves the two what they were.
LEMMA RowOutcome ==
  ASSUME NEW op \in Commands, NEW mine \in SUBSET Flags, NEW theirs \in SUBSET Flags,
         Allowed(op, mine, theirs)
  PROVE  LET was == "F" \in mine /\ "F" \in theirs
             now == /\ "F" \in NewRow(op, mine, theirs)[1]
                    /\ "F" \in NewRow(op, mine, theirs)[2]
             adds == op \in {"AddFriend", "MakeFriends"}
         IN  /\ GoesOn(op, was, now) => (adds <=> now)
             /\ ~GoesOn(op, was, now) => (now <=> was)
             /\ ~(adds \/ was) /\ GoesOn(op, was, now) => (now <=> was)
<1>1. CASE op = "AddFriend"
  BY <1>1 DEF NewRow, Allowed, MayAdd, GoesOn
<1>2. CASE op = "RemoveFriend"
  BY <1>2 DEF NewRow, Allowed, GoesOn
<1>3. CASE op = "AddBlock"
  BY <1>3 DEF NewRow, Allowed, GoesOn
<1>4. CASE op = "RemoveBlock"
  BY <1>4 DEF NewRow, Allowed, GoesOn
<1>5. CASE op = "MakeFriends"
  BY <1>5 DEF NewRow, Allowed, GoesOn
<1> QED BY <1>1, <1>2, <1>3, <1>4, <1>5 DEF Commands

\* Whose friends a write changes: those of the two.
LEMMA FriendsAfterWrite ==
  ASSUME RInv, NEW w \in Workers, NEW a \in Users, NEW b \in Users, a # b,
         WriteRelStatus(w, a, b)
  PROVE  LET now == "F" \in job[w].mine /\ "F" \in job[w].theirs IN
         /\ MutualIn(rel', a, b) <=> now
         /\ \A u \in Users, v \in Users :
              {u, v} # {a, b} => (v \in MutualFriends(u)' <=> v \in MutualFriends(u))
         /\ b \in MutualFriends(a)' <=> now
         /\ a \in MutualFriends(b)' <=> now
<1>1. /\ rel'[a][b] = job[w].mine /\ rel'[b][a] = job[w].theirs
      /\ \A c, d \in Users : {c, d} # {a, b} => rel'[c][d] = rel[c][d]
  <2>1. Types
    BY DEF RInv
  <2>2. Written(w, a, b)
    BY <2>1, WrittenRows
  <2> QED BY <2>2 DEF Written
<1>2. ASSUME NEW u \in Users, NEW v \in Users, {u, v} # {a, b}
      PROVE  v \in MutualFriends(u)' <=> v \in MutualFriends(u)
  <2>1. {v, u} # {a, b}
    BY <1>2
  <2>2. rel'[u][v] = rel[u][v] /\ rel'[v][u] = rel[v][u]
    BY <1>1, <1>2, <2>1
  <2> QED BY <2>2 DEF MutualFriends, MutualIn
<1>3. /\ MutualIn(rel', a, b) <=> "F" \in job[w].mine /\ "F" \in job[w].theirs
      /\ b \in MutualFriends(a)' <=> "F" \in job[w].mine /\ "F" \in job[w].theirs
      /\ a \in MutualFriends(b)' <=> "F" \in job[w].mine /\ "F" \in job[w].theirs
  BY <1>1 DEF MutualFriends, MutualIn
<1> QED BY <1>2, <1>3

\* A row is written: either the command goes on to the table, which then lacks exactly
\* what the row has changed, or nobody's friends have changed.
LEMMA WriteOrderly ==
  ASSUME RInv, SeqInv, NEW w \in Workers, NEW a \in Users, NEW b \in Users,
         WriteRelStatus(w, a, b)
  PROVE  SeqInv'
<1>1. PICK j \in Job : j = job[w] /\ JobOK(j, w)
  BY DEF RInv, Types, Sound
<1>2. j.step = "write" /\ j.a = {a} /\ j.b = {b} /\ j.op \in Commands
  BY <1>1 DEF WriteRelStatus, JobOK
<1>3. Writing(w, a, b) /\ a # b
  <2>1. job[w].op # "none"
    BY <1>1, <1>2 DEF Commands
  <2>2. Writing(w, a, b)
    BY <1>1, <1>2, <2>1, InProgress
  <2> QED BY <2>2 DEF Writing, InHand
<1>4. PICK was \in BOOLEAN, now \in BOOLEAN, goesOn \in BOOLEAN, adds \in BOOLEAN :
        /\ was <=> "F" \in rel[a][b] /\ "F" \in rel[b][a]
        /\ now <=> "F" \in j.mine /\ "F" \in j.theirs
        /\ goesOn <=> GoesOn(j.op, j.wasFriend, now)
        /\ adds <=> j.op \in {"AddFriend", "MakeFriends"}
        /\ j.wasFriend <=> was
        /\ MutualIn(rel, a, b) <=> was
  <2>1. j.wasFriend <=> MutualIn(rel, a, b)
    BY <1>1, <1>3 DEF Writing
  <2> QED BY <2>1 DEF MutualIn, GoesOn
<1>5. /\ goesOn => (adds <=> now)
      /\ ~goesOn => (now <=> was)
      /\ goesOn /\ ~(adds \/ was) => (now <=> was)
  <2>1. PICK mine \in SUBSET Flags, theirs \in SUBSET Flags :
          mine = rel[a][b] /\ theirs = rel[b][a]
    BY DEF RInv, Types
  <2>2. PICK op \in Commands : op = j.op
    BY <1>2
  <2>3. /\ Allowed(op, mine, theirs)
        /\ j.mine = NewRow(op, mine, theirs)[1] /\ j.theirs = NewRow(op, mine, theirs)[2]
    BY <1>1, <1>3, <2>1, <2>2 DEF Writing
  <2>4. /\ was <=> "F" \in mine /\ "F" \in theirs
        /\ now <=> /\ "F" \in NewRow(op, mine, theirs)[1]
                   /\ "F" \in NewRow(op, mine, theirs)[2]
        /\ adds <=> op \in {"AddFriend", "MakeFriends"}
    BY <1>4, <2>1, <2>2, <2>3
  <2>5. goesOn <=> GoesOn(op, was, now)
    BY <1>4, <2>2 DEF GoesOn
  <2>6. LET was0 == "F" \in mine /\ "F" \in theirs
            now0 == /\ "F" \in NewRow(op, mine, theirs)[1]
                    /\ "F" \in NewRow(op, mine, theirs)[2]
            adds0 == op \in {"AddFriend", "MakeFriends"}
        IN  /\ GoesOn(op, was0, now0) => (adds0 <=> now0)
            /\ ~GoesOn(op, was0, now0) => (now0 <=> was0)
            /\ ~(adds0 \/ was0) /\ GoesOn(op, was0, now0) => (now0 <=> was0)
    BY <2>3, RowOutcome
  <2> QED BY <2>4, <2>5, <2>6 DEF GoesOn
<1>6. /\ MutualIn(rel', a, b) <=> now
      /\ \A u \in Users, v \in Users :
           {u, v} # {a, b} => (v \in MutualFriends(u)' <=> v \in MutualFriends(u))
      /\ b \in MutualFriends(a)' <=> now
      /\ a \in MutualFriends(b)' <=> now
  <2>1. LET now0 == "F" \in job[w].mine /\ "F" \in job[w].theirs IN
         /\ MutualIn(rel', a, b) <=> now0
         /\ \A u \in Users, v \in Users :
              {u, v} # {a, b} => (v \in MutualFriends(u)' <=> v \in MutualFriends(u))
         /\ b \in MutualFriends(a)' <=> now0
         /\ a \in MutualFriends(b)' <=> now0
    BY <1>3, FriendsAfterWrite
  <2> QED BY <1>1, <1>4, <2>1
<1>7. /\ UNCHANGED <<sess, clients, farewell, queue, view, plain>>
      /\ job' = [job EXCEPT ![w] = IF goesOn THEN [j EXCEPT !.step = "apply"] ELSE NoJob]
  BY <1>1, <1>4 DEF WriteRelStatus, GoesOn, RInv, Types
<1>8. Orderly'
  BY <1>7 DEF SeqInv, Orderly
<1>9. (b \in MutualFriends(a) <=> was) /\ (a \in MutualFriends(b) <=> was)
  BY <1>3, <1>4 DEF MutualFriends, MutualIn
<1>10. /\ Silent /\ CachesAgree /\ Busy = {w}
       /\ \A u \in Users : MutualFriends(u) \subseteq Users
       /\ \A u \in Users : MutualFriends(u)' \subseteq Users
  BY <1>3 DEF Writing, InHand, MutualFriends
<1>11. ASSUME now <=> was
       PROVE  \A u, v \in Users : v \in MutualFriends(u)' <=> v \in MutualFriends(u)
  <2>1. \A u, v \in Users : {u, v} = {a, b} => (u = a /\ v = b) \/ (u = b /\ v = a)
                                               \/ (u = v)
    OBVIOUS
  <2>2. \A u \in Users : u \notin MutualFriends(u) /\ u \notin MutualFriends(u)'
    BY DEF MutualFriends
  <2> QED BY <1>6, <1>9, <1>11, <2>1, <2>2
<1>12. /\ \A v : Visible(v)' <=> Visible(v)
       /\ Online' = Online /\ Silent' /\ (NobodyHeld' <=> NobodyHeld)
  BY <1>7, <1>10 DEF Visible, Online, Silent, NobodyHeld
<1>13. \A u, v \in Users : (v \in MutualFriends(u)' <=> v \in MutualFriends(u))
                           => Expected(u, v)' = Expected(u, v)
  BY <1>12 DEF Expected
<1>14. plain => \A x \in Signed : \A y \in Users \ {x} : view[x][y] = Expected(x, y)
  <2>1. plain => AllShown
    BY <1>3 DEF Writing
  <2>2. \A x \in Signed : \A y : Shows(x, y) = view[x][y]
    BY <1>10 DEF Signed, Shows, Silent
  <2> QED BY <2>1, <2>2 DEF AllShown
<1>15. CASE ~goesOn
  <2>1. \A u, v \in Users : v \in MutualFriends(u)' <=> v \in MutualFriends(u)
    BY <1>5, <1>11, <1>15
  <2>2. \A u \in Users : MutualFriends(u)' = MutualFriends(u)
    BY <1>10, <2>1
  <2>3. CachesAgree'
    BY <1>7, <1>10, <1>12, <2>2 DEF CachesAgree, Online
  <2>4. job' = [job EXCEPT ![w] = NoJob]
    BY <1>7, <1>15
  <2>5. Busy' = {}
    BY <1>10, <2>4, NobodyBusy
  <2>6. plain' => AllShown'
    <3> SUFFICES ASSUME plain, NEW x \in Signed, NEW y \in Users \ {x}
                 PROVE  Shows(x, y)' = Expected(x, y)'
      BY <1>7 DEF AllShown, Signed
    <3>1. x \in Users /\ queue'[x] = <<>> /\ view' = view
      BY <1>7, <1>10 DEF Signed, Silent
    <3> QED BY <1>13, <1>14, <2>1, <3>1 DEF Shows
  <2>7. \A u \in Users : farewell'[u] = {} /\ Len(queue'[u]) <= 1
    <3>1. Len(<<>>) = 0 /\ 0 <= 1
      OBVIOUS
    <3> QED BY <1>12, <3>1 DEF Silent
  <2>8. Resting'
    BY <2>3, <2>5, <2>6, <2>7 DEF Resting
  <2> QED BY <1>8, <2>8 DEF SeqInv, Phase
<1>16. CASE goesOn
  <2>1. PICK k : k = [j EXCEPT !.step = "apply"]
    OBVIOUS
  <2>2. /\ k.op = j.op /\ k.step = "apply" /\ k.a = {a} /\ k.b = {b}
        /\ k.wasFriend <=> j.wasFriend
    BY <1>2, <2>1 DEF Job
  <2>3. job'[w] = k /\ \A x \in Workers \ {w} : job'[x] = job[x]
    BY <1>7, <1>16, <2>1 DEF RInv, Types
  <2>4. Busy' = {w}
    BY <1>2, <1>10, <2>2, <2>3 DEF Busy, Commands
  <2>5. (Adds(w)' <=> adds) /\ (adds <=> now) /\ (job'[w].wasFriend <=> was)
    BY <1>4, <1>5, <1>16, <2>2, <2>3 DEF Adds
  <2>6. InHand(w, a, b)'
    BY <1>3, <1>7, <1>12, <2>2, <2>3, <2>4 DEF Writing, InHand
  <2>7. ASSUME NEW u \in Online
        PROVE  MutualFriends(u)' = IF u \notin {a, b} THEN clients[u].friends
                                   ELSE IF now THEN clients[u].friends \cup ({a, b} \ {u})
                                   ELSE clients[u].friends \ ({a, b} \ {u})
    <3>1. u \in Users /\ clients[u].friends = MutualFriends(u)
      BY <1>10 DEF CachesAgree, Online
    <3>2. u \notin MutualFriends(u) /\ u \notin MutualFriends(u)'
      BY DEF MutualFriends
    <3>3. CASE u \notin {a, b}
      <4>1. \A v \in Users : {u, v} # {a, b}
        BY <3>3
      <4>2. \A v \in Users : v \in MutualFriends(u)' <=> v \in MutualFriends(u)
        BY <1>6, <3>1, <4>1
      <4> QED BY <1>10, <3>1, <3>3, <4>2
    <3>4. CASE u = a
      <4>1. \A v \in Users \ {a, b} : v \in MutualFriends(a)' <=> v \in MutualFriends(a)
        <5>1. \A v \in Users \ {a, b} : {a, v} # {a, b}
          OBVIOUS
        <5> QED BY <1>6, <5>1
      <4>2. {a, b} \ {u} = {b}
        BY <1>3, <3>4
      <4>3. MutualFriends(a)' = IF now THEN MutualFriends(a) \cup {b}
                                ELSE MutualFriends(a) \ {b}
        BY <1>6, <1>10, <3>2, <3>4, <4>1
      <4> QED BY <3>1, <3>4, <4>2, <4>3
    <3>5. CASE u = b
      <4>1. \A v \in Users \ {a, b} : v \in MutualFriends(b)' <=> v \in MutualFriends(b)
        <5>1. \A v \in Users \ {a, b} : {b, v} # {a, b}
          OBVIOUS
        <5> QED BY <1>6, <5>1
      <4>2. {a, b} \ {u} = {a}
        BY <1>3, <3>5
      <4>3. MutualFriends(b)' = IF now THEN MutualFriends(b) \cup {a}
                                ELSE MutualFriends(b) \ {a}
        BY <1>6, <1>10, <3>2, <3>5, <4>1
      <4> QED BY <3>1, <3>5, <4>2, <4>3
    <3> QED BY <3>3, <3>4, <3>5
  <2>8. plain' => PairUntold(w, a, b)'
    <3> SUFFICES ASSUME plain, NEW x \in Signed, NEW y \in Users \ {x},
                        {x, y} # {a, b} \/ ~(adds \/ was)
                 PROVE  view[x][y] = Expected(x, y)'
      BY <1>7, <2>5 DEF PairUntold, Signed
    <3>1. x \in Users /\ y \in Users
      BY DEF Signed
    <3>2. y \in MutualFriends(x)' <=> y \in MutualFriends(x)
      BY <1>5, <1>6, <1>11, <1>16, <3>1
    <3> QED BY <1>13, <1>14, <3>1, <3>2
  <2>9. Applying(w, a, b)'
    <3>1. job'[w].step = "apply" /\ (Adds(w)' <=> MutualIn(rel', a, b))
      BY <1>6, <2>2, <2>3, <2>5
    <3>2. \A u \in Online' : MutualFriends(u)' = IF u \notin {a, b} THEN clients'[u].friends
                        ELSE IF Adds(w)' THEN clients'[u].friends \cup ({a, b} \ {u})
                        ELSE clients'[u].friends \ ({a, b} \ {u})
      BY <1>7, <1>12, <2>5, <2>7
    <3> QED BY <2>6, <2>8, <3>1, <3>2 DEF Applying, MutualIn
  <2> QED BY <1>8, <2>9 DEF SeqInv, Phase
<1> QED BY <1>15, <1>16

\* The entries of the two who are there catch up with the row.
LEMMA ApplyOrderly ==
  ASSUME RInv, SeqInv, NEW w \in Workers, NEW a \in Users, NEW b \in Users,
         ApplyToClients(w, a, b)
  PROVE  SeqInv'
<1>1. PICK j \in Job : j = job[w] /\ JobOK(j, w)
  BY DEF RInv, Types, Sound
<1>2. j.step = "apply" /\ j.a = {a} /\ j.b = {b} /\ j.op \in Commands
  BY <1>1 DEF ApplyToClients, JobOK
<1>3. Applying(w, a, b) /\ a # b
  <2>1. job[w].op # "none"
    BY <1>1, <1>2 DEF Commands
  <2>2. Applying(w, a, b)
    BY <1>1, <1>2, <2>1, InProgress
  <2> QED BY <2>2 DEF Applying, InHand
<1>4. PICK add \in BOOLEAN : add <=> Adds(w)
  BY DEF Adds
<1>5. /\ clients'[a] = Changed(clients[a], add, b)
      /\ clients'[b] = Changed(clients[b], add, a)
      /\ \A v \in Users \ {a, b} : clients'[v] = clients[v]
      /\ job'[w] = [j EXCEPT !.step = "notify", !.online = {a, b} \cap Online,
                             !.to = {a, b} \cap Online]
      /\ \A x \in Workers \ {w} : job'[x] = job[x]
  <2>1. LET adds == job[w].op \in {"AddFriend", "MakeFriends"} IN
         /\ clients' \in [Users -> Entry]
         /\ clients'[a] = Changed(clients[a], adds, b)
         /\ clients'[b] = Changed(clients[b], adds, a)
         /\ \A v \in Users \ {a, b} : clients'[v] = clients[v]
         /\ job' \in [Workers -> Job]
         /\ job'[w] = [job[w] EXCEPT !.step = "notify", !.online = {a, b} \cap Online,
                                     !.to = {a, b} \cap Online]
         /\ \A x \in Workers \ {w} : job'[x] = job[x]
    BY <1>3, ApplyActs
  <2> QED BY <1>1, <1>4, <2>1 DEF Adds, Changed
<1>6. UNCHANGED <<rel, sess, farewell, queue, view, plain>>
  BY DEF ApplyToClients
<1>7. PICK k : k = job'[w]
  OBVIOUS
<1>8. /\ k.op = j.op /\ k.step = "notify" /\ k.a = {a} /\ k.b = {b}
      /\ (k.wasFriend <=> j.wasFriend)
      /\ k.online = {a, b} \cap Online /\ k.to = {a, b} \cap Online
  BY <1>2, <1>5, <1>7 DEF Job
<1>9. ASSUME NEW u \in Users
      PROVE  /\ (clients'[u].online <=> clients[u].online)
             /\ (clients'[u].hidden <=> clients[u].hidden)
             /\ clients[u].online =>
                  clients'[u].friends = IF u \notin {a, b} THEN clients[u].friends
                                        ELSE IF add THEN clients[u].friends \cup ({a, b} \ {u})
                                        ELSE clients[u].friends \ ({a, b} \ {u})
  <2>1. PICK e \in Entry : e = clients[u]
    BY DEF RInv, Types
  <2>2. CASE u \notin {a, b}
    BY <1>5, <2>2
  <2>3. ASSUME NEW o \in Users
        PROVE  LET new == Changed(e, add, o) IN
               /\ (new.online <=> e.online) /\ (new.hidden <=> e.hidden)
               /\ e.online => new.friends = IF add THEN e.friends \cup {o}
                                            ELSE e.friends \ {o}
    BY DEF Changed, Entry
  <2>4. CASE u = a
    <3>1. {a, b} \ {u} = {b}
      BY <1>3, <2>4
    <3>2. PICK new : new = clients'[u]
      OBVIOUS
    <3>3. new = Changed(e, add, b)
      BY <1>5, <2>1, <2>4, <3>2
    <3>4. /\ (new.online <=> e.online) /\ (new.hidden <=> e.hidden)
          /\ e.online => new.friends = IF add THEN e.friends \cup {b}
                                       ELSE e.friends \ {b}
      BY <2>3, <3>3
    <3> QED BY <2>1, <2>4, <3>1, <3>2, <3>4
  <2>5. CASE u = b
    <3>1. {a, b} \ {u} = {a}
      BY <1>3, <2>5
    <3>2. PICK new : new = clients'[u]
      OBVIOUS
    <3>3. new = Changed(e, add, a)
      BY <1>5, <2>1, <2>5, <3>2
    <3>4. /\ (new.online <=> e.online) /\ (new.hidden <=> e.hidden)
          /\ e.online => new.friends = IF add THEN e.friends \cup {a}
                                       ELSE e.friends \ {a}
      BY <2>3, <3>3
    <3> QED BY <2>1, <2>5, <3>1, <3>2, <3>4
  <2> QED BY <2>2, <2>4, <2>5
<1>10. /\ Online' = Online /\ \A x : MutualFriends(x)' = MutualFriends(x)
       /\ \A v \in Users : Visible(v)' <=> Visible(v)
  BY <1>6, <1>9 DEF Online, Visible, MutualFriends, MutualIn
<1>11. \A x : \A v \in Users : Expected(x, v)' = Expected(x, v)
  BY <1>6, <1>10, SameExpected
<1>12. CachesAgree'
  <2> SUFFICES ASSUME NEW u \in Online
               PROVE  clients'[u].friends = MutualFriends(u)
    BY <1>10 DEF CachesAgree
  <2>1. u \in Users /\ clients[u].online
    BY DEF Online
  <2>2. MutualFriends(u) = IF u \notin {a, b} THEN clients[u].friends
                           ELSE IF add THEN clients[u].friends \cup ({a, b} \ {u})
                           ELSE clients[u].friends \ ({a, b} \ {u})
    BY <1>3, <1>4 DEF Applying
  <2> QED BY <1>9, <2>1, <2>2
<1>13. Busy' = {w}
  <2>1. Busy = {w}
    BY <1>3 DEF Applying, InHand
  <2> QED BY <1>2, <1>5, <1>7, <1>8, <2>1 DEF Busy, Commands
<1>14. (Adds(w)' <=> Adds(w)) /\ (job'[w].wasFriend <=> job[w].wasFriend)
  BY <1>1, <1>7, <1>8 DEF Adds
<1>15. InHand(w, a, b)'
  <2>1. Silent' /\ (NobodyHeld' <=> NobodyHeld) /\ (a \in Online' <=> a \in Online)
    BY <1>3, <1>6, <1>10 DEF Applying, InHand, Silent, NobodyHeld
  <2> QED BY <1>3, <1>6, <1>7, <1>8, <1>13, <2>1 DEF Applying, InHand
<1>16. plain' => PairUntold(w, a, b)'
  <2> SUFFICES ASSUME plain, NEW x \in Signed, NEW y \in Users \ {x},
                      {x, y} # {a, b} \/ ~(Adds(w) \/ job[w].wasFriend)
               PROVE  view[x][y] = Expected(x, y)
    BY <1>6, <1>11, <1>14 DEF PairUntold, Signed
  <2> QED BY <1>3 DEF Applying, PairUntold
<1>17. Notifying(w, a, b)'
  <2>1. /\ job'[w].step = "notify" /\ (Adds(w)' <=> MutualIn(rel', a, b))
        /\ job'[w].online = {a, b} \cap Online' /\ job'[w].to = {a, b} \cap Online'
    BY <1>3, <1>6, <1>7, <1>8, <1>10, <1>14 DEF Applying, MutualIn
  <2> QED BY <1>12, <1>15, <1>16, <2>1 DEF Notifying, MutualIn
<1>18. Orderly'
  <2>1. \A v \in Users : clients'[v].online <=> sess'[v] = "on"
    BY <1>6, <1>9 DEF SeqInv, Orderly
  <2>2. plain' => \A v \in Users : ~clients'[v].hidden
    BY <1>6, <1>9 DEF SeqInv, Orderly
  <2>3. plain' => \A v, x \in Users : sess'[v] = "held" /\ sess'[x] = "held" => v = x
    BY <1>6 DEF SeqInv, Orderly
  <2> QED BY <2>1, <2>2, <2>3 DEF Orderly
<1> QED BY <1>17, <1>18 DEF SeqInv, Phase

\* The two messages, and where they end up if nothing was queued: the caller shows
\* its own at once.
News(w, a, b, there, toA, toB) ==
  /\ toA.about = b /\ toB.about = a
  /\ Adds(w) => /\ toA.type = "new" /\ toB.type = "new"
                /\ toA.status = IF b \in Online THEN "online" ELSE "offline"
                /\ toB.status = IF w \notin Admins \/ a \in Online THEN "online" ELSE "offline"
  /\ ~Adds(w) => toA.type = "lost" /\ toB.type = "lost"
  /\ view' = IF w = a
             THEN [view EXCEPT ![a] = [view[a] EXCEPT ![b] = Received(view[a][b], toA)]]
             ELSE view
  /\ \A u \in Users :
       queue'[u] = IF u = b /\ b \in there THEN <<toB>>
                   ELSE IF u = a /\ a \in there /\ w # a THEN <<toA>> ELSE <<>>

\* What notifying sends where nothing was queued: news of the other to each of the two,
\* to the caller at once.
LEMMA NotifyTells ==
  ASSUME RInv, NEW w \in Workers, NEW a \in Users, NEW b \in Users, a # b,
         job[w].online = {a, b} \cap Online, job[w].to = {a, b} \cap Online,
         \A u \in Users : queue[u] = <<>>, NotifyBoth(w, a, b), NEW there,
         there = IF w \notin Admins \/ Adds(w) \/ job[w].wasFriend
                 THEN {a, b} \cap Online ELSE {}
  PROVE  \E toA, toB \in Notice : News(w, a, b, there, toA, toB)
<1> DEFINE Status(u) == IF u \in job[w].online THEN "online" ELSE "offline"
           newsA == IF Adds(w) THEN Message("new", b, Status(b)) ELSE Message("lost", b, "none")
           newsB == IF Adds(w)
                    THEN Message("new", a, IF w \in Admins THEN Status(a) ELSE "online")
                    ELSE Message("lost", a, "none")
<1>1. PICK toA \in Notice :
        /\ toA = newsA /\ toA.about = b
        /\ Adds(w) => /\ toA.type = "new"
                      /\ toA.status = IF b \in Online THEN "online" ELSE "offline"
        /\ ~Adds(w) => toA.type = "lost"
  <2>1. newsA \in Notice
    BY DEF Message, Notice, Shown
  <2>2. newsA.about = b /\ newsA.type = (IF Adds(w) THEN "new" ELSE "lost")
        /\ (Adds(w) => newsA.status = Status(b))
    BY DEF Message
  <2>3. Status(b) = IF b \in Online THEN "online" ELSE "offline"
    OBVIOUS
  <2> QED BY <2>1, <2>2, <2>3
<1>2. PICK toB \in Notice :
        /\ toB = newsB /\ toB.about = a
        /\ Adds(w) => /\ toB.type = "new"
                      /\ toB.status = IF w \notin Admins \/ a \in Online
                                      THEN "online" ELSE "offline"
        /\ ~Adds(w) => toB.type = "lost"
  <2>1. newsB \in Notice
    BY DEF Message, Notice, Shown
  <2>2. newsB.about = a /\ newsB.type = (IF Adds(w) THEN "new" ELSE "lost")
        /\ (Adds(w) => newsB.status = IF w \in Admins THEN Status(a) ELSE "online")
    BY DEF Message
  <2>3. (IF w \in Admins THEN Status(a) ELSE "online") =
          IF w \notin Admins \/ a \in Online THEN "online" ELSE "offline"
    OBVIOUS
  <2> QED BY <2>1, <2>2, <2>3
<1>3. there = IF w \notin Admins THEN {a, b} \cap Online
              ELSE IF Adds(w) \/ job[w].wasFriend THEN job[w].to ELSE {}
  OBVIOUS
<1>4. IF w = a
      THEN /\ view' = [view EXCEPT ![a][b] = Received(@, toA)]
           /\ queue' = Post(queue, there \ {a}, toB)
      ELSE /\ queue' = Post(Post(queue, there \cap {a}, toA), there \cap {b}, toB)
           /\ UNCHANGED view
  BY <1>1, <1>2, <1>3 DEF NotifyBoth, Adds
<1> HIDE DEF newsA, newsB
<1>5. view \in [Users -> [Users -> Shown]] /\ queue \in [Users -> Seq(Notice)]
  BY DEF RInv, Types
<1>6. view' = IF w = a
              THEN [view EXCEPT ![a] = [view[a] EXCEPT ![b] = Received(view[a][b], toA)]]
              ELSE view
  BY <1>4, <1>5
<1>7. there \subseteq {a, b}
  OBVIOUS
<1>8. Append(<<>>, toA) = <<toA>> /\ Append(<<>>, toB) = <<toB>>
  OBVIOUS
<1>9. ASSUME NEW u \in Users
      PROVE  queue'[u] = IF u = b /\ b \in there THEN <<toB>>
                         ELSE IF u = a /\ a \in there /\ w # a THEN <<toA>> ELSE <<>>
  BY <1>4, <1>7, <1>8 DEF Post
<1>10. News(w, a, b, there, toA, toB)
  BY <1>1, <1>2, <1>6, <1>9 DEF News
<1> QED BY <1>10

\* Both are told, the caller at once and the other through its queue; an operator who
\* ended a mere request tells nobody, and has nothing to tell.
LEMMA NotifyOrderly ==
  ASSUME RInv, SeqInv, NEW w \in Workers, NEW a \in Users, NEW b \in Users,
         NotifyBoth(w, a, b)
  PROVE  SeqInv'
<1>1. PICK j \in Job : j = job[w] /\ JobOK(j, w)
  BY DEF RInv, Types, Sound
<1>2. j.step = "notify" /\ j.a = {a} /\ j.b = {b} /\ j.op \in Commands
  BY <1>1 DEF NotifyBoth, JobOK
<1>3. Notifying(w, a, b) /\ a # b
  <2>1. job[w].op # "none"
    BY <1>1, <1>2 DEF Commands
  <2>2. Notifying(w, a, b)
    BY <1>1, <1>2, <2>1, InProgress
  <2> QED BY <2>2 DEF Notifying, InHand
<1>4. /\ Silent /\ CachesAgree /\ Busy = {w}
      /\ job[w].online = {a, b} \cap Online /\ job[w].to = {a, b} \cap Online
      /\ Adds(w) <=> MutualIn(rel, a, b)
      /\ plain => PairUntold(w, a, b) /\ NobodyHeld /\ (w \in Admins \/ (w = a /\ a \in Online))
  BY <1>3 DEF Notifying, InHand
<1>5. /\ UNCHANGED <<rel, sess, clients, farewell, met, plain>>
      /\ job' = [job EXCEPT ![w] = NoJob]
  BY DEF NotifyBoth
<1>6. Busy' = {}
  BY <1>4, <1>5, NobodyBusy
<1>7. CachesAgree' /\ \A x, v : Expected(x, v)' = Expected(x, v)
  BY <1>4, <1>5, SameCaches
<1>8. PICK there : there = IF w \notin Admins \/ Adds(w) \/ job[w].wasFriend
                           THEN {a, b} \cap Online ELSE {}
  OBVIOUS
<1>9. PICK toA \in Notice, toB \in Notice : News(w, a, b, there, toA, toB)
  <2>1. \A u \in Users : queue[u] = <<>>
    BY <1>4 DEF Silent
  <2>2. job[w].online = {a, b} \cap Online
    BY <1>4
  <2>3. job[w].to = {a, b} \cap Online
    BY <1>4
  <2>4. a # b
    BY <1>3
  <2> QED BY <1>8, <2>1, <2>2, <2>3, <2>4, NotifyTells
<1>10. \A u \in Users : farewell'[u] = {} /\ Len(queue'[u]) <= 1
  <2>1. Len(<<>>) = 0 /\ Len(<<toA>>) = 1 /\ Len(<<toB>>) = 1
    OBVIOUS
  <2>2. \A u \in Users : Len(queue'[u]) = 1 \/ Len(queue'[u]) = 0
    BY <1>9, <2>1 DEF News
  <2>3. \A n : n = 1 \/ n = 0 => n <= 1
    OBVIOUS
  <2> QED BY <1>4, <1>5, <2>2, <2>3 DEF Silent
<1>11. ASSUME plain
       PROVE  AllShown'
  <2>1. /\ \A x \in Signed : \A y \in Users \ {x} :
             {x, y} # {a, b} \/ ~(Adds(w) \/ job[w].wasFriend) => view[x][y] = Expected(x, y)
        /\ Signed = Online /\ \A v \in Users : Visible(v) <=> v \in Online
    <3>1. Signed = Online
      BY <1>4, <1>11, SignedOnline
    <3>2. \A v \in Users : ~clients[v].hidden
      BY <1>11 DEF SeqInv, Orderly
    <3> QED BY <1>4, <1>11, <3>1, <3>2 DEF PairUntold, Visible
  <2>2. /\ b \in MutualFriends(a) <=> Adds(w)
        /\ a \in MutualFriends(b) <=> Adds(w)
    BY <1>3, <1>4 DEF MutualFriends, MutualIn
  <2>3. \A shown : Received(shown, toA) = Expected(a, b)
    BY <1>9, <2>1, <2>2 DEF News, Received, Expected
  <2>4. \A shown : Received(shown, toB) = Expected(b, a)
    BY <1>4, <1>9, <1>11, <2>1, <2>2 DEF News, Received, Expected
  <2>5. w = a => w \notin Admins
    BY FriendConstants
  <2>6. Head(<<toA>>) = toA /\ Head(<<toB>>) = toB /\ <<toA>> # <<>> /\ <<toB>> # <<>>
    OBVIOUS
  <2>7. /\ \A x \in Users \ {a} : view'[x] = view[x]
        /\ \A y \in Users \ {b} : view'[a][y] = view[a][y]
        /\ w = a => view'[a][b] = Received(view[a][b], toA)
        /\ w # a => view'[a][b] = view[a][b]
    BY <1>9 DEF RInv, Types, News
  <2> SUFFICES ASSUME NEW x \in Signed, NEW y \in Users \ {x}
               PROVE  Shows(x, y)' = Expected(x, y)
    BY <1>5, <1>7 DEF AllShown, Signed
  <2>8. x \in Users /\ x \in Online
    BY <2>1 DEF Signed
  <2>9. CASE x = a /\ y = b
    <3>1. CASE w = a
      <4>1. queue'[a] = <<>>
        BY <1>3, <1>9, <3>1 DEF News
      <4> QED BY <2>3, <2>7, <2>9, <3>1, <4>1 DEF Shows
    <3>2. CASE w # a /\ (Adds(w) \/ job[w].wasFriend)
      <4>1. a \in there
        BY <1>8, <2>8, <2>9, <3>2
      <4>2. queue'[a] = <<toA>>
        BY <1>3, <1>9, <3>2, <4>1 DEF News
      <4> QED BY <1>9, <2>3, <2>6, <2>9, <4>2 DEF News, Shows
    <3>3. CASE w # a /\ ~(Adds(w) \/ job[w].wasFriend)
      <4>1. there = {} /\ view[a][b] = Expected(a, b)
        BY <1>4, <1>8, <1>11, <2>1, <2>9, <3>3
      <4>2. queue'[a] = <<>>
        BY <1>9, <4>1 DEF News
      <4> QED BY <2>7, <2>9, <3>3, <4>1, <4>2 DEF Shows
    <3> QED BY <3>1, <3>2, <3>3
  <2>10. CASE x = b /\ y = a
    <3>1. CASE w = a \/ Adds(w) \/ job[w].wasFriend
      <4>1. b \in there
        BY <1>8, <2>5, <2>8, <2>10, <3>1
      <4>2. queue'[b] = <<toB>>
        BY <1>9, <4>1 DEF News
      <4> QED BY <1>9, <2>4, <2>6, <2>10, <4>2 DEF News, Shows
    <3>2. CASE w # a /\ ~(Adds(w) \/ job[w].wasFriend)
      <4>1. there = {} /\ view[b][a] = Expected(b, a)
        BY <1>4, <1>8, <1>11, <2>1, <2>10, <3>2
      <4>2. queue'[b] = <<>> /\ view'[b] = view[b]
        BY <1>3, <1>9, <2>7, <4>1 DEF News
      <4> QED BY <2>10, <4>1, <4>2 DEF Shows
    <3> QED BY <3>1, <3>2
  <2>11. CASE ~(x = a /\ y = b) /\ ~(x = b /\ y = a)
    <3>1. {x, y} # {a, b}
      BY <1>3, <2>11
    <3>2. view[x][y] = Expected(x, y) /\ view'[x][y] = view[x][y]
      BY <2>1, <2>7, <2>8, <2>11, <3>1
    <3>3. queue'[x] = <<>> \/ Head(queue'[x]).about # y
      BY <1>9, <2>6, <2>8, <2>11 DEF News
    <3> QED BY <3>2, <3>3 DEF Shows
  <2> QED BY <2>9, <2>10, <2>11
<1>12. Resting'
  BY <1>5, <1>6, <1>7, <1>10, <1>11 DEF Resting
<1>13. Orderly'
  BY <1>5 DEF SeqInv, Orderly
<1> QED BY <1>12, <1>13 DEF SeqInv, Phase

\* SeqInv holds initially and is kept by every step.
LEMMA SeqInvInductive ==
  ASSUME ~Overlap
  PROVE  (Init => SeqInv) /\ (RInv /\ SeqInv /\ [Next]_vars => SeqInv')
<1>1. ASSUME Init
      PROVE  SeqInv
  <2>1. Orderly
    BY <1>1 DEF Init, Orderly, NoEntry
  <2>2. Busy = {} /\ Online = {} /\ Signed = {}
    BY <1>1, NoJobTypes DEF Init, Busy, Online, Signed, NoEntry
  <2>3. \A u \in Users : farewell[u] = {} /\ Len(queue[u]) <= 1
    <3>1. Len(<<>>) = 0 /\ 0 <= 1
      OBVIOUS
    <3> QED BY <1>1, <3>1 DEF Init
  <2>4. Resting
    BY <2>2, <2>3 DEF Resting, CachesAgree, AllShown
  <2> QED BY <2>1, <2>4 DEF SeqInv, Phase
<1>2. ASSUME RInv, SeqInv, Next
      PROVE  SeqInv'
  <2>1. ASSUME NEW u \in Users, SessionNext(u)
        PROVE  SeqInv'
    BY <1>2, <2>1, CmdLoginOrderly, RegisterReadOrderly, RegisterOnlineOrderly,
       AnnounceOnlineOrderly, CleanupOrderly, AnnounceOfflineOrderly, DeliverOrderly,
       CmdSetAppearOfflineOrderly DEF SessionNext
  <2>2. ASSUME ReadRelStatus
        PROVE  SeqInv'
    <3>1. PICK w \in Workers, op \in Commands, a \in Users, b \in Users :
            /\ Read(w, op, a, b)
            /\ w \in Members \cup Admins \/ (w = a /\ sess[a] # "off")
      BY <2>2 DEF ReadRelStatus, SessionReads, MemberAdds, MemberRemoves, AdminBefriends,
                  AdminUnfriends, Commands, Workers
    <3> QED BY <1>2, <3>1, ReadOrderly
  <2>3. ASSUME NEW w \in Workers, NEW a \in Users, NEW b \in Users,
               WriteRelStatus(w, a, b) \/ ApplyToClients(w, a, b) \/ NotifyBoth(w, a, b)
        PROVE  SeqInv'
    BY <1>2, <2>3, WriteOrderly, ApplyOrderly, NotifyOrderly
  <2> QED BY <1>2, <2>1, <2>2, <2>3 DEF Next
<1>3. ASSUME SeqInv, UNCHANGED vars
      PROVE  SeqInv'
  <2>1. UNCHANGED <<rel, sess, clients, job, farewell, queue, view, met, plain>>
    BY <1>3 DEF vars
  <2>2. /\ CachesAgree' <=> CachesAgree
        /\ \A x, v : Expected(x, v)' = Expected(x, v)
        /\ Online' = Online
        /\ \A u : MutualFriends(u)' = MutualFriends(u)
    BY <2>1, SameCaches
  <2>3. /\ Busy' = Busy /\ Signed' = Signed /\ (Silent' <=> Silent)
        /\ (NobodyHeld' <=> NobodyHeld)
    BY <2>1 DEF Busy, Signed, Silent, NobodyHeld
  <2>4. AllShown => AllShown'
    BY <2>1, <2>2, <2>3 DEF AllShown, Shows
  <2>5. Resting => Resting'
    BY <2>1, <2>2, <2>3, <2>4 DEF Resting
  <2>6. ASSUME NEW u \in Users
        PROVE  /\ Registering(u) => Registering(u)'
               /\ Announcing(u) => Announcing(u)'
               /\ Parted(u) => Parted(u)'
    <3>1. Registering(u) => Registering(u)'
      BY <2>1, <2>2, <2>3, <2>4 DEF Registering
    <3>2. Announcing(u) => Announcing(u)'
      BY <2>1, <2>2, <2>3 DEF Announcing, ToldExcept
    <3>3. Parted(u) => Parted(u)'
      BY <2>1, <2>2, <2>3 DEF Parted, ToldExcept
    <3> QED BY <3>1, <3>2, <3>3
  <2>7. ASSUME NEW w \in Workers, NEW a \in Users, NEW b \in Users
        PROVE  /\ Writing(w, a, b) => Writing(w, a, b)'
               /\ Applying(w, a, b) => Applying(w, a, b)'
               /\ Notifying(w, a, b) => Notifying(w, a, b)'
    <3>1. InHand(w, a, b) => InHand(w, a, b)'
      BY <2>1, <2>2, <2>3 DEF InHand
    <3>2. (Adds(w)' <=> Adds(w)) /\ (PairUntold(w, a, b) => PairUntold(w, a, b)')
      BY <2>1, <2>2, <2>3 DEF Adds, PairUntold
    <3>3. Writing(w, a, b) => Writing(w, a, b)'
      BY <2>1, <2>2, <2>4, <3>1 DEF Writing, MutualIn
    <3>4. Applying(w, a, b) => Applying(w, a, b)'
      BY <2>1, <2>2, <3>1, <3>2 DEF Applying, MutualIn
    <3>5. Notifying(w, a, b) => Notifying(w, a, b)'
      BY <2>1, <2>2, <3>1, <3>2 DEF Notifying, MutualIn
    <3> QED BY <3>3, <3>4, <3>5
  <2>8. Phase'
    <3>1. CASE Resting
      BY <2>5, <3>1 DEF Phase
    <3>2. ASSUME NEW u \in Users, Registering(u) \/ Announcing(u) \/ Parted(u)
          PROVE  Phase'
      <4>1. Registering(u)' \/ Announcing(u)' \/ Parted(u)'
        BY <2>6, <3>2
      <4> QED BY <2>1, <4>1 DEF Phase
    <3>3. ASSUME NEW w \in Workers, NEW a \in Users, NEW b \in Users,
                 Writing(w, a, b) \/ Applying(w, a, b) \/ Notifying(w, a, b)
          PROVE  Phase'
      <4>1. Writing(w, a, b)' \/ Applying(w, a, b)' \/ Notifying(w, a, b)'
        BY <2>7, <3>3
      <4> QED BY <2>1, <4>1 DEF Phase
    <3> QED BY <1>3, <3>1, <3>2, <3>3 DEF SeqInv, Phase
  <2>9. Orderly'
    BY <1>3, <2>1 DEF SeqInv, Orderly
  <2> QED BY <2>8, <2>9 DEF SeqInv
<1> QED BY <1>1, <1>2, <1>3

\* Where handlers run one after the other, the client table agrees with the rows, and
\* as long as things are plain every client shows exactly its friends and their
\* status, whenever nothing is under way.
THEOREM ListsAgreeWhenSettled == ASSUME ~Overlap PROVE Spec => []FriendListsSound
<1>1. Init => SeqInv
  BY SeqInvInductive
<1>2. RInv /\ SeqInv /\ [Next]_vars => SeqInv'
  BY SeqInvInductive
<1>3. SeqInv => FriendListsSound
  <2> SUFFICES ASSUME SeqInv, Settled
               PROVE  /\ CachesAgree
                      /\ plain => \A u \in Online : \A v \in Users \ {u} :
                                    view[u][v] = Expected(u, v)
    BY DEF FriendListsSound, CacheAgrees, FriendListCurrent, CachesAgree, Expected
  <2>1. Resting
    BY FriendConstants DEF Settled, SeqInv, Phase, Registering, Announcing, Parted, Writing,
       Applying, Notifying, InHand
  <2>2. plain => \A u \in Signed : \A v \in Users \ {u} : Shows(u, v) = Expected(u, v)
    BY <2>1 DEF Resting, AllShown
  <2>3. \A u \in Online : u \in Signed /\ \A v : Shows(u, v) = view[u][v]
    BY DEF Settled, Shows, Signed, Online, SeqInv, Orderly
  <2>4. Online \subseteq Users
    BY DEF Online
  <2> QED BY <2>1, <2>2, <2>3, <2>4 DEF Resting
<1> QED BY <1>1, <1>2, <1>3, RInvHolds, PTL DEF Spec
=============================================================================
