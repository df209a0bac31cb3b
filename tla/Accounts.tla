------------------------------ MODULE Accounts ------------------------------
(***************************************************************************)
(* Accounts and the sessions of the two APIs that manage them.             *)
(* (database.cpp, admin_api.cpp, member_api.cpp, ClientSession::CmdCreate, *)
(* CmdDelete and the check of a login)                                     *)
(*                                                                         *)
(* The admin API, the member API and the WebAPI share the main thread: one *)
(* request at a time, `request` is what is left of the one in hand.  Game  *)
(* sessions run on threads of their own; `game` is what a creation or a    *)
(* deletion through one of them has left to do.  The threads meet at the   *)
(* database and at `clients`.                                              *)
(*                                                                         *)
(* Passwords are numbered in the order they are set: knowing the right one *)
(* is what gets a caller past CheckUser.  API keys, formats, throttling    *)
(* (LoginThrottle), whether an address is verified, the data of a player   *)
(* and the audit are left out; sessions may run out at any moment.         *)
(***************************************************************************)
EXTENDS Integers, FiniteSets, SequencesExt

CONSTANTS
  Names,         \* NP ids, up to case
  Mails,         \* addresses, "" for none
  AdminsList,    \* the names in AdminsList of shadnet.cfg
  FirstAccounts, \* name and address of the accounts there are at first, the first one
                 \* an administrator's
  NoAccount,     \* the row of an id that is not in use
  NoSession,     \* a token that is not in use
  Idle,          \* no request in hand
  MaxIds,        \* bound on the accounts that are created
  MaxPasswords,  \* bound on the passwords that are set
  Tokens         \* bound on the sessions of each API

VARIABLES
  accounts,   \* accounts[id]: the row
  lastId,     \* the last id drawn (sqlite_sequence)
  passwords,  \* the last password set
  members,    \* members[t]: the session of the member API with token t
  admins,     \* admins[t]: the session of the admin API with token t
  client,     \* client[id]: the game session of the account
  request,    \* the request in hand on the main thread
  game,       \* the creation or deletion in hand on a game session's thread
  missed,     \* history: ids whose login was checked before what closed their session
  deserted    \* history: an administrator's account was deleted, by its owner or over
              \* a game session

accountsVars == <<accounts, lastId, passwords, members, admins, client, request, game,
                  missed, deserted>>

Id == 1 .. MaxIds
Account ==
  [name: Names, mail: Mails, admin: BOOLEAN, banned: BOOLEAN, password: 0 .. MaxPasswords,
   setBy: {"owner", "admin"}]
Session == [userId: Id, npid: Names, password: 0 .. MaxPasswords]

\* No two accounts share a name or an address; an account may have no address, one at most.
ASSUME AccountConstants ==
  /\ AdminsList \subseteq Names
  /\ FirstAccounts \in Seq(Names \X Mails) /\ Len(FirstAccounts) \in 1 .. MaxIds
  /\ \A a, b \in DOMAIN FirstAccounts : a # b =>
       FirstAccounts[a][1] # FirstAccounts[b][1] /\ FirstAccounts[a][2] # FirstAccounts[b][2]
  /\ MaxIds \in Nat /\ MaxPasswords \in Nat
  /\ NoAccount \notin Account /\ NoSession \notin Session
  /\ Idle \notin [op: {"kick"}, id: Id]

Exists(id) == accounts[id] # NoAccount
IsAdmin(id) == Exists(id) /\ accounts[id].admin
IdsOf(n) == {id \in Id : Exists(id) /\ accounts[id].name = n}

Ask(op, id) == [op |-> op, id |-> id]
Create(n, m) == [op |-> "create", name |-> n, mail |-> m]

-----------------------------------------------------------------------------
(* What the requests share. *)

\* A name and an address belong to one account, and no address counts as one.
Taken(n, m) == \E id \in Id : Exists(id) /\ (accounts[id].name = n \/ accounts[id].mail = m)

\* The look before a creation.  A missing address is not looked for.
Collides(n, m) ==
  \E id \in Id : Exists(id) /\ \/ accounts[id].name = n
                               \/ m # "" /\ accounts[id].mail = m

\* Mutant: the highest id in use is counted on from.
NewId_Reused == Max({0} \cup {id \in Id : Exists(id)}) + 1

NewId == lastId + 1

\* The transaction of a creation: refused by UNIQUE if somebody was faster.
InsertAccount(n, m) ==
  IF Taken(n, m) THEN UNCHANGED <<accounts, lastId, passwords>>
  ELSE /\ lastId < MaxIds /\ passwords < MaxPasswords
       /\ lastId' = NewId
       /\ passwords' = passwords + 1
       /\ accounts' = [accounts EXCEPT ![NewId] =
            [name |-> n, mail |-> m, admin |-> FALSE, banned |-> FALSE,
             password |-> passwords + 1, setBy |-> "owner"]]

\* SetPassword rotates the login token with the password.
SetPassword(id, by) ==
  /\ passwords < MaxPasswords
  /\ passwords' = passwords + 1
  /\ accounts' = [accounts EXCEPT ![id].password = passwords + 1, ![id].setBy = by]

\* DeleteAccount is one transaction; a failure leaves everything.
RemoveAccount(id) == accounts' = [accounts EXCEPT ![id] = NoAccount]

\* The sessions of an API once those of an account are revoked.
Without(table, id) ==
  [t \in Tokens |-> IF table[t] # NoSession /\ table[t].userId = id THEN NoSession ELSE table[t]]

\* A session for the account under a token not in use.
With(table, id) ==
  LET t == CHOOSE t \in Tokens : table[t] = NoSession
  IN  [table EXCEPT ![t] = [userId |-> id, npid |-> accounts[id].name,
                            password |-> accounts[id].password]]
Free(table) == \E t \in Tokens : table[t] = NoSession

\* The game session of the account is told to close, if it is in `clients`: a
\* login whose credentials were checked is not there yet.
Kick(id) ==
  /\ client' = [client EXCEPT ![id].state = IF @ = "online" THEN "closing" ELSE @]
  /\ missed' = IF client[id].state = "checked" THEN missed \cup {id} ELSE missed

Others == UNCHANGED <<lastId, passwords, members, game, deserted>>

-----------------------------------------------------------------------------
(* The admin API.  Only AdminCreates looks at the account of the session.  *)

Served == request = Idle

AdminLogin(id) ==
  /\ Served /\ IsAdmin(id) /\ ~accounts[id].banned /\ Free(admins)
  /\ admins' = With(admins, id)
  /\ UNCHANGED <<accounts, lastId, passwords, members, client, request, game, missed, deserted>>

\* Logged out, or run out.
AdminLogout(t) ==
  /\ Served /\ admins[t] # NoSession
  /\ admins' = [admins EXCEPT ![t] = NoSession]
  /\ UNCHANGED <<accounts, lastId, passwords, members, client, request, game, missed, deserted>>

\* The session of token t asks something of another account.
Asks(t, id) == Served /\ admins[t] # NoSession /\ Exists(id)
Another(t, id) == admins[t].userId # id

AdminCreates(t, n, m) ==
  /\ Served /\ admins[t] # NoSession
  /\ IsAdmin(admins[t].userId) /\ ~accounts[admins[t].userId].banned
  /\ ~Collides(n, m)
  /\ request' = Create(n, m)
  /\ UNCHANGED <<accounts, admins, client, missed>> /\ Others

\* The ban is on record before the session is closed.
Ban(t, id) ==
  /\ Asks(t, id) /\ Another(t, id) /\ ~accounts[id].admin
  /\ accounts' = [accounts EXCEPT ![id].banned = TRUE]
  /\ request' = Ask("kick", id)
  /\ UNCHANGED <<admins, client, missed>> /\ Others

Unban(t, id) ==
  /\ Asks(t, id) /\ Another(t, id)
  /\ accounts' = [accounts EXCEPT ![id].banned = FALSE]
  /\ UNCHANGED <<admins, client, request, missed>> /\ Others

\* The session is closed before the account goes.
AdminDeletes(t, id) ==
  /\ Asks(t, id) /\ Another(t, id) /\ ~accounts[id].admin
  /\ Kick(id)
  /\ request' = Ask("delete", id)
  /\ UNCHANGED <<accounts, admins>> /\ Others

\* Mutant: whoever loses the rights keeps the sessions.
SetAdmin_KeepsSessions(t, id, makeAdmin) ==
  /\ Asks(t, id) /\ Another(t, id)
  /\ accounts[id].admin # makeAdmin
  /\ ~(makeAdmin /\ accounts[id].banned)
  /\ accounts' = [accounts EXCEPT ![id].admin = makeAdmin]
  /\ UNCHANGED <<admins, client, request, missed>> /\ Others

SetAdmin(t, id, makeAdmin) ==
  /\ Asks(t, id) /\ Another(t, id)
  /\ accounts[id].admin # makeAdmin
  /\ ~(makeAdmin /\ accounts[id].banned)
  /\ accounts' = [accounts EXCEPT ![id].admin = makeAdmin]
  /\ admins' = IF makeAdmin THEN admins ELSE Without(admins, id)
  /\ UNCHANGED <<client, request, missed>> /\ Others

AdminKicks(t, id) ==
  /\ Asks(t, id) /\ Kick(id)
  /\ UNCHANGED <<accounts, admins, request>> /\ Others

\* The sessions of the APIs are left alone.
AdminResetsPassword(t, id) ==
  /\ Asks(t, id)
  /\ SetPassword(id, "admin")
  /\ request' = Ask("kick", id)
  /\ UNCHANGED <<lastId, members, admins, client, game, missed, deserted>>

\* What is left of the request in hand.
FinishCreate ==
  /\ request # Idle /\ request.op = "create"
  /\ InsertAccount(request.name, request.mail)
  /\ UNCHANGED <<client, missed>>
FinishKick ==
  /\ request # Idle /\ request.op = "kick"
  /\ Kick(request.id)
  /\ UNCHANGED <<accounts, lastId, passwords>>
FinishDelete ==
  /\ request # Idle /\ request.op = "delete"
  /\ RemoveAccount(request.id) \/ UNCHANGED accounts
  /\ UNCHANGED <<client, missed, lastId, passwords>>
Finish ==
  /\ FinishCreate \/ FinishKick \/ FinishDelete
  /\ request' = Idle
  /\ UNCHANGED <<members, admins, game, deserted>>

-----------------------------------------------------------------------------
(* The member API. *)

MemberRegisters(n, m) ==
  /\ Served /\ m # "" /\ ~Collides(n, m)
  /\ request' = Create(n, m)
  /\ UNCHANGED <<accounts, admins, client, missed>> /\ Others

MemberLogin(id) ==
  /\ Served /\ Exists(id) /\ ~accounts[id].banned /\ Free(members)
  /\ members' = With(members, id)
  /\ UNCHANGED <<accounts, lastId, passwords, admins, client, request, game, missed, deserted>>

MemberLogout(t) ==
  /\ Served /\ members[t] # NoSession
  /\ members' = [members EXCEPT ![t] = NoSession]
  /\ UNCHANGED <<accounts, lastId, passwords, admins, client, request, game, missed, deserted>>

\* CheckUser goes by the session's name, what follows by its id.
Knows(t) == Served /\ members[t] # NoSession /\ IdsOf(members[t].npid) # {}

ChangesPassword(t) ==
  /\ Knows(t) /\ Exists(members[t].userId)
  /\ SetPassword(members[t].userId, "owner")
  /\ members' = Without(members, members[t].userId)
  /\ UNCHANGED <<lastId, admins, client, request, game, missed, deserted>>

\* The right address stands for the password.
ResetsPassword(id, m) ==
  /\ Served /\ Exists(id) /\ m # "" /\ accounts[id].mail = m
  /\ SetPassword(id, "owner")
  /\ members' = Without(members, id)
  /\ UNCHANGED <<lastId, admins, client, request, game, missed, deserted>>

ChangesEmail(id, from, m) ==
  /\ Served /\ Exists(id) /\ accounts[id].mail = from /\ m # ""
  /\ ~\E other \in Id \ {id} : Exists(other) /\ accounts[other].mail = m
  /\ accounts' = [accounts EXCEPT ![id].mail = m]
  /\ UNCHANGED <<admins, client, request, missed>> /\ Others

\* The game session of the account and its sessions of the admin API stay.
MemberDeletes(t) ==
  /\ Knows(t)
  /\ LET id == members[t].userId
     IN  /\ RemoveAccount(id)
         /\ members' = Without(members, id)
         /\ deserted' = (deserted \/ IsAdmin(id))
  /\ UNCHANGED <<lastId, passwords, admins, client, request, game, missed>>

-----------------------------------------------------------------------------
(* Game sessions. *)

Main == UNCHANGED <<members, admins, request>>
Off == [state |-> "off", admin |-> FALSE]

CmdCreate(n, m) ==
  /\ game = Idle /\ m # "" /\ ~Collides(n, m)
  /\ game' = Create(n, m)
  /\ UNCHANGED <<accounts, lastId, passwords, client, missed, deserted>> /\ Main
CmdCreateInserts ==
  /\ game # Idle /\ game.op = "create"
  /\ InsertAccount(game.name, game.mail)
  /\ game' = Idle
  /\ UNCHANGED <<client, missed, deserted>> /\ Main

\* The session keeps the rights it logged in with.  It may be held until its
\* client's version is known.
CmdLogin(id) ==
  /\ client[id] = Off /\ Exists(id) /\ ~accounts[id].banned
  /\ client' = [client EXCEPT ![id] = [state |-> "checked", admin |-> accounts[id].admin]]
  /\ UNCHANGED <<accounts, lastId, passwords, game, missed, deserted>> /\ Main
RegisterOnline(id) ==
  /\ client[id].state = "checked"
  /\ client' = [client EXCEPT ![id].state = "online"]
  /\ UNCHANGED <<accounts, lastId, passwords, game, missed, deserted>> /\ Main

Leave(id) ==
  /\ client[id] # Off
  /\ client' = [client EXCEPT ![id] = Off]
  /\ missed' = missed \ {id}
  /\ UNCHANGED <<accounts, lastId, passwords, game, deserted>> /\ Main

\* Whoever knows a password deletes the account, if it is their own or they were
\* an administrator when they logged in.
CmdDelete(id, victim) ==
  /\ game = Idle /\ client[id] # Off /\ Exists(victim)
  /\ victim = id \/ client[id].admin
  /\ game' = [op |-> "delete", id |-> victim, by |-> id]
  /\ UNCHANGED <<accounts, lastId, passwords, client, missed, deserted>> /\ Main

\* Both sessions are told to close; one's own entry goes at once.  A database that
\* refuses leaves everything.
CmdDeleteRemoves ==
  /\ game # Idle /\ game.op = "delete"
  /\ LET id == game.id
         by == game.by
         dropped == [client EXCEPT ![id].state = IF @ = "online" THEN "closing" ELSE @]
     IN  \/ UNCHANGED <<accounts, client, missed, deserted>>
         \/ /\ RemoveAccount(id)
            /\ deserted' = (deserted \/ IsAdmin(id))
            /\ IF id = by
               THEN client' = [client EXCEPT ![id] = Off] /\ missed' = missed \ {id}
               ELSE /\ client' = [dropped EXCEPT ![by].state = IF @ = "off" THEN @ ELSE "closing"]
                    /\ missed' = IF client[id].state = "checked" THEN missed \cup {id} ELSE missed
  /\ game' = Idle
  /\ UNCHANGED <<lastId, passwords>> /\ Main

\* The server is stopped and started: only the accounts are left, and whoever
\* AdminsList names is an administrator.
Restart ==
  /\ accounts' = [id \in Id |->
       IF Exists(id) THEN [accounts[id] EXCEPT !.admin = @ \/ accounts[id].name \in AdminsList]
       ELSE NoAccount]
  /\ members' = [t \in Tokens |-> NoSession] /\ admins' = [t \in Tokens |-> NoSession]
  /\ client' = [id \in Id |-> Off]
  /\ request' = Idle /\ game' = Idle /\ missed' = {}
  /\ UNCHANGED <<lastId, passwords, deserted>>

-----------------------------------------------------------------------------
AdminRequest(t) ==
  \/ AdminLogout(t)
  \/ \E n \in Names, m \in Mails : AdminCreates(t, n, m)
  \/ \E id \in Id :
       \/ Ban(t, id)
       \/ Unban(t, id)
       \/ AdminDeletes(t, id)
       \/ \E makeAdmin \in BOOLEAN : SetAdmin(t, id, makeAdmin)
       \/ AdminKicks(t, id)
       \/ AdminResetsPassword(t, id)

MemberRequest(t) == MemberLogout(t) \/ ChangesPassword(t) \/ MemberDeletes(t)

GameSession(id) ==
  \/ CmdLogin(id)
  \/ RegisterOnline(id)
  \/ Leave(id)
  \/ \E victim \in Id : CmdDelete(id, victim)

\* An operator's account is there, and one of a player.
AccountsInit ==
  /\ accounts = [id \in Id |->
       IF id > Len(FirstAccounts) THEN NoAccount
       ELSE [name |-> FirstAccounts[id][1], mail |-> FirstAccounts[id][2], admin |-> id = 1,
             banned |-> FALSE, password |-> 0, setBy |-> "owner"]]
  /\ lastId = Len(FirstAccounts) /\ passwords = 0
  /\ members = [t \in Tokens |-> NoSession] /\ admins = [t \in Tokens |-> NoSession]
  /\ client = [id \in Id |-> Off]
  /\ request = Idle /\ game = Idle /\ missed = {} /\ deserted = FALSE

AccountsNext ==
  \/ \E id \in Id :
       \/ AdminLogin(id)
       \/ MemberLogin(id)
       \/ GameSession(id)
       \/ \E m \in Mails : ResetsPassword(id, m)
       \/ \E from, m \in Mails : ChangesEmail(id, from, m)
  \/ \E t \in Tokens : AdminRequest(t) \/ MemberRequest(t)
  \/ \E n \in Names, m \in Mails : MemberRegisters(n, m) \/ CmdCreate(n, m)
  \/ Finish
  \/ CmdCreateInserts
  \/ CmdDeleteRemoves
  \/ Restart

AccountsSpec == AccountsInit /\ [][AccountsNext]_accountsVars

-----------------------------------------------------------------------------
CreateRequest == [op: {"create"}, name: Names, mail: Mails]

NamesUnique ==
  \A a, b \in Id : a # b /\ Exists(a) /\ Exists(b) =>
    accounts[a].name # accounts[b].name /\ accounts[a].mail # accounts[b].mail

\* Types, and no two accounts share a name or an address: the looks of two creations
\* at once may both find nothing (database.cpp, CreateAccount).
AccountsTyped ==
  /\ accounts \in [Id -> Account \cup {NoAccount}]
  /\ lastId \in 0 .. MaxIds /\ passwords \in 0 .. MaxPasswords
  /\ members \in [Tokens -> Session \cup {NoSession}]
  /\ admins \in [Tokens -> Session \cup {NoSession}]
  /\ client \in [Id -> [state: {"off", "checked", "online", "closing"}, admin: BOOLEAN]]
  /\ request \in {Idle} \cup CreateRequest \cup [op: {"kick", "delete"}, id: Id]
  /\ game \in {Idle} \cup CreateRequest \cup [op: {"delete"}, id: Id, by: Id]
  /\ missed \subseteq Id /\ deserted \in BOOLEAN
  /\ NamesUnique

\* Whoever holds a session of the admin API is an administrator who is not banned, as
\* long as there is the account: rights that are taken away end the sessions
\* (admin_api.cpp, SetAdmin and the guards of a ban).
AdminSessionsRightful ==
  \A t \in Tokens : LET s == admins[t] IN
    s # NoSession /\ Exists(s.userId) => accounts[s.userId].admin /\ ~accounts[s.userId].banned

\* However administrators take each other's rights, ban and delete, one is left: the
\* guards keep the server administrable.  Deleting one's own account is not guarded.
StaysAdministrable == deserted \/ \E id \in Id : IsAdmin(id)

\* A session speaks for the account it was opened for, by name and by number: an id is
\* not given twice (AUTOINCREMENT), so nobody inherits the sessions of a deleted account.
NobodyInherits ==
  \A t \in Tokens : \A s \in {members[t], admins[t]} :
    s # NoSession /\ Exists(s.userId) => accounts[s.userId].name = s.npid

\* Once its owner has set a new password, no session of the member API that was opened
\* with an older one is left (member_api.cpp, RevokeSessionsFor).
PasswordChangeSignsOut ==
  \A t \in Tokens : LET s == members[t] IN
    s # NoSession /\ Exists(s.userId) /\ accounts[s.userId].setBy = "owner" =>
      s.password = accounts[s.userId].password

\* Whoever is banned is not online once the request is served, unless the login had been
\* checked before and came through after.
BanCloses ==
  request = Idle =>
    \A id \in Id \ missed :
      client[id].state = "online" /\ Exists(id) => ~accounts[id].banned

\* Whatever is done to an account, no session outlives the right to it, and nobody gets
\* one that belongs to somebody else.
SessionsSound ==
  AdminSessionsRightful /\ NobodyInherits /\ PasswordChangeSignsOut /\ BanCloses
=============================================================================
