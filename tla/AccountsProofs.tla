--------------------------- MODULE AccountsProofs ---------------------------
(***************************************************************************)
(* Theorems about Accounts, for any names, addresses, accounts and         *)
(* sessions and any interleaving of the APIs with the game sessions; and   *)
(* about LoginThrottle, for any limits and any mixture of requests.        *)
(***************************************************************************)
EXTENDS Accounts, LoginThrottle, SequenceTheorems, FiniteSetTheorems,
        WellFoundedInduction, TLAPS

-----------------------------------------------------------------------------
(* The inductive invariant *)

\* Ids that were not drawn yet are nobody's.
IdsDrawn == \A id \in Id : Exists(id) => id <= lastId

\* A session of the member API speaks for the account it was opened for, with the
\* password its owner has set last.
MemberSound(s) ==
  s # NoSession =>
    /\ s.userId <= lastId
    /\ Exists(s.userId) =>
         /\ accounts[s.userId].name = s.npid
         /\ accounts[s.userId].setBy = "owner" => s.password = accounts[s.userId].password

\* A session of the admin API is that of an administrator, who is there unless an
\* administrator's account was deleted by its owner or over a game session.
AdminSound(s) ==
  s # NoSession =>
    /\ s.userId <= lastId
    /\ deserted \/ Exists(s.userId)
    /\ Exists(s.userId) =>
         /\ accounts[s.userId].name = s.npid
         /\ accounts[s.userId].admin /\ ~accounts[s.userId].banned

SessionsOwned == \A t \in Tokens : MemberSound(members[t]) /\ AdminSound(admins[t])

\* What an administrator is about to delete is no administrator's.
VictimsOK == request # Idle /\ request.op = "delete" => ~IsAdmin(request.id)

\* Who is banned and has a game session, checked or registered, is about to be kicked,
\* unless the kick has come too early.
BanOK(id) ==
  /\ id \notin missed /\ client[id].state \in {"checked", "online"}
  /\ Exists(id) /\ accounts[id].banned
  => request = Ask("kick", id)
BansOK == \A id \in Id : BanOK(id)

AInv ==
  /\ AccountsTyped /\ IdsDrawn /\ SessionsOwned /\ VictimsOK /\ BansOK
  /\ StaysAdministrable

-----------------------------------------------------------------------------
(* Types *)

Rows == [Id -> Account \cup {NoAccount}]
Tables == [Tokens -> Session \cup {NoSession}]
Clients == [Id -> [state: {"off", "checked", "online", "closing"}, admin: BOOLEAN]]

\* Names and addresses stay apart, and what the rows are made of.
AccountsOK ==
  /\ accounts \in Rows /\ lastId \in 0 .. MaxIds /\ passwords \in 0 .. MaxPasswords
  /\ NamesUnique

\* A creation adds one row, under a number that was not drawn before, or none.
LEMMA InsertTypes ==
  ASSUME AccountsOK, NEW n \in Names, NEW m \in Mails, InsertAccount(n, m)
  PROVE  AccountsOK'
<1>1. CASE Taken(n, m)
  BY <1>1 DEF InsertAccount, AccountsOK, NamesUnique, Exists
<1>2. CASE ~Taken(n, m)
  <2> DEFINE row == [name |-> n, mail |-> m, admin |-> FALSE, banned |-> FALSE,
                     password |-> passwords + 1, setBy |-> "owner"]
  <2>1. /\ lastId < MaxIds /\ lastId' = lastId + 1 /\ passwords < MaxPasswords
        /\ passwords' = passwords + 1 /\ accounts' = [accounts EXCEPT ![lastId + 1] = row]
    BY <1>2 DEF InsertAccount, NewId
  <2>2. MaxIds \in Nat /\ MaxPasswords \in Nat
    BY AccountConstants
  <2>3. lastId + 1 \in Id /\ passwords + 1 \in 0 .. MaxPasswords /\ lastId' \in 0 .. MaxIds
    BY <2>1, <2>2 DEF AccountsOK, Id
  <2>4. row \in Account
    BY <2>3 DEF Account
  <2>5. accounts' \in Rows
    BY <2>1, <2>3, <2>4 DEF AccountsOK, Rows
  <2>6. NamesUnique'
    <3>1. ASSUME NEW a \in Id, NEW b \in Id, a # b, Exists(a)', Exists(b)'
          PROVE  accounts'[a].name # accounts'[b].name /\ accounts'[a].mail # accounts'[b].mail
      BY <3>1, <1>2, <2>1, <2>3 DEF AccountsOK, Rows, NamesUnique, Exists, Taken
    <3> QED BY <3>1 DEF NamesUnique
  <2> QED BY <2>1, <2>3, <2>5, <2>6 DEF AccountsOK
<1> QED BY <1>1, <1>2

\* Rows that go, or stay with their names, leave the names apart.
LEMMA NamesKept ==
  ASSUME NamesUnique,
         \A id \in Id : Exists(id)' =>
           /\ Exists(id) /\ accounts'[id].name = accounts[id].name
           /\ accounts'[id].mail = accounts[id].mail
  PROVE  NamesUnique'
BY DEF NamesUnique

\* A row of which ban, rights or password change.
LEMMA EditTypes ==
  ASSUME AccountsOK, NEW id \in Id, Exists(id), NEW row \in Account,
         row.name = accounts[id].name, row.mail = accounts[id].mail,
         accounts' = [accounts EXCEPT ![id] = row],
         UNCHANGED lastId, passwords' \in 0 .. MaxPasswords
  PROVE  AccountsOK'
<1>1. accounts' \in Rows
  BY DEF AccountsOK, Rows
<1>2. NamesUnique'
  BY NamesKept DEF AccountsOK, Rows, Exists
<1> QED BY <1>1, <1>2 DEF AccountsOK

\* A password is set.
LEMMA PasswordTypes ==
  ASSUME AccountsOK, NEW id \in Id, Exists(id), NEW by \in {"owner", "admin"},
         SetPassword(id, by), UNCHANGED lastId
  PROVE  AccountsOK'
<1> DEFINE row == [accounts[id] EXCEPT !.password = passwords + 1, !.setBy = by]
<1>1. accounts[id] \in Account
  BY DEF AccountsOK, Rows, Exists
<1>2. passwords < MaxPasswords /\ passwords' = passwords + 1
  BY DEF SetPassword
<1>3. passwords' \in 0 .. MaxPasswords
  BY <1>2, AccountConstants DEF AccountsOK
<1>4. row \in Account /\ row.name = accounts[id].name /\ row.mail = accounts[id].mail
  BY <1>1, <1>2, <1>3 DEF Account
<1>5. accounts' = [accounts EXCEPT ![id] = row]
  <2>1. accounts' = [accounts EXCEPT ![id].password = passwords + 1, ![id].setBy = by]
    BY DEF SetPassword
  <2> QED BY <1>1, <2>1 DEF AccountsOK, Rows, Account
<1> QED BY <1>3, <1>4, <1>5, EditTypes

\* An account goes, or was not there.
LEMMA RemoveTypes ==
  ASSUME AccountsOK, NEW id \in Id, RemoveAccount(id), UNCHANGED <<lastId, passwords>>
  PROVE  AccountsOK'
<1>1. accounts' \in Rows
  BY DEF AccountsOK, Rows, RemoveAccount
<1>2. NamesUnique'
  BY NamesKept DEF AccountsOK, Rows, RemoveAccount, Exists
<1> QED BY <1>1, <1>2 DEF AccountsOK

\* Sessions come for accounts there are, and go.
LEMMA WithTypes ==
  ASSUME AccountsOK, NEW table \in Tables, Free(table), NEW id \in Id, Exists(id)
  PROVE  /\ With(table, id) \in Tables
         /\ \A t \in Tokens :
              \/ With(table, id)[t] = table[t]
              \/ With(table, id)[t] = [userId |-> id, npid |-> accounts[id].name,
                                      password |-> accounts[id].password]
<1> DEFINE t == CHOOSE t \in Tokens : table[t] = NoSession
           s == [userId |-> id, npid |-> accounts[id].name, password |-> accounts[id].password]
<1>1. t \in Tokens
  BY DEF Free
<1>2. accounts[id] \in Account
  BY DEF AccountsOK, Rows, Exists
<1>3. s \in Session
  BY <1>2 DEF Account, Session
<1>4. With(table, id) = [table EXCEPT ![t] = s]
  BY DEF With
<1> QED BY <1>1, <1>3, <1>4 DEF Tables

LEMMA WithoutTypes ==
  ASSUME NEW table \in Tables, NEW id \in Id
  PROVE  Without(table, id) \in Tables
BY DEF Without, Tables

\* Game sessions that are told to close.
LEMMA KickTypes ==
  ASSUME client \in Clients, missed \subseteq Id, NEW id \in Id, Kick(id)
  PROVE  client' \in Clients /\ missed' \subseteq Id
<1>1. client' = [client EXCEPT ![id] = [client[id] EXCEPT !.state =
                   IF client[id].state = "online" THEN "closing" ELSE client[id].state]]
  BY DEF Kick, Clients
<1>2. client[id] \in [state: {"off", "checked", "online", "closing"}, admin: BOOLEAN]
  BY DEF Clients
<1>3. client' \in Clients
  BY <1>1, <1>2 DEF Clients
<1> QED BY <1>3 DEF Kick

Requests == {Idle} \cup CreateRequest \cup [op: {"kick", "delete"}, id: Id]
Games == {Idle} \cup CreateRequest \cup [op: {"delete"}, id: Id, by: Id]

SessionsOK == members \in Tables /\ admins \in Tables
ClientsOK == client \in Clients /\ missed \subseteq Id
HandsOK == request \in Requests /\ game \in Games /\ deserted \in BOOLEAN

\* AccountsTyped, part by part.
LEMMA TypeParts == AccountsTyped <=> AccountsOK /\ SessionsOK /\ ClientsOK /\ HandsOK
BY DEF AccountsTyped, AccountsOK, SessionsOK, ClientsOK, HandsOK, Rows, Tables, Clients, Requests, Games

LEMMA TypePartsNext ==
  AccountsTyped' <=> AccountsOK' /\ SessionsOK' /\ ClientsOK' /\ HandsOK'
BY TypeParts, PTL

\* The first accounts have names and addresses of their own.
LEMMA TypeInit == AccountsInit => AccountsTyped
<1> SUFFICES ASSUME AccountsInit PROVE AccountsTyped
  OBVIOUS
<1> DEFINE F == FirstAccounts
           n == Len(FirstAccounts)
<1>1. /\ n \in 1 .. MaxIds /\ MaxIds \in Nat /\ MaxPasswords \in Nat
      /\ \A i \in 1 .. n : F[i] \in Names \X Mails
      /\ \A a, b \in 1 .. n : a # b => F[a][1] # F[b][1] /\ F[a][2] # F[b][2]
  BY AccountConstants
<1>2. ASSUME NEW id \in Id, id <= n
      PROVE  /\ accounts[id] \in Account /\ accounts[id].name = F[id][1]
             /\ accounts[id].mail = F[id][2]
  <2>1. id \in 1 .. n
    BY <1>1, <1>2 DEF Id
  <2>2. accounts[id] = [name |-> F[id][1], mail |-> F[id][2], admin |-> id = 1,
                        banned |-> FALSE, password |-> 0, setBy |-> "owner"]
    BY <1>1, <1>2, <2>1 DEF AccountsInit, Id
  <2>3. F[id][1] \in Names /\ F[id][2] \in Mails /\ 0 \in 0 .. MaxPasswords
    BY <1>1, <2>1
  <2> QED BY <2>2, <2>3 DEF Account
<1>3. ASSUME NEW id \in Id, ~(id <= n)
      PROVE  accounts[id] = NoAccount
  BY <1>1, <1>3 DEF AccountsInit, Id
<1>4. accounts \in Rows
  BY <1>2, <1>3 DEF AccountsInit, Rows
<1>5. NamesUnique
  <2>1. ASSUME NEW a \in Id, Exists(a)
        PROVE  a \in 1 .. n
    BY <1>1, <1>3, <2>1 DEF Exists, Id
  <2> QED BY <1>1, <1>2, <2>1 DEF NamesUnique, Id
<1>6. AccountsOK
  BY <1>1, <1>4, <1>5 DEF AccountsInit, AccountsOK
<1>7. SessionsOK /\ ClientsOK /\ HandsOK
  BY DEF AccountsInit, SessionsOK, ClientsOK, HandsOK, Tables, Clients, Off, Requests, Games
<1> QED BY <1>6, <1>7, TypeParts

\* Every action keeps the types.
LEMMA TypeStep ==
  ASSUME AccountsTyped, [AccountsNext]_accountsVars
  PROVE  AccountsTyped'
<1> USE DEF Others, Main
<1>0. AccountsOK /\ SessionsOK /\ ClientsOK /\ HandsOK
  BY TypeParts
<1> DEFINE Done == AccountsOK' /\ SessionsOK' /\ ClientsOK' /\ HandsOK'
<1> SUFFICES Done
  BY TypePartsNext
<1>a. UNCHANGED <<accounts, lastId, passwords>> => AccountsOK'
  BY <1>0 DEF AccountsOK, NamesUnique, Exists
<1>s. UNCHANGED <<members, admins>> => SessionsOK'
  BY <1>0 DEF SessionsOK
<1>c. UNCHANGED <<client, missed>> => ClientsOK'
  BY <1>0 DEF ClientsOK
<1>h. UNCHANGED <<request, game, deserted>> => HandsOK'
  BY <1>0 DEF HandsOK
<1>e. ASSUME NEW id \in Id, Exists(id) PROVE accounts[id] \in Account
  BY <1>0, <1>e DEF AccountsOK, Rows, Exists
<1>1. ASSUME NEW id \in Id, AdminLogin(id)
      PROVE  Done
  <2>1. admins' \in Tables
    BY <1>0, <1>1, WithTypes DEF AdminLogin, IsAdmin, SessionsOK
  <2> QED BY <1>0, <1>a, <1>c, <1>h, <1>1, <2>1 DEF AdminLogin, SessionsOK
<1>2. ASSUME NEW t \in Tokens, AdminLogout(t)
      PROVE  Done
  <2>1. admins' \in Tables
    BY <1>0, <1>2 DEF AdminLogout, SessionsOK, Tables
  <2> QED BY <1>0, <1>a, <1>c, <1>h, <1>2, <2>1 DEF AdminLogout, SessionsOK
<1>3. ASSUME NEW t \in Tokens, NEW n \in Names, NEW m \in Mails, AdminCreates(t, n, m)
      PROVE  Done
  <2>1. HandsOK'
    BY <1>0, <1>3 DEF AdminCreates, HandsOK, Requests, Create, CreateRequest
  <2> QED BY <1>a, <1>s, <1>c, <1>3, <2>1 DEF AdminCreates
<1>4. ASSUME NEW t \in Tokens, NEW id \in Id, Ban(t, id)
      PROVE  Done
  <2> DEFINE row == [accounts[id] EXCEPT !.banned = TRUE]
  <2>1. accounts[id] \in Account
    BY <1>e, <1>4 DEF Ban, Asks
  <2>2. row \in Account /\ row.name = accounts[id].name /\ row.mail = accounts[id].mail
    BY <2>1 DEF Account
  <2>3. accounts' = [accounts EXCEPT ![id] = row]
    BY <1>0, <1>4, <2>1 DEF Ban, AccountsOK, Rows
  <2>4. AccountsOK'
    BY <1>0, <1>4, <2>2, <2>3, EditTypes DEF Ban, Asks, AccountsOK
  <2>5. HandsOK'
    BY <1>0, <1>4 DEF Ban, HandsOK, Requests, Ask
  <2> QED BY <1>s, <1>c, <1>4, <2>4, <2>5 DEF Ban
<1>5. ASSUME NEW t \in Tokens, NEW id \in Id, Unban(t, id)
      PROVE  Done
  <2> DEFINE row == [accounts[id] EXCEPT !.banned = FALSE]
  <2>1. accounts[id] \in Account
    BY <1>e, <1>5 DEF Unban, Asks
  <2>2. row \in Account /\ row.name = accounts[id].name /\ row.mail = accounts[id].mail
    BY <2>1 DEF Account
  <2>3. accounts' = [accounts EXCEPT ![id] = row]
    BY <1>0, <1>5, <2>1 DEF Unban, AccountsOK, Rows
  <2>4. AccountsOK'
    BY <1>0, <1>5, <2>2, <2>3, EditTypes DEF Unban, Asks, AccountsOK
  <2> QED BY <1>s, <1>c, <1>h, <1>5, <2>4 DEF Unban
<1>6. ASSUME NEW t \in Tokens, NEW id \in Id, AdminDeletes(t, id)
      PROVE  Done
  <2>1. ClientsOK'
    BY <1>0, <1>6, KickTypes DEF AdminDeletes, ClientsOK
  <2>2. HandsOK'
    BY <1>0, <1>6 DEF AdminDeletes, HandsOK, Requests, Ask
  <2> QED BY <1>a, <1>s, <1>6, <2>1, <2>2 DEF AdminDeletes
<1>7. ASSUME NEW t \in Tokens, NEW id \in Id, NEW makeAdmin \in BOOLEAN,
             SetAdmin(t, id, makeAdmin)
      PROVE  Done
  <2> DEFINE row == [accounts[id] EXCEPT !.admin = makeAdmin]
  <2>1. accounts[id] \in Account
    BY <1>e, <1>7 DEF SetAdmin, Asks
  <2>2. row \in Account /\ row.name = accounts[id].name /\ row.mail = accounts[id].mail
    BY <2>1 DEF Account
  <2>3. accounts' = [accounts EXCEPT ![id] = row]
    BY <1>0, <1>7, <2>1 DEF SetAdmin, AccountsOK, Rows
  <2>4. AccountsOK'
    BY <1>0, <1>7, <2>2, <2>3, EditTypes DEF SetAdmin, Asks, AccountsOK
  <2>5. SessionsOK'
    BY <1>0, <1>7, WithoutTypes DEF SetAdmin, SessionsOK
  <2> QED BY <1>c, <1>h, <1>7, <2>4, <2>5 DEF SetAdmin
<1>8. ASSUME NEW t \in Tokens, NEW id \in Id, AdminKicks(t, id)
      PROVE  Done
  <2>1. ClientsOK'
    BY <1>0, <1>8, KickTypes DEF AdminKicks, ClientsOK
  <2> QED BY <1>a, <1>s, <1>h, <1>8, <2>1 DEF AdminKicks
<1>9. ASSUME NEW t \in Tokens, NEW id \in Id, AdminResetsPassword(t, id)
      PROVE  Done
  <2>1. AccountsOK'
    BY <1>0, <1>9, PasswordTypes DEF AdminResetsPassword, Asks
  <2>2. HandsOK'
    BY <1>0, <1>9 DEF AdminResetsPassword, HandsOK, Requests, Ask
  <2> QED BY <1>s, <1>c, <1>9, <2>1, <2>2 DEF AdminResetsPassword
<1>10. CASE Finish
  <2>1. SessionsOK' /\ HandsOK'
    BY <1>0, <1>s, <1>10 DEF Finish, HandsOK, Requests
  <2>2. CASE FinishCreate
    <3>1. request.name \in Names /\ request.mail \in Mails
      BY <1>0, <2>2 DEF FinishCreate, HandsOK, Requests, CreateRequest
    <3>2. AccountsOK'
      BY <1>0, <2>2, <3>1, InsertTypes DEF FinishCreate
    <3> QED BY <1>c, <2>1, <2>2, <3>2 DEF FinishCreate
  <2>3. CASE FinishKick
    <3>1. request.id \in Id
      BY <1>0, <2>3 DEF FinishKick, HandsOK, Requests, CreateRequest
    <3>2. ClientsOK'
      BY <1>0, <2>3, <3>1, KickTypes DEF FinishKick, ClientsOK
    <3> QED BY <1>a, <2>1, <2>3, <3>2 DEF FinishKick
  <2>4. CASE FinishDelete
    <3>1. request.id \in Id
      BY <1>0, <2>4 DEF FinishDelete, HandsOK, Requests, CreateRequest
    <3>2. AccountsOK'
      BY <1>0, <1>a, <2>4, <3>1, RemoveTypes DEF FinishDelete
    <3> QED BY <1>c, <2>1, <2>4, <3>2 DEF FinishDelete
  <2> QED BY <1>10, <2>2, <2>3, <2>4 DEF Finish
<1>11. ASSUME NEW n \in Names, NEW m \in Mails, MemberRegisters(n, m)
       PROVE  Done
  <2>1. HandsOK'
    BY <1>0, <1>11 DEF MemberRegisters, HandsOK, Requests, Create, CreateRequest
  <2> QED BY <1>a, <1>s, <1>c, <1>11, <2>1 DEF MemberRegisters
<1>12. ASSUME NEW id \in Id, MemberLogin(id)
       PROVE  Done
  <2>1. members' \in Tables
    BY <1>0, <1>12, WithTypes DEF MemberLogin, SessionsOK
  <2> QED BY <1>0, <1>a, <1>c, <1>h, <1>12, <2>1 DEF MemberLogin, SessionsOK
<1>13. ASSUME NEW t \in Tokens, MemberLogout(t)
       PROVE  Done
  <2>1. members' \in Tables
    BY <1>0, <1>13 DEF MemberLogout, SessionsOK, Tables
  <2> QED BY <1>0, <1>a, <1>c, <1>h, <1>13, <2>1 DEF MemberLogout, SessionsOK
<1>14. ASSUME NEW t \in Tokens, ChangesPassword(t)
       PROVE  Done
  <2>1. members[t].userId \in Id
    BY <1>0, <1>14 DEF ChangesPassword, Knows, SessionsOK, Tables, Session
  <2>2. AccountsOK'
    BY <1>0, <1>14, <2>1, PasswordTypes DEF ChangesPassword
  <2>3. SessionsOK'
    BY <1>0, <1>14, <2>1, WithoutTypes DEF ChangesPassword, SessionsOK
  <2> QED BY <1>c, <1>h, <1>14, <2>2, <2>3 DEF ChangesPassword
<1>15. ASSUME NEW id \in Id, NEW m \in Mails, ResetsPassword(id, m)
       PROVE  Done
  <2>1. AccountsOK'
    BY <1>0, <1>15, PasswordTypes DEF ResetsPassword
  <2>2. SessionsOK'
    BY <1>0, <1>15, WithoutTypes DEF ResetsPassword, SessionsOK
  <2> QED BY <1>c, <1>h, <1>15, <2>1, <2>2 DEF ResetsPassword
<1>16. ASSUME NEW id \in Id, NEW from \in Mails, NEW m \in Mails, ChangesEmail(id, from, m)
       PROVE  Done
  <2> DEFINE row == [accounts[id] EXCEPT !.mail = m]
  <2>1. accounts[id] \in Account
    BY <1>e, <1>16 DEF ChangesEmail
  <2>2. row \in Account
    BY <2>1 DEF Account
  <2>3. accounts' = [accounts EXCEPT ![id] = row]
    BY <1>0, <1>16, <2>1 DEF ChangesEmail, AccountsOK, Rows
  <2>4. accounts' \in Rows
    BY <1>0, <2>2, <2>3 DEF AccountsOK, Rows
  <2>5. \A a \in Id : a # id => accounts'[a] = accounts[a]
    BY <1>0, <2>3 DEF AccountsOK, Rows
  <2>6. accounts'[id].name = accounts[id].name /\ accounts'[id].mail = m
    BY <1>0, <2>1, <2>3 DEF AccountsOK, Rows, Account
  <2>7. \A a \in Id : a # id /\ Exists(a) => accounts[a].mail # m
    BY <1>16 DEF ChangesEmail
  <2>8. NamesUnique'
    <3>1. Exists(id) /\ \A a \in Id : Exists(a)' => Exists(a)
      BY <1>16, <2>5 DEF ChangesEmail, Exists
    <3>2. ASSUME NEW a \in Id, NEW b \in Id, a # b, Exists(a), Exists(b)
          PROVE  accounts'[a].name # accounts'[b].name /\ accounts'[a].mail # accounts'[b].mail
      <4>1. accounts[a].name # accounts[b].name /\ accounts[a].mail # accounts[b].mail
        BY <1>0, <3>2 DEF AccountsOK, NamesUnique
      <4>2. CASE a = id
        BY <3>2, <4>1, <4>2, <2>5, <2>6, <2>7
      <4>3. CASE b = id
        BY <3>2, <4>1, <4>3, <2>5, <2>6, <2>7
      <4>4. CASE a # id /\ b # id
        BY <4>1, <4>4, <2>5
      <4> QED BY <4>2, <4>3, <4>4
    <3> QED BY <3>1, <3>2 DEF NamesUnique
  <2> QED BY <1>0, <1>s, <1>c, <1>16, <2>4, <2>8 DEF ChangesEmail, AccountsOK, HandsOK
<1>17. ASSUME NEW t \in Tokens, MemberDeletes(t)
       PROVE  Done
  <2>1. members[t].userId \in Id
    BY <1>0, <1>17 DEF MemberDeletes, Knows, SessionsOK, Tables, Session
  <2>2. AccountsOK'
    BY <1>0, <1>17, <2>1, RemoveTypes DEF MemberDeletes
  <2>3. SessionsOK'
    BY <1>0, <1>17, <2>1, WithoutTypes DEF MemberDeletes, SessionsOK
  <2>4. deserted' \in BOOLEAN
    BY <1>17 DEF MemberDeletes
  <2> QED BY <1>0, <1>c, <1>17, <2>2, <2>3, <2>4 DEF MemberDeletes, HandsOK
<1>18. ASSUME NEW n \in Names, NEW m \in Mails, CmdCreate(n, m)
       PROVE  Done
  <2>1. HandsOK'
    BY <1>0, <1>18 DEF CmdCreate, HandsOK, Games, Create, CreateRequest
  <2> QED BY <1>a, <1>s, <1>c, <1>18, <2>1 DEF CmdCreate
<1>19. CASE CmdCreateInserts
  <2>1. game.name \in Names /\ game.mail \in Mails
    BY <1>0, <1>19 DEF CmdCreateInserts, HandsOK, Games, CreateRequest
  <2>2. AccountsOK'
    BY <1>0, <1>19, <2>1, InsertTypes DEF CmdCreateInserts
  <2>3. HandsOK'
    BY <1>0, <1>19 DEF CmdCreateInserts, HandsOK, Games
  <2> QED BY <1>s, <1>c, <1>19, <2>2, <2>3 DEF CmdCreateInserts
<1>20. ASSUME NEW id \in Id, CmdLogin(id)
       PROVE  Done
  <2>1. client' \in Clients
    BY <1>0, <1>e, <1>20 DEF CmdLogin, ClientsOK, Clients, Account
  <2> QED BY <1>0, <1>a, <1>s, <1>20, <2>1 DEF CmdLogin, ClientsOK, HandsOK
<1>21. ASSUME NEW id \in Id, RegisterOnline(id)
       PROVE  Done
  <2>1. client' = [client EXCEPT ![id] = [client[id] EXCEPT !.state = "online"]]
    BY <1>0, <1>21 DEF RegisterOnline, ClientsOK, Clients
  <2>2. client' \in Clients
    BY <1>0, <2>1 DEF ClientsOK, Clients
  <2> QED BY <1>0, <1>a, <1>s, <1>21, <2>2 DEF RegisterOnline, ClientsOK, HandsOK
<1>22. ASSUME NEW id \in Id, Leave(id)
       PROVE  Done
  <2>1. client' \in Clients
    BY <1>0, <1>22 DEF Leave, Off, ClientsOK, Clients
  <2> QED BY <1>0, <1>a, <1>s, <1>22, <2>1 DEF Leave, ClientsOK, HandsOK
<1>23. ASSUME NEW id \in Id, NEW victim \in Id, CmdDelete(id, victim)
       PROVE  Done
  <2>1. HandsOK'
    BY <1>0, <1>23 DEF CmdDelete, HandsOK, Games
  <2> QED BY <1>a, <1>s, <1>c, <1>23, <2>1 DEF CmdDelete
<1>24. CASE CmdDeleteRemoves
  <2>1. game.id \in Id /\ game.by \in Id
    BY <1>0, <1>24 DEF CmdDeleteRemoves, HandsOK, Games, CreateRequest
  <2>2. AccountsOK'
    BY <1>0, <1>a, <1>24, <2>1, RemoveTypes DEF CmdDeleteRemoves
  <2>3. ClientsOK'
    <3> DEFINE id == game.id
               by == game.by
               dropped == [client EXCEPT ![id].state = IF @ = "online" THEN "closing" ELSE @]
    <3>1. dropped \in Clients
      BY <1>0, <2>1 DEF ClientsOK, Clients
    <3>2. [dropped EXCEPT ![by].state = IF @ = "off" THEN @ ELSE "closing"] \in Clients
      BY <2>1, <3>1 DEF Clients
    <3>3. [client EXCEPT ![id] = Off] \in Clients
      BY <1>0, <2>1 DEF ClientsOK, Clients, Off
    <3>4. \/ UNCHANGED <<client, missed>>
          \/ client' = [client EXCEPT ![id] = Off] /\ missed' = missed \ {id}
          \/ /\ client' = [dropped EXCEPT ![by].state = IF @ = "off" THEN @ ELSE "closing"]
             /\ missed' \in {missed, missed \cup {id}}
      BY <1>24 DEF CmdDeleteRemoves
    <3> QED BY <1>0, <2>1, <3>2, <3>3, <3>4 DEF ClientsOK
  <2>4. HandsOK'
    BY <1>0, <1>24 DEF CmdDeleteRemoves, HandsOK, Games
  <2> QED BY <1>s, <1>24, <2>2, <2>3, <2>4 DEF CmdDeleteRemoves
<1>25. CASE Restart
  <2>1. ASSUME NEW id \in Id, Exists(id)
        PROVE  /\ accounts'[id] \in Account /\ accounts'[id].name = accounts[id].name
               /\ accounts'[id].mail = accounts[id].mail
    <3>1. accounts'[id] =
            [accounts[id] EXCEPT !.admin = @ \/ accounts[id].name \in AdminsList]
      BY <1>25, <2>1 DEF Restart
    <3> QED BY <1>e, <2>1, <3>1 DEF Account
  <2>2. ASSUME NEW id \in Id, ~Exists(id)
        PROVE  accounts'[id] = NoAccount
    BY <1>25, <2>2 DEF Restart
  <2>3. accounts' \in Rows
    BY <1>25, <2>1, <2>2 DEF Restart, Rows
  <2>4. NamesUnique'
    BY <1>0, <2>1, <2>2, NamesKept DEF AccountsOK, Exists
  <2>5. AccountsOK'
    BY <1>0, <1>25, <2>3, <2>4 DEF Restart, AccountsOK
  <2> QED BY <1>0, <1>25, <2>5
          DEF Restart, SessionsOK, ClientsOK, HandsOK, Tables, Clients, Off, Requests, Games
<1>26. CASE UNCHANGED accountsVars
  BY <1>a, <1>s, <1>c, <1>h, <1>26 DEF accountsVars
<1> QED BY <1>1, <1>2, <1>3, <1>4, <1>5, <1>6, <1>7, <1>8, <1>9, <1>10, <1>11, <1>12, <1>13,
           <1>14, <1>15, <1>16, <1>17, <1>18, <1>19, <1>20, <1>21, <1>22, <1>23, <1>24, <1>25,
           <1>26
        DEF AccountsNext, AdminRequest, MemberRequest, GameSession

-----------------------------------------------------------------------------
(* Sessions and the accounts behind them *)

Shrinks(table, new) == \A t \in Tokens : new[t] \in {table[t], NoSession}

Owned == IdsDrawn /\ SessionsOwned /\ StaysAdministrable

LEMMA SessionTypes ==
  ASSUME AccountsTyped, NEW t \in Tokens
  PROVE  /\ members[t] # NoSession => members[t] \in Session /\ members[t].userId \in Id
         /\ admins[t] # NoSession => admins[t] \in Session /\ admins[t].userId \in Id
BY TypeParts DEF SessionsOK, Tables, Session

LEMMA WithoutShrinks ==
  ASSUME NEW table \in Tables, NEW id \in Id
  PROVE  /\ Shrinks(table, Without(table, id))
         /\ \A t \in Tokens : Without(table, id)[t] # NoSession =>
              Without(table, id)[t].userId # id
BY DEF Without, Shrinks

\* Sessions end, accounts stay as they are.
LEMMA QuietOwned ==
  ASSUME AInv, UNCHANGED <<accounts, lastId, deserted>>,
         Shrinks(members, members'), Shrinks(admins, admins')
  PROVE  Owned'
<1>1. IdsDrawn' /\ StaysAdministrable'
  BY DEF AInv, IdsDrawn, StaysAdministrable, IsAdmin, Exists
<1>2. ASSUME NEW t \in Tokens
      PROVE  MemberSound(members[t])' /\ AdminSound(admins[t])'
  BY DEF AInv, SessionsOwned, MemberSound, AdminSound, Exists, Shrinks
<1> QED BY <1>1, <1>2 DEF Owned, SessionsOwned

\* A new account has a number nobody had before.
LEMMA InsertOwned ==
  ASSUME AInv, NEW n \in Names, NEW m \in Mails, InsertAccount(n, m),
         UNCHANGED <<members, admins, deserted>>
  PROVE  Owned'
<1>1. CASE Taken(n, m)
  <2>1. UNCHANGED <<accounts, lastId, deserted>> /\ Shrinks(members, members') /\ Shrinks(admins, admins')
    BY <1>1 DEF InsertAccount, Shrinks
  <2> QED BY <2>1, QuietOwned
<1>2. CASE ~Taken(n, m)
  <2>1. /\ lastId \in Nat /\ lastId' = lastId + 1 /\ lastId' \in Id
        /\ \A id \in Id : id # lastId' => accounts'[id] = accounts[id]
    <3>1. lastId < MaxIds /\ lastId' = lastId + 1 /\ \E row : accounts' = [accounts EXCEPT ![lastId + 1] = row]
      BY <1>2 DEF InsertAccount, NewId
    <3>2. lastId \in 0 .. MaxIds /\ MaxIds \in Nat
      BY AccountConstants DEF AInv, AccountsTyped
    <3>3. accounts \in Rows
      BY TypeParts DEF AInv, AccountsOK
    <3> QED BY <3>1, <3>2, <3>3 DEF Id, Rows
  <2>2. \A id \in Id : id \in Nat
    BY DEF Id
  <2>3. \A id \in Id : Exists(id) => id # lastId'
    BY <2>1, <2>2 DEF AInv, IdsDrawn
  <2>4. IdsDrawn'
    BY <2>1, <2>2 DEF AInv, IdsDrawn, Exists
  <2>5. StaysAdministrable'
    BY <2>1, <2>3 DEF AInv, StaysAdministrable, IsAdmin, Exists
  <2>6. ASSUME NEW t \in Tokens
        PROVE  MemberSound(members[t])' /\ AdminSound(admins[t])'
    <3>1. MemberSound(members[t]) /\ AdminSound(admins[t])
      BY DEF AInv, SessionsOwned
    <3>2. members[t] # NoSession => members[t].userId \in Id
      BY SessionTypes DEF AInv
    <3>3. admins[t] # NoSession => admins[t].userId \in Id
      BY SessionTypes DEF AInv
    <3>4. ASSUME NEW s \in Session, s.userId \in Id, s.userId <= lastId
          PROVE  accounts'[s.userId] = accounts[s.userId] /\ s.userId <= lastId'
      <4>1. PICK k \in Nat : k = s.userId
        BY <2>2, <3>4
      <4>2. k <= lastId
        BY <3>4, <4>1
      <4>3. k # lastId' /\ k <= lastId'
        BY <2>1, <4>2
      <4> QED BY <2>1, <3>4, <4>1, <4>3
    <3>5. members'[t] = members[t] /\ admins'[t] = admins[t] /\ deserted' = deserted
      OBVIOUS
    <3>6. members[t] # NoSession => members[t] \in Session
      BY SessionTypes DEF AInv
    <3>7. admins[t] # NoSession => admins[t] \in Session
      BY SessionTypes DEF AInv
    <3>8. MemberSound(members[t])'
      BY <3>1, <3>2, <3>4, <3>5, <3>6 DEF MemberSound, Exists
    <3>9. AdminSound(admins[t])'
      BY <3>1, <3>3, <3>4, <3>5, <3>7 DEF AdminSound, Exists
    <3> QED BY <3>8, <3>9
  <2> QED BY <2>4, <2>5, <2>6 DEF Owned, SessionsOwned
<1> QED BY <1>1, <1>2

\* An account goes.  If it was an administrator's, it is noted.
LEMMA RemoveOwned ==
  ASSUME AInv, NEW id \in Id, RemoveAccount(id), UNCHANGED lastId,
         Shrinks(members, members'), Shrinks(admins, admins'),
         deserted' = (deserted \/ IsAdmin(id))
  PROVE  Owned'
<1>1. /\ accounts'[id] = NoAccount
      /\ \A a \in Id : a # id => accounts'[a] = accounts[a]
  BY TypeParts DEF AInv, AccountsOK, Rows, RemoveAccount
<1>2. IdsDrawn'
  BY <1>1 DEF AInv, IdsDrawn, Exists
<1>3. StaysAdministrable'
  BY <1>1 DEF AInv, StaysAdministrable, IsAdmin, Exists
<1>4. ASSUME NEW t \in Tokens
      PROVE  MemberSound(members[t])' /\ AdminSound(admins[t])'
  <2>1. MemberSound(members[t]) /\ AdminSound(admins[t])
    BY DEF AInv, SessionsOwned
  <2>2. members[t] # NoSession => members[t].userId \in Id
    BY SessionTypes DEF AInv
  <2>3. admins[t] # NoSession => admins[t].userId \in Id
    BY SessionTypes DEF AInv
  <2>4. members'[t] \in {members[t], NoSession} /\ admins'[t] \in {admins[t], NoSession}
    BY DEF Shrinks
  <2>5. MemberSound(members[t])'
    BY <1>1, <2>1, <2>2, <2>4 DEF MemberSound, Exists
  <2>6. AdminSound(admins[t])'
    BY <1>1, <2>1, <2>3, <2>4 DEF AdminSound, Exists, IsAdmin
  <2> QED BY <2>5, <2>6
<1> QED BY <1>2, <1>3, <1>4 DEF Owned, SessionsOwned

\* An account changes; whoever loses by it what a session stands for loses the session.
LEMMA EditOwned ==
  ASSUME AInv, NEW id \in Id, Exists(id), NEW row \in Account,
         accounts' = [accounts EXCEPT ![id] = row], row.name = accounts[id].name,
         UNCHANGED <<lastId, deserted>>,
         Shrinks(members, members'), Shrinks(admins, admins'),
         \A t \in Tokens : members'[t] # NoSession /\ members'[t].userId = id /\ row.setBy = "owner" =>
             accounts[id].setBy = "owner" /\ row.password = accounts[id].password,
         \A t \in Tokens : admins'[t] # NoSession /\ admins'[t].userId = id =>
           row.admin /\ ~row.banned,
         \/ deserted \/ row.admin \/ ~accounts[id].admin
         \/ \E a \in Id : a # id /\ IsAdmin(a)
  PROVE  Owned'
<1>1. /\ accounts'[id] = row /\ row # NoAccount
      /\ \A a \in Id : a # id => accounts'[a] = accounts[a]
  BY TypeParts, AccountConstants DEF AInv, AccountsOK, Rows
<1>2. IdsDrawn'
  BY <1>1 DEF AInv, IdsDrawn, Exists
<1>3. StaysAdministrable'
  BY <1>1 DEF AInv, StaysAdministrable, IsAdmin, Exists
<1>4. ASSUME NEW t \in Tokens
      PROVE  MemberSound(members[t])' /\ AdminSound(admins[t])'
  <2>1. MemberSound(members[t]) /\ AdminSound(admins[t])
    BY DEF AInv, SessionsOwned
  <2>2. members[t] # NoSession => members[t].userId \in Id
    BY SessionTypes DEF AInv
  <2>3. admins[t] # NoSession => admins[t].userId \in Id
    BY SessionTypes DEF AInv
  <2>4. members'[t] \in {members[t], NoSession} /\ admins'[t] \in {admins[t], NoSession}
    BY DEF Shrinks
  <2>5. MemberSound(members[t])'
    BY <1>1, <2>1, <2>2, <2>4 DEF MemberSound, Exists
  <2>6. AdminSound(admins[t])'
    BY <1>1, <2>1, <2>3, <2>4 DEF AdminSound, Exists
  <2> QED BY <2>5, <2>6
<1> QED BY <1>2, <1>3, <1>4 DEF Owned, SessionsOwned

\* The same when no session ends: none of the account's may stand for what it loses.
LEMMA EditKeepsSessions ==
  ASSUME AInv, NEW id \in Id, Exists(id), NEW row \in Account,
         accounts' = [accounts EXCEPT ![id] = row], row.name = accounts[id].name,
         UNCHANGED <<lastId, members, admins, deserted>>,
         row.setBy = "owner" => accounts[id].setBy = "owner" /\ row.password = accounts[id].password,
         \A t \in Tokens : admins[t] # NoSession /\ admins[t].userId = id => row.admin /\ ~row.banned,
         row.admin \/ ~accounts[id].admin
  PROVE  Owned'
<1>1. Shrinks(members, members') /\ Shrinks(admins, admins')
  BY DEF Shrinks
<1>2. \A t \in Tokens : members'[t] # NoSession /\ members'[t].userId = id
        /\ row.setBy = "owner" =>
          accounts[id].setBy = "owner" /\ row.password = accounts[id].password
  OBVIOUS
<1>3. \A t \in Tokens : admins'[t] # NoSession /\ admins'[t].userId = id =>
        row.admin /\ ~row.banned
  OBVIOUS
<1>4. /\ UNCHANGED <<lastId, deserted>>
      /\ \/ deserted \/ row.admin \/ ~accounts[id].admin
         \/ \E a \in Id : a # id /\ IsAdmin(a)
  OBVIOUS
<1> QED BY <1>1, <1>2, <1>3, <1>4, EditOwned

\* Somebody signs in to an API: the account is there, the session is its.
LEMMA LoginOwned ==
  ASSUME AInv, NEW id \in Id, Exists(id), UNCHANGED <<accounts, lastId, deserted>>,
         \/ Free(members) /\ members' = With(members, id) /\ admins' = admins
         \/ /\ Free(admins) /\ admins' = With(admins, id) /\ members' = members
            /\ accounts[id].admin /\ ~accounts[id].banned
  PROVE  Owned'
<1>1. IdsDrawn' /\ StaysAdministrable'
  BY DEF AInv, IdsDrawn, StaysAdministrable, IsAdmin, Exists
<1> DEFINE s == [userId |-> id, npid |-> accounts[id].name, password |-> accounts[id].password]
<1>2. AccountsOK /\ members \in Tables /\ admins \in Tables
  BY TypeParts DEF AInv, SessionsOK
<1>3. id <= lastId
  BY DEF AInv, IdsDrawn
<1>4. ASSUME NEW t \in Tokens
      PROVE  MemberSound(members[t])' /\ AdminSound(admins[t])'
  <2>1. MemberSound(members[t]) /\ AdminSound(admins[t])
    BY DEF AInv, SessionsOwned
  <2>2. \/ members'[t] = members[t] /\ admins'[t] = admins[t]
        \/ members'[t] = s /\ admins'[t] = admins[t]
        \/ /\ members'[t] = members[t] /\ admins'[t] = s
           /\ accounts[id].admin /\ ~accounts[id].banned
    BY <1>2, WithTypes
  <2>3. s.userId = id /\ s.npid = accounts[id].name /\ s.password = accounts[id].password
    OBVIOUS
  <2> HIDE DEF s
  <2>4. MemberSound(members[t])'
    BY <1>3, <2>1, <2>2, <2>3 DEF MemberSound, Exists
  <2>5. AdminSound(admins[t])'
    BY <1>3, <2>1, <2>2, <2>3 DEF AdminSound, Exists
  <2> QED BY <2>4, <2>5
<1> QED BY <1>1, <1>4 DEF Owned, SessionsOwned

\* A session of the admin API is no other account's than an administrator's.
LEMMA NoSessionOfPlayers ==
  ASSUME AInv, NEW id \in Id, Exists(id), ~accounts[id].admin
  PROVE  \A t \in Tokens : admins[t] # NoSession => admins[t].userId # id
BY DEF AInv, SessionsOwned, AdminSound

\* Every action leaves the sessions with those they belong to, and somebody to
\* administer the server.
LEMMA OwnedStep ==
  ASSUME AInv, [AccountsNext]_accountsVars
  PROVE  Owned'
<1> USE DEF Others, Main
<1>0. AccountsOK /\ SessionsOK /\ ClientsOK /\ HandsOK
  BY TypeParts DEF AInv
<1>s. Shrinks(members, members) /\ Shrinks(admins, admins)
  BY DEF Shrinks
<1>q. UNCHANGED <<accounts, lastId, members, admins, deserted>> => Owned'
  BY <1>s, QuietOwned
<1>e. ASSUME NEW id \in Id, Exists(id) PROVE accounts[id] \in Account
  BY <1>0, <1>e DEF AccountsOK, Rows, Exists
<1>1. ASSUME NEW id \in Id, AdminLogin(id)
      PROVE  Owned'
  BY <1>1, LoginOwned DEF AdminLogin, IsAdmin
<1>2. ASSUME NEW t \in Tokens, AdminLogout(t)
      PROVE  Owned'
  <2>1. Shrinks(admins, admins')
    BY <1>0, <1>2 DEF AdminLogout, Shrinks, SessionsOK, Tables
  <2> QED BY <1>s, <1>2, <2>1, QuietOwned DEF AdminLogout
<1>3. ASSUME NEW t \in Tokens, NEW n \in Names, NEW m \in Mails, AdminCreates(t, n, m)
      PROVE  Owned'
  BY <1>q, <1>3 DEF AdminCreates
<1>4. ASSUME NEW t \in Tokens, NEW id \in Id, Ban(t, id)
      PROVE  Owned'
  <2> DEFINE row == [accounts[id] EXCEPT !.banned = TRUE]
  <2>1. Exists(id) /\ accounts[id] \in Account /\ ~accounts[id].admin
    BY <1>e, <1>4 DEF Ban, Asks
  <2>2. /\ row \in Account /\ row.name = accounts[id].name
        /\ row.setBy = accounts[id].setBy /\ row.password = accounts[id].password
    BY <2>1 DEF Account
  <2>3. accounts' = [accounts EXCEPT ![id] = row]
    BY <1>0, <1>4, <2>1 DEF Ban, AccountsOK, Rows
  <2>4. UNCHANGED <<lastId, members, admins, deserted>>
    BY <1>4 DEF Ban
  <2>5. \A u \in Tokens : admins[u] # NoSession => admins[u].userId # id
    BY <2>1, NoSessionOfPlayers
  <2> HIDE DEF row
  <2>6. \A u \in Tokens : admins[u] # NoSession /\ admins[u].userId = id => row.admin /\ ~row.banned
    BY <2>2, <2>5
  <2>7. row.admin \/ ~accounts[id].admin
    BY <2>1
  <2> QED BY <2>1, <2>2, <2>3, <2>4, <2>6, <2>7, EditKeepsSessions
<1>5. ASSUME NEW t \in Tokens, NEW id \in Id, Unban(t, id)
      PROVE  Owned'
  <2> DEFINE row == [accounts[id] EXCEPT !.banned = FALSE]
  <2>1. Exists(id) /\ accounts[id] \in Account
    BY <1>e, <1>5 DEF Unban, Asks
  <2>2. /\ row \in Account /\ row.name = accounts[id].name /\ ~row.banned
        /\ row.setBy = accounts[id].setBy /\ row.password = accounts[id].password
        /\ (row.admin <=> accounts[id].admin)
    BY <2>1 DEF Account
  <2>3. accounts' = [accounts EXCEPT ![id] = row]
    BY <1>0, <1>5, <2>1 DEF Unban, AccountsOK, Rows
  <2>4. UNCHANGED <<lastId, members, admins, deserted>>
    BY <1>5 DEF Unban
  <2>5. \A u \in Tokens : admins[u] # NoSession /\ admins[u].userId = id => accounts[id].admin
    BY <2>1, NoSessionOfPlayers
  <2> HIDE DEF row
  <2>6. \A u \in Tokens : admins[u] # NoSession /\ admins[u].userId = id => row.admin /\ ~row.banned
    BY <2>2, <2>5
  <2>7. row.admin \/ ~accounts[id].admin
    BY <2>2
  <2> QED BY <2>1, <2>2, <2>3, <2>4, <2>6, <2>7, EditKeepsSessions
<1>6. ASSUME NEW t \in Tokens, NEW id \in Id, AdminDeletes(t, id)
      PROVE  Owned'
  BY <1>q, <1>6 DEF AdminDeletes
<1>7. ASSUME NEW t \in Tokens, NEW id \in Id, NEW makeAdmin \in BOOLEAN,
             SetAdmin(t, id, makeAdmin)
      PROVE  Owned'
  <2> DEFINE row == [accounts[id] EXCEPT !.admin = makeAdmin]
  <2>1. Exists(id) /\ accounts[id] \in Account
    BY <1>e, <1>7 DEF SetAdmin, Asks
  <2>2. /\ row \in Account /\ row.name = accounts[id].name
        /\ row.setBy = accounts[id].setBy /\ row.password = accounts[id].password
        /\ (row.admin <=> makeAdmin) /\ (row.banned <=> accounts[id].banned)
    BY <2>1 DEF Account
  <2>3. accounts' = [accounts EXCEPT ![id] = row]
    BY <1>0, <1>7, <2>1 DEF SetAdmin, AccountsOK, Rows
  <2>4. UNCHANGED <<lastId, members, deserted>>
    BY <1>7 DEF SetAdmin
  <2>5. (accounts[id].admin <=> ~makeAdmin) /\ ~(makeAdmin /\ accounts[id].banned)
    BY <1>7, <2>1 DEF SetAdmin, Account
  <2> HIDE DEF row
  <2>6. CASE makeAdmin
    <3>1. admins' = admins
      BY <1>7, <2>6 DEF SetAdmin
    <3>2. ~accounts[id].admin /\ ~row.banned
      BY <2>2, <2>5, <2>6
    <3>3. UNCHANGED <<lastId, members, admins, deserted>>
      BY <2>4, <3>1
    <3> QED BY <2>1, <2>2, <2>3, <2>6, <3>2, <3>3, EditKeepsSessions
  <2>7. CASE ~makeAdmin
    <3>1. admins' = Without(admins, id)
      BY <1>7, <2>7 DEF SetAdmin
    <3>2. /\ Shrinks(admins, admins')
          /\ \A u \in Tokens : admins'[u] # NoSession => admins'[u].userId # id
      BY <1>0, <3>1, WithoutShrinks DEF SessionsOK
    <3>3. admins[t].userId # id /\ admins[t] # NoSession
      BY <1>7 DEF SetAdmin, Asks, Another
    <3>4. admins[t].userId \in Id
      BY <3>3, SessionTypes DEF AInv
    <3>5. deserted \/ IsAdmin(admins[t].userId)
      BY <3>3 DEF AInv, SessionsOwned, AdminSound, IsAdmin
    <3> QED BY <1>s, <2>1, <2>2, <2>3, <2>4, <3>2, <3>3, <3>4, <3>5, EditOwned
  <2> QED BY <2>6, <2>7
<1>8. ASSUME NEW t \in Tokens, NEW id \in Id, AdminKicks(t, id)
      PROVE  Owned'
  BY <1>q, <1>8 DEF AdminKicks
<1>p. ASSUME NEW id \in Id, Exists(id), NEW by \in {"owner", "admin"}, SetPassword(id, by),
             UNCHANGED <<lastId, admins, deserted>>, Shrinks(members, members'),
             by = "owner" => \A u \in Tokens : members'[u] # NoSession => members'[u].userId # id
      PROVE  Owned'
  <2> DEFINE row == [accounts[id] EXCEPT !.password = passwords + 1, !.setBy = by]
  <2>1. accounts[id] \in Account
    BY <1>e, <1>p
  <2>2. passwords + 1 \in 0 .. MaxPasswords
    BY <1>0, <1>p, AccountConstants DEF SetPassword, AccountsOK
  <2>3. /\ row \in Account /\ row.name = accounts[id].name /\ row.setBy = by
        /\ (row.admin <=> accounts[id].admin) /\ (row.banned <=> accounts[id].banned)
    BY <2>1, <2>2 DEF Account
  <2>4. accounts' = [accounts EXCEPT ![id] = row]
    <3>1. accounts' = [accounts EXCEPT ![id].password = passwords + 1, ![id].setBy = by]
      BY <1>p DEF SetPassword
    <3> QED BY <1>0, <2>1, <3>1 DEF AccountsOK, Rows, Account
  <2>5. \A u \in Tokens : admins[u] # NoSession /\ admins[u].userId = id =>
          accounts[id].admin /\ ~accounts[id].banned
    BY <1>p DEF AInv, SessionsOwned, AdminSound
  <2> HIDE DEF row
  <2>6. Shrinks(admins, admins')
    BY <1>s, <1>p
  <2>7. \A u \in Tokens : members'[u] # NoSession /\ members'[u].userId = id
          /\ row.setBy = "owner" =>
            accounts[id].setBy = "owner" /\ row.password = accounts[id].password
    BY <1>p, <2>3
  <2>8. \A u \in Tokens : admins'[u] # NoSession /\ admins'[u].userId = id =>
          row.admin /\ ~row.banned
    BY <1>p, <2>3, <2>5
  <2>9. \/ deserted \/ row.admin \/ ~accounts[id].admin
        \/ \E a \in Id : a # id /\ IsAdmin(a)
    BY <2>3
  <2> QED BY <1>p, <2>3, <2>4, <2>6, <2>7, <2>8, <2>9, EditOwned
<1>9. ASSUME NEW t \in Tokens, NEW id \in Id, AdminResetsPassword(t, id)
      PROVE  Owned'
  <2>1. SetPassword(id, "admin") /\ Exists(id) /\ UNCHANGED <<lastId, members, admins, deserted>>
    BY <1>9 DEF AdminResetsPassword, Asks
  <2> QED BY <1>s, <1>p, <2>1
<1>10. CASE Finish
  <2>1. CASE FinishCreate
    <3>1. request.name \in Names /\ request.mail \in Mails
      BY <1>0, <2>1 DEF FinishCreate, HandsOK, Requests, CreateRequest
    <3>2. InsertAccount(request.name, request.mail) /\ UNCHANGED <<members, admins, deserted>>
      BY <1>10, <2>1 DEF Finish, FinishCreate
    <3> QED BY <3>1, <3>2, InsertOwned
  <2>2. CASE FinishKick
    BY <1>q, <1>10, <2>2 DEF Finish, FinishKick
  <2>3. CASE FinishDelete
    <3>1. request.id \in Id /\ ~IsAdmin(request.id)
      BY <1>0, <2>3 DEF FinishDelete, HandsOK, Requests, CreateRequest, AInv, VictimsOK
    <3>2. UNCHANGED <<lastId, members, admins, deserted>>
      BY <1>10, <2>3 DEF Finish, FinishDelete
    <3>3. CASE RemoveAccount(request.id)
      <4>1. deserted' = (deserted \/ IsAdmin(request.id))
        BY <1>0, <3>1, <3>2 DEF HandsOK
      <4> QED BY <1>s, <3>1, <3>2, <3>3, <4>1, RemoveOwned
    <3>4. CASE UNCHANGED accounts
      BY <1>q, <3>2, <3>4
    <3> QED BY <2>3, <3>3, <3>4 DEF FinishDelete
  <2> QED BY <1>10, <2>1, <2>2, <2>3 DEF Finish
<1>11. ASSUME NEW n \in Names, NEW m \in Mails, MemberRegisters(n, m)
       PROVE  Owned'
  BY <1>q, <1>11 DEF MemberRegisters
<1>12. ASSUME NEW id \in Id, MemberLogin(id)
       PROVE  Owned'
  BY <1>12, LoginOwned DEF MemberLogin
<1>13. ASSUME NEW t \in Tokens, MemberLogout(t)
       PROVE  Owned'
  <2>1. Shrinks(members, members')
    BY <1>0, <1>13 DEF MemberLogout, Shrinks, SessionsOK, Tables
  <2> QED BY <1>s, <1>13, <2>1, QuietOwned DEF MemberLogout
<1>14. ASSUME NEW t \in Tokens, ChangesPassword(t)
       PROVE  Owned'
  <2>1. PICK id \in Id : id = members[t].userId
    BY <1>14, SessionTypes DEF ChangesPassword, Knows, AInv
  <2>2. /\ SetPassword(id, "owner") /\ Exists(id) /\ UNCHANGED <<lastId, admins, deserted>>
        /\ members' = Without(members, id)
    BY <1>14, <2>1 DEF ChangesPassword
  <2>3. /\ Shrinks(members, members')
        /\ \A u \in Tokens : members'[u] # NoSession => members'[u].userId # id
    BY <1>0, <2>2, WithoutShrinks DEF SessionsOK
  <2> QED BY <1>p, <2>2, <2>3
<1>15. ASSUME NEW id \in Id, NEW m \in Mails, ResetsPassword(id, m)
       PROVE  Owned'
  <2>1. /\ SetPassword(id, "owner") /\ Exists(id) /\ UNCHANGED <<lastId, admins, deserted>>
        /\ members' = Without(members, id)
    BY <1>15 DEF ResetsPassword
  <2>2. /\ Shrinks(members, members')
        /\ \A u \in Tokens : members'[u] # NoSession => members'[u].userId # id
    BY <1>0, <2>1, WithoutShrinks DEF SessionsOK
  <2> QED BY <1>p, <2>1, <2>2
<1>16. ASSUME NEW id \in Id, NEW from \in Mails, NEW m \in Mails, ChangesEmail(id, from, m)
       PROVE  Owned'
  <2> DEFINE row == [accounts[id] EXCEPT !.mail = m]
  <2>1. Exists(id) /\ accounts[id] \in Account
    BY <1>e, <1>16 DEF ChangesEmail
  <2>2. /\ row \in Account /\ row.name = accounts[id].name
        /\ row.setBy = accounts[id].setBy /\ row.password = accounts[id].password
        /\ (row.admin <=> accounts[id].admin) /\ (row.banned <=> accounts[id].banned)
    BY <2>1 DEF Account
  <2>3. accounts' = [accounts EXCEPT ![id] = row]
    BY <1>0, <1>16, <2>1 DEF ChangesEmail, AccountsOK, Rows
  <2>4. UNCHANGED <<lastId, members, admins, deserted>>
    BY <1>16 DEF ChangesEmail
  <2>5. \A u \in Tokens : admins[u] # NoSession /\ admins[u].userId = id =>
          accounts[id].admin /\ ~accounts[id].banned
    BY <2>1 DEF AInv, SessionsOwned, AdminSound
  <2> HIDE DEF row
  <2>6. \A u \in Tokens : admins[u] # NoSession /\ admins[u].userId = id => row.admin /\ ~row.banned
    BY <2>2, <2>5
  <2>7. row.admin \/ ~accounts[id].admin
    BY <2>2
  <2> QED BY <2>1, <2>2, <2>3, <2>4, <2>6, <2>7, EditKeepsSessions
<1>17. ASSUME NEW t \in Tokens, MemberDeletes(t)
       PROVE  Owned'
  <2>1. PICK id \in Id : id = members[t].userId
    BY <1>17, SessionTypes DEF MemberDeletes, Knows, AInv
  <2>2. /\ RemoveAccount(id) /\ UNCHANGED <<lastId, admins>>
        /\ members' = Without(members, id) /\ deserted' = (deserted \/ IsAdmin(id))
    BY <1>17, <2>1 DEF MemberDeletes
  <2>3. Shrinks(members, members')
    BY <1>0, <2>2, WithoutShrinks DEF SessionsOK
  <2> QED BY <1>s, <2>2, <2>3, RemoveOwned
<1>18. ASSUME NEW n \in Names, NEW m \in Mails, CmdCreate(n, m)
       PROVE  Owned'
  BY <1>q, <1>18 DEF CmdCreate
<1>19. CASE CmdCreateInserts
  <2>1. game.name \in Names /\ game.mail \in Mails
    BY <1>0, <1>19 DEF CmdCreateInserts, HandsOK, Games, CreateRequest
  <2>2. InsertAccount(game.name, game.mail) /\ UNCHANGED <<members, admins, deserted>>
    BY <1>19 DEF CmdCreateInserts
  <2> QED BY <2>1, <2>2, InsertOwned
<1>20. ASSUME NEW id \in Id, CmdLogin(id) \/ RegisterOnline(id) \/ Leave(id)
       PROVE  Owned'
  BY <1>q, <1>20 DEF CmdLogin, RegisterOnline, Leave
<1>21. ASSUME NEW id \in Id, NEW victim \in Id, CmdDelete(id, victim)
       PROVE  Owned'
  BY <1>q, <1>21 DEF CmdDelete
<1>22. CASE CmdDeleteRemoves
  <2>1. PICK id \in Id : id = game.id
    BY <1>0, <1>22 DEF CmdDeleteRemoves, HandsOK, Games, CreateRequest
  <2>2. /\ UNCHANGED <<lastId, members, admins>>
        /\ \/ UNCHANGED <<accounts, deserted>>
           \/ RemoveAccount(id) /\ deserted' = (deserted \/ IsAdmin(id))
    BY <1>22, <2>1 DEF CmdDeleteRemoves
  <2> QED BY <1>s, <1>q, <2>2, RemoveOwned
<1>23. CASE Restart
  <2>1. ASSUME NEW id \in Id
        PROVE  /\ Exists(id)' => Exists(id)
               /\ IsAdmin(id) => IsAdmin(id)'
    <3>1. CASE Exists(id)
      <4>1. accounts'[id] =
              [accounts[id] EXCEPT !.admin = @ \/ accounts[id].name \in AdminsList]
        BY <1>23, <3>1 DEF Restart
      <4>2. accounts'[id] \in Account /\ (accounts[id].admin => accounts'[id].admin)
        BY <1>e, <3>1, <4>1 DEF Account
      <4> QED BY <3>1, <4>2, AccountConstants DEF IsAdmin, Exists
    <3>2. CASE ~Exists(id)
      BY <1>23, <3>2 DEF Restart, IsAdmin, Exists
    <3> QED BY <3>1, <3>2
  <2>2. /\ UNCHANGED <<lastId, deserted>>
        /\ \A t \in Tokens : members'[t] = NoSession /\ admins'[t] = NoSession
    BY <1>23 DEF Restart
  <2>3. IdsDrawn' /\ StaysAdministrable'
    BY <2>1, <2>2 DEF AInv, IdsDrawn, StaysAdministrable
  <2>4. SessionsOwned'
    BY <2>2 DEF SessionsOwned, MemberSound, AdminSound
  <2> QED BY <2>3, <2>4 DEF Owned
<1>24. CASE UNCHANGED accountsVars
  BY <1>q, <1>24 DEF accountsVars
<1> QED BY <1>1, <1>2, <1>3, <1>4, <1>5, <1>6, <1>7, <1>8, <1>9, <1>10, <1>11, <1>12, <1>13,
           <1>14, <1>15, <1>16, <1>17, <1>18, <1>19, <1>20, <1>21, <1>22, <1>23, <1>24
        DEF AccountsNext, AdminRequest, MemberRequest, GameSession

-----------------------------------------------------------------------------
(* What the request in hand has left to do *)

\* Nobody becomes an administrator while something is in hand.
LEMMA VictimsKept ==
  ASSUME AInv, AccountsTyped', UNCHANGED request,
         request = Idle \/ \A id \in Id : IsAdmin(id)' => IsAdmin(id)
  PROVE  VictimsOK'
<1>1. HandsOK
  BY TypeParts DEF AInv
<1>2. request # Idle /\ request.op = "delete" => request.id \in Id
  BY <1>1 DEF HandsOK, Requests, CreateRequest
<1>3. VictimsOK
  BY DEF AInv
<1> QED BY <1>2, <1>3 DEF VictimsOK

\* The account that is created is no administrator's.
LEMMA InsertRights ==
  ASSUME AInv, NEW n \in Names, NEW m \in Mails, InsertAccount(n, m)
  PROVE  \A id \in Id : /\ IsAdmin(id)' => IsAdmin(id)
                        /\ Exists(id)' /\ accounts'[id].banned => Exists(id) /\ accounts[id].banned
<1>1. CASE Taken(n, m)
  BY <1>1 DEF InsertAccount, IsAdmin, Exists
<1>2. CASE ~Taken(n, m)
  <2>1. accounts' = [accounts EXCEPT ![lastId + 1] =
          [name |-> n, mail |-> m, admin |-> FALSE, banned |-> FALSE,
           password |-> passwords + 1, setBy |-> "owner"]]
    BY <1>2 DEF InsertAccount, NewId
  <2>2. accounts \in Rows
    BY TypeParts DEF AInv, AccountsOK
  <2> QED BY <2>1, <2>2 DEF IsAdmin, Exists, Rows
<1> QED BY <1>1, <1>2

LEMMA RemoveRights ==
  ASSUME AInv, NEW victim \in Id, RemoveAccount(victim)
  PROVE  \A id \in Id : /\ IsAdmin(id)' => IsAdmin(id)
                        /\ Exists(id)' /\ accounts'[id].banned => Exists(id) /\ accounts[id].banned
<1>1. accounts \in Rows
  BY TypeParts DEF AInv, AccountsOK
<1> QED BY <1>1 DEF RemoveAccount, IsAdmin, Exists, Rows

\* Whatever an administrator is about to delete stays a player's account.
LEMMA VictimsStep ==
  ASSUME AInv, AccountsTyped', [AccountsNext]_accountsVars
  PROVE  VictimsOK'
<1> USE DEF Others, Main
<1>0. AccountsOK /\ HandsOK
  BY TypeParts DEF AInv
<1>1. ASSUME request' = Idle \/ request'.op # "delete"
      PROVE  VictimsOK'
  BY <1>1 DEF VictimsOK
<1>2. ASSUME Served, UNCHANGED request
      PROVE  VictimsOK'
  BY <1>2 DEF VictimsOK, Served
<1>3. ASSUME UNCHANGED <<request, accounts>>
      PROVE  VictimsOK'
  BY <1>3, VictimsKept DEF IsAdmin, Exists
<1>4. ASSUME NEW t \in Tokens, AdminRequest(t)
      PROVE  VictimsOK'
  <2>1. ASSUME NEW id \in Id, AdminDeletes(t, id)
        PROVE  VictimsOK'
    <3>1. request' = Ask("delete", id) /\ ~IsAdmin(id)'
      BY <2>1 DEF AdminDeletes, IsAdmin, Exists
    <3>2. request'.id = id
      BY <3>1 DEF Ask
    <3> QED BY <3>1, <3>2 DEF VictimsOK
  <2>2. ASSUME NEW id \in Id, Ban(t, id) \/ AdminResetsPassword(t, id)
        PROVE  VictimsOK'
    BY <1>1, <2>2 DEF Ban, AdminResetsPassword, Ask
  <2>3. ASSUME NEW n \in Names, NEW m \in Mails, AdminCreates(t, n, m)
        PROVE  VictimsOK'
    BY <1>1, <2>3 DEF AdminCreates, Create
  <2>4. ASSUME NEW id \in Id, NEW makeAdmin \in BOOLEAN,
               \/ Unban(t, id) \/ SetAdmin(t, id, makeAdmin) \/ AdminKicks(t, id)
        PROVE  VictimsOK'
    BY <1>2, <2>4 DEF Unban, SetAdmin, AdminKicks, Asks
  <2>5. CASE AdminLogout(t)
    BY <1>2, <2>5 DEF AdminLogout
  <2> QED BY <1>4, <2>1, <2>2, <2>3, <2>4, <2>5 DEF AdminRequest
<1>5. ASSUME NEW t \in Tokens, MemberRequest(t)
      PROVE  VictimsOK'
  BY <1>2, <1>5 DEF MemberRequest, MemberLogout, ChangesPassword, MemberDeletes, Knows
<1>6. ASSUME NEW id \in Id, GameSession(id)
      PROVE  VictimsOK'
  BY <1>3, <1>6 DEF GameSession, CmdLogin, RegisterOnline, Leave, CmdDelete
<1>7. ASSUME NEW id \in Id, NEW m \in Mails, NEW from \in Mails,
             ResetsPassword(id, m) \/ ChangesEmail(id, from, m)
      PROVE  VictimsOK'
  BY <1>2, <1>7 DEF ResetsPassword, ChangesEmail
<1>8. ASSUME NEW n \in Names, NEW m \in Mails, MemberRegisters(n, m)
      PROVE  VictimsOK'
  BY <1>1, <1>8 DEF MemberRegisters, Create
<1>9. ASSUME NEW n \in Names, NEW m \in Mails, CmdCreate(n, m)
      PROVE  VictimsOK'
  BY <1>3, <1>9 DEF CmdCreate
<1>10. CASE Finish \/ Restart
  BY <1>1, <1>10 DEF Finish, Restart
<1>11. CASE CmdCreateInserts
  <2>1. PICK n \in Names, m \in Mails : n = game.name /\ m = game.mail
    BY <1>0, <1>11 DEF CmdCreateInserts, HandsOK, Games, CreateRequest
  <2>2. InsertAccount(n, m) /\ UNCHANGED request
    BY <1>11, <2>1 DEF CmdCreateInserts
  <2>3. \A id \in Id : IsAdmin(id)' => IsAdmin(id)
    BY <2>2, InsertRights
  <2> QED BY <2>2, <2>3, VictimsKept
<1>12. CASE CmdDeleteRemoves
  <2>1. PICK id \in Id : id = game.id
    BY <1>0, <1>12 DEF CmdDeleteRemoves, HandsOK, Games, CreateRequest
  <2>2. UNCHANGED request /\ (RemoveAccount(id) \/ UNCHANGED accounts)
    BY <1>12, <2>1 DEF CmdDeleteRemoves
  <2>3. RemoveAccount(id) => \A a \in Id : IsAdmin(a)' => IsAdmin(a)
    BY RemoveRights
  <2> QED BY <1>3, <2>2, <2>3, VictimsKept
<1>13. CASE UNCHANGED accountsVars
  BY <1>3, <1>13 DEF accountsVars
<1>14. ASSUME NEW id \in Id, AdminLogin(id) \/ MemberLogin(id)
       PROVE  VictimsOK'
  BY <1>2, <1>14 DEF AdminLogin, MemberLogin
<1> QED BY <1>4, <1>5, <1>6, <1>7, <1>8, <1>9, <1>10, <1>11, <1>12, <1>13, <1>14 DEF AccountsNext

\* A banned player with a game session, who was not missed.
Lurks(id) ==
  /\ id \notin missed /\ client[id].state \in {"checked", "online"}
  /\ Exists(id) /\ accounts[id].banned

\* Nobody new lurks, and whoever waits to be kicked still does.
LEMMA BansKept ==
  ASSUME AInv, \A id \in Id : Lurks(id)' => Lurks(id),
         request' = request \/ \A id \in Id : request # Ask("kick", id)
  PROVE  BansOK'
BY DEF AInv, BansOK, BanOK, Lurks

\* Whoever is kicked lurks no more.
LEMMA KickEnds ==
  ASSUME AInv, NEW victim \in Id, Kick(victim), UNCHANGED accounts
  PROVE  \A id \in Id : Lurks(id)' => Lurks(id) /\ id # victim
<1>1. client \in Clients /\ missed \subseteq Id
  BY TypeParts DEF AInv, ClientsOK
<1>2. client' = [client EXCEPT ![victim] = [client[victim] EXCEPT !.state =
                   IF client[victim].state = "online" THEN "closing" ELSE client[victim].state]]
  BY <1>1 DEF Kick, Clients
<1>3. client[victim] \in [state: {"off", "checked", "online", "closing"}, admin: BOOLEAN]
  BY <1>1 DEF Clients
<1>4. ASSUME NEW id \in Id, id # victim, Lurks(id)'
      PROVE  Lurks(id)
  BY <1>1, <1>2, <1>4 DEF Kick, Lurks, Exists, Clients
<1>5. ~Lurks(victim)'
  <2>1. client'[victim].state =
          IF client[victim].state = "online" THEN "closing" ELSE client[victim].state
    BY <1>1, <1>2, <1>3 DEF Clients
  <2>2. client[victim].state = "checked" => victim \in missed'
    BY DEF Kick
  <2> QED BY <2>1, <2>2 DEF Lurks
<1> QED BY <1>4, <1>5

\* A ban is followed by a kick; everything else leaves nobody lurking.
LEMMA BansStep ==
  ASSUME AInv, [AccountsNext]_accountsVars
  PROVE  BansOK'
<1> USE DEF Others, Main
<1>0. /\ accounts \in Rows /\ client \in Clients /\ missed \subseteq Id /\ HandsOK
  BY TypeParts DEF AInv, AccountsOK, ClientsOK
<1>e. ASSUME NEW id \in Id, Exists(id) PROVE accounts[id] \in Account
  BY <1>0, <1>e DEF Rows, Exists
<1>i. \A id \in Id : Idle # Ask("kick", id)
  BY AccountConstants DEF Ask
<1>l. ASSUME Served PROVE \A id \in Id : request # Ask("kick", id) /\ ~Lurks(id)
  BY <1>i, <1>l DEF Served, AInv, BansOK, BanOK, Lurks
<1>1. ASSUME UNCHANGED <<accounts, client, missed>>, Served \/ UNCHANGED request
      PROVE  BansOK'
  <2>1. \A id \in Id : Lurks(id)' => Lurks(id)
    BY <1>1 DEF Lurks, Exists
  <2> QED BY <1>1, <1>l, <2>1, BansKept
\* An account changes, who is banned does not.
<1>2. ASSUME NEW id \in Id, NEW row \in Account, accounts' = [accounts EXCEPT ![id] = row],
             Exists(id), row.banned => accounts[id].banned,
             UNCHANGED <<client, missed>>, Served
      PROVE  BansOK'
  <2>1. ASSUME NEW a \in Id, Lurks(a)'
        PROVE  Lurks(a)
    <3>1. CASE a = id
      BY <1>0, <1>2, <2>1, <3>1 DEF Lurks, Exists, Rows
    <3>2. CASE a # id
      BY <1>0, <1>2, <2>1, <3>2 DEF Lurks, Exists, Rows
    <3> QED BY <3>1, <3>2
  <2> QED BY <1>2, <1>l, <2>1, BansKept
<1>3. ASSUME NEW t \in Tokens, NEW id \in Id, Ban(t, id)
      PROVE  BansOK'
  <2>1. Served /\ request' = Ask("kick", id) /\ UNCHANGED <<client, missed>>
    BY <1>3 DEF Ban, Asks
  <2>2. \A a \in Id : a # id => accounts'[a] = accounts[a]
    BY <1>0, <1>3 DEF Ban, Rows
  <2>3. ASSUME NEW a \in Id, a # id
        PROVE  BanOK(a)'
    <3>1. Lurks(a)' => Lurks(a)
      BY <2>1, <2>2, <2>3 DEF Lurks, Exists
    <3> QED BY <1>l, <2>1, <3>1 DEF BanOK, Lurks
  <2>4. BanOK(id)'
    BY <2>1 DEF BanOK
  <2> QED BY <2>3, <2>4 DEF BansOK
<1>4. ASSUME NEW t \in Tokens, NEW id \in Id, Unban(t, id)
      PROVE  BansOK'
  <2> DEFINE row == [accounts[id] EXCEPT !.banned = FALSE]
  <2>1. Served /\ Exists(id) /\ accounts[id] \in Account
    BY <1>e, <1>4 DEF Unban, Asks
  <2>2. row \in Account /\ ~row.banned
    BY <2>1 DEF Account
  <2>3. accounts' = [accounts EXCEPT ![id] = row] /\ UNCHANGED <<client, missed>>
    BY <1>0, <1>4, <2>1 DEF Unban, Rows
  <2> HIDE DEF row
  <2> QED BY <1>2, <2>1, <2>2, <2>3
<1>5. ASSUME NEW t \in Tokens, NEW id \in Id, AdminDeletes(t, id) \/ AdminKicks(t, id)
      PROVE  BansOK'
  <2>1. Served /\ Kick(id) /\ UNCHANGED accounts
    BY <1>5 DEF AdminDeletes, AdminKicks, Asks
  <2> QED BY <1>l, <2>1, KickEnds, BansKept
<1>6. ASSUME NEW t \in Tokens, NEW id \in Id, NEW makeAdmin \in BOOLEAN,
             SetAdmin(t, id, makeAdmin)
      PROVE  BansOK'
  <2> DEFINE row == [accounts[id] EXCEPT !.admin = makeAdmin]
  <2>1. Served /\ Exists(id) /\ accounts[id] \in Account
    BY <1>e, <1>6 DEF SetAdmin, Asks
  <2>2. row \in Account /\ (row.banned <=> accounts[id].banned)
    BY <2>1 DEF Account
  <2>3. accounts' = [accounts EXCEPT ![id] = row] /\ UNCHANGED <<client, missed>>
    BY <1>0, <1>6, <2>1 DEF SetAdmin, Rows
  <2> HIDE DEF row
  <2> QED BY <1>2, <2>1, <2>2, <2>3
<1>p. ASSUME Served, NEW id \in Id, Exists(id), NEW by \in {"owner", "admin"},
             SetPassword(id, by), UNCHANGED <<client, missed>>
      PROVE  BansOK'
  <2> DEFINE row == [accounts[id] EXCEPT !.password = passwords + 1, !.setBy = by]
  <2>1. accounts[id] \in Account
    BY <1>e, <1>p
  <2>2. passwords + 1 \in 0 .. MaxPasswords
    BY <1>p, AccountConstants, TypeParts DEF SetPassword, AInv, AccountsOK
  <2>3. row \in Account /\ (row.banned <=> accounts[id].banned)
    BY <2>1, <2>2 DEF Account
  <2>4. accounts' = [accounts EXCEPT ![id] = row]
    <3>1. accounts' = [accounts EXCEPT ![id].password = passwords + 1, ![id].setBy = by]
      BY <1>p DEF SetPassword
    <3> QED BY <1>0, <2>1, <3>1 DEF Rows, Account
  <2> HIDE DEF row
  <2> QED BY <1>2, <1>p, <2>3, <2>4
<1>7. ASSUME NEW t \in Tokens, NEW id \in Id, AdminResetsPassword(t, id)
      PROVE  BansOK'
  BY <1>p, <1>7 DEF AdminResetsPassword, Asks
<1>8. CASE Finish
  <2>1. request' = Idle
    BY <1>8 DEF Finish
  <2>2. CASE FinishCreate
    <3>1. PICK n \in Names, m \in Mails : n = request.name /\ m = request.mail
      BY <1>0, <2>2 DEF FinishCreate, HandsOK, Requests, CreateRequest
    <3>2. InsertAccount(n, m) /\ UNCHANGED <<client, missed>> /\ request.op = "create"
      BY <2>2, <3>1 DEF FinishCreate
    <3>3. \A id \in Id : Lurks(id)' => Lurks(id)
      BY <3>2, InsertRights DEF Lurks
    <3>4. \A id \in Id : request # Ask("kick", id)
      BY <3>2 DEF Ask
    <3> QED BY <3>3, <3>4, BansKept
  <2>3. CASE FinishKick
    <3>1. PICK victim \in Id : victim = request.id
      BY <1>0, <2>3 DEF FinishKick, HandsOK, Requests, CreateRequest
    <3>2. Kick(victim) /\ UNCHANGED accounts
      BY <2>3, <3>1 DEF FinishKick
    <3>3. \A id \in Id : Lurks(id)' => Lurks(id) /\ id # victim
      BY <3>2, KickEnds
    <3>4. \A id \in Id : id # victim => request # Ask("kick", id)
      BY <3>1 DEF Ask
    <3>5. \A id \in Id : ~Lurks(id)'
      BY <3>3, <3>4 DEF AInv, BansOK, BanOK, Lurks
    <3> QED BY <3>5 DEF BansOK, BanOK, Lurks
  <2>4. CASE FinishDelete
    <3>1. PICK victim \in Id : victim = request.id
      BY <1>0, <2>4 DEF FinishDelete, HandsOK, Requests, CreateRequest
    <3>2. /\ RemoveAccount(victim) \/ UNCHANGED accounts
          /\ UNCHANGED <<client, missed>> /\ request.op = "delete"
      BY <2>4, <3>1 DEF FinishDelete
    <3>3. \A id \in Id : Exists(id)' /\ accounts'[id].banned => Exists(id) /\ accounts[id].banned
      BY <3>2, RemoveRights DEF Exists
    <3>4. \A id \in Id : Lurks(id)' => Lurks(id)
      BY <3>2, <3>3 DEF Lurks
    <3>5. \A id \in Id : request # Ask("kick", id)
      BY <3>2 DEF Ask
    <3> QED BY <3>4, <3>5, BansKept
  <2> QED BY <1>8, <2>2, <2>3, <2>4 DEF Finish
<1>9. ASSUME NEW t \in Tokens, ChangesPassword(t)
      PROVE  BansOK'
  <2>1. PICK id \in Id : id = members[t].userId
    BY <1>9, SessionTypes DEF ChangesPassword, Knows, AInv
  <2> QED BY <1>p, <1>9, <2>1 DEF ChangesPassword, Knows
<1>10. ASSUME NEW id \in Id, NEW m \in Mails, ResetsPassword(id, m)
       PROVE  BansOK'
  BY <1>p, <1>10 DEF ResetsPassword
<1>11. ASSUME NEW id \in Id, NEW from \in Mails, NEW m \in Mails, ChangesEmail(id, from, m)
       PROVE  BansOK'
  <2> DEFINE row == [accounts[id] EXCEPT !.mail = m]
  <2>1. Served /\ Exists(id) /\ accounts[id] \in Account
    BY <1>e, <1>11 DEF ChangesEmail
  <2>2. row \in Account /\ (row.banned <=> accounts[id].banned)
    BY <2>1 DEF Account
  <2>3. accounts' = [accounts EXCEPT ![id] = row] /\ UNCHANGED <<client, missed>>
    BY <1>0, <1>11, <2>1 DEF ChangesEmail, Rows
  <2> HIDE DEF row
  <2> QED BY <1>2, <2>1, <2>2, <2>3
<1>12. ASSUME NEW t \in Tokens, MemberDeletes(t)
       PROVE  BansOK'
  <2>1. PICK id \in Id : id = members[t].userId
    BY <1>12, SessionTypes DEF MemberDeletes, Knows, AInv
  <2>2. Served /\ RemoveAccount(id) /\ UNCHANGED <<client, missed>>
    BY <1>12, <2>1 DEF MemberDeletes, Knows
  <2>3. \A a \in Id : Lurks(a)' => Lurks(a)
    BY <2>2, RemoveRights DEF Lurks
  <2> QED BY <1>l, <2>2, <2>3, BansKept
<1>13. CASE CmdCreateInserts
  <2>1. PICK n \in Names, m \in Mails : n = game.name /\ m = game.mail
    BY <1>0, <1>13 DEF CmdCreateInserts, HandsOK, Games, CreateRequest
  <2>2. InsertAccount(n, m) /\ UNCHANGED <<client, missed, request>>
    BY <1>13, <2>1 DEF CmdCreateInserts
  <2>3. \A id \in Id : Lurks(id)' => Lurks(id)
    BY <2>2, InsertRights DEF Lurks
  <2> QED BY <2>2, <2>3, BansKept
<1>14. ASSUME NEW id \in Id, CmdLogin(id)
       PROVE  BansOK'
  <2>1. ASSUME NEW a \in Id, Lurks(a)'
        PROVE  Lurks(a)
    BY <1>0, <1>14, <2>1 DEF CmdLogin, Lurks, Exists, Clients
  <2> QED BY <1>14, <2>1, BansKept DEF CmdLogin
<1>15. ASSUME NEW id \in Id, RegisterOnline(id)
       PROVE  BansOK'
  <2>1. ASSUME NEW a \in Id, Lurks(a)'
        PROVE  Lurks(a)
    BY <1>0, <1>15, <2>1 DEF RegisterOnline, Lurks, Exists, Clients
  <2> QED BY <1>15, <2>1, BansKept DEF RegisterOnline
<1>16. ASSUME NEW id \in Id, Leave(id)
       PROVE  BansOK'
  <2>1. ASSUME NEW a \in Id, Lurks(a)'
        PROVE  Lurks(a)
    BY <1>0, <1>16, <2>1 DEF Leave, Off, Lurks, Exists, Clients
  <2> QED BY <1>16, <2>1, BansKept DEF Leave
<1>17. CASE CmdDeleteRemoves
  <2>1. PICK id \in Id, by \in Id : id = game.id /\ by = game.by
    BY <1>0, <1>17 DEF CmdDeleteRemoves, HandsOK, Games, CreateRequest
  <2> DEFINE dropped == [client EXCEPT ![id].state = IF @ = "online" THEN "closing" ELSE @]
  <2>2. /\ UNCHANGED request
        /\ \/ UNCHANGED <<accounts, client, missed>>
           \/ /\ RemoveAccount(id)
              /\ \/ client' = [client EXCEPT ![id] = Off] /\ missed' = missed \ {id}
                 \/ /\ client' = [dropped EXCEPT ![by].state = IF @ = "off" THEN @ ELSE "closing"]
                    /\ missed' \in {missed, missed \cup {id}}
    BY <1>17, <2>1 DEF CmdDeleteRemoves
  <2>3. CASE UNCHANGED <<accounts, client, missed>>
    BY <1>1, <2>2, <2>3
  <2>4. ASSUME RemoveAccount(id), NEW a \in Id, Lurks(a)',
               \/ client' = [client EXCEPT ![id] = Off] /\ missed' = missed \ {id}
               \/ /\ client' = [dropped EXCEPT ![by].state = IF @ = "off" THEN @ ELSE "closing"]
                  /\ missed' \in {missed, missed \cup {id}}
        PROVE  Lurks(a)
    <3>1. Exists(a) /\ accounts[a].banned
      BY <2>4, RemoveRights DEF Lurks
    <3>2. a # id
      BY <1>0, <2>4 DEF Lurks, RemoveAccount, Exists, Rows
    <3>3. a \notin missed
      BY <2>4, <3>2 DEF Lurks
    <3>4. CASE client' = [client EXCEPT ![id] = Off]
      BY <1>0, <2>4, <3>1, <3>2, <3>3, <3>4 DEF Lurks, Clients
    <3>5. CASE client' = [dropped EXCEPT ![by].state = IF @ = "off" THEN @ ELSE "closing"]
      <4>1. dropped \in Clients /\ dropped[a] = client[a]
        BY <1>0, <3>2 DEF Clients
      <4>2. client'[a].state \in {dropped[a].state, "closing"}
        BY <3>5, <4>1 DEF Clients
      <4> QED BY <2>4, <3>1, <3>3, <4>1, <4>2 DEF Lurks
    <3> QED BY <2>4, <3>4, <3>5
  <2> QED BY <2>2, <2>3, <2>4, BansKept
<1>18. CASE Restart
  BY <1>18 DEF Restart, Off, BansOK, BanOK
<1>19. ASSUME NEW id \in Id, AdminLogin(id) \/ MemberLogin(id)
       PROVE  BansOK'
  BY <1>1, <1>19 DEF AdminLogin, MemberLogin
<1>20. ASSUME NEW t \in Tokens, AdminLogout(t) \/ MemberLogout(t)
       PROVE  BansOK'
  BY <1>1, <1>20 DEF AdminLogout, MemberLogout
<1>21. ASSUME NEW n \in Names, NEW m \in Mails,
              \/ \E t \in Tokens : AdminCreates(t, n, m)
              \/ MemberRegisters(n, m) \/ CmdCreate(n, m)
       PROVE  BansOK'
  BY <1>1, <1>21 DEF AdminCreates, MemberRegisters, CmdCreate
<1>22. ASSUME NEW id \in Id, NEW victim \in Id, CmdDelete(id, victim)
       PROVE  BansOK'
  BY <1>1, <1>22 DEF CmdDelete
<1>23. CASE UNCHANGED accountsVars
  BY <1>1, <1>23 DEF accountsVars
<1> QED BY <1>3, <1>4, <1>5, <1>6, <1>7, <1>8, <1>9, <1>10, <1>11, <1>12, <1>13, <1>14, <1>15,
           <1>16, <1>17, <1>18, <1>19, <1>20, <1>21, <1>22, <1>23
        DEF AccountsNext, AdminRequest, MemberRequest, GameSession

-----------------------------------------------------------------------------
(* The theorems *)

LEMMA AInit == AccountsInit => AInv
<1> SUFFICES ASSUME AccountsInit PROVE AInv
  OBVIOUS
<1>1. AccountsTyped
  BY TypeInit
<1>2. /\ Len(FirstAccounts) \in 1 .. MaxIds /\ MaxIds \in Nat
  BY AccountConstants
<1>3. IdsDrawn
  BY <1>2 DEF AccountsInit, IdsDrawn, Exists, Id
<1>4. SessionsOwned /\ VictimsOK /\ BansOK
  BY DEF AccountsInit, SessionsOwned, MemberSound, AdminSound, VictimsOK, BansOK, BanOK, Off
<1>5. StaysAdministrable
  <2>1. 1 \in Id /\ ~(1 > Len(FirstAccounts))
    BY <1>2 DEF Id
  <2>2. accounts[1] \in Account \cup {NoAccount}
    BY <1>1, <2>1 DEF AccountsTyped
  <2>3. accounts[1] = [name |-> FirstAccounts[1][1], mail |-> FirstAccounts[1][2], admin |-> TRUE,
                       banned |-> FALSE, password |-> 0, setBy |-> "owner"]
    <3>1. \A id \in Id : id = 1 => (id = 1) = TRUE
      OBVIOUS
    <3> QED BY <2>1, <3>1 DEF AccountsInit
  <2>4. 1 \in DOMAIN FirstAccounts /\ FirstAccounts[1] \in Names \X Mails
    BY <1>2, AccountConstants
  <2>5. FirstAccounts[1][1] \in Names /\ FirstAccounts[1][2] \in Mails /\ 0 \in 0 .. MaxPasswords
    BY <2>4, AccountConstants
  <2>6. accounts[1].admin
    BY <2>3
  <2>7. accounts[1] \in Account
    BY <2>3, <2>5 DEF Account
  <2> QED BY <2>1, <2>6, <2>7, AccountConstants DEF StaysAdministrable, IsAdmin, Exists
<1> QED BY <1>1, <1>3, <1>4, <1>5 DEF AInv

LEMMA AStep == AInv /\ [AccountsNext]_accountsVars => AInv'
<1> SUFFICES ASSUME AInv, [AccountsNext]_accountsVars PROVE AInv'
  OBVIOUS
<1>1. AccountsTyped'
  BY TypeStep DEF AInv
<1>2. Owned'
  BY OwnedStep
<1>3. VictimsOK' /\ BansOK'
  BY <1>1, VictimsStep, BansStep
<1> QED BY <1>1, <1>2, <1>3 DEF AInv, Owned

LEMMA AccountInvariant == AccountsSpec => []AInv
BY AInit, AStep, PTL DEF AccountsSpec

\* Every variable has its type, and two accounts never share a name or an address,
\* whichever creations look at the same time (CreateAccount, database.cpp).
THEOREM AccountTypes == AccountsSpec => []AccountsTyped
<1>1. AInv => AccountsTyped
  BY DEF AInv
<1> QED BY <1>1, AccountInvariant, PTL

\* No session outlives the right to it: those of the admin API are of administrators who
\* are not banned, none is inherited, a new password ends the older ones, and who is
\* banned is offline but for a login that was checked before (admin_api.cpp, member_api.cpp).
THEOREM SessionsAlwaysSound == AccountsSpec => []SessionsSound
<1>1. ASSUME AInv PROVE SessionsSound
  <2>1. ASSUME NEW t \in Tokens
        PROVE  MemberSound(members[t]) /\ AdminSound(admins[t])
    BY <1>1 DEF AInv, SessionsOwned
  <2>2. AdminSessionsRightful /\ PasswordChangeSignsOut
    BY <2>1 DEF AdminSessionsRightful, PasswordChangeSignsOut, MemberSound, AdminSound
  <2>3. NobodyInherits
    BY <2>1 DEF NobodyInherits, MemberSound, AdminSound
  <2>4. BanCloses
    <3>1. \A id \in Id : Idle # Ask("kick", id)
      BY AccountConstants DEF Ask
    <3>2. \A id \in Id : BanOK(id)
      BY <1>1 DEF AInv, BansOK
    <3> QED BY <3>1, <3>2 DEF BanCloses, BanOK
  <2> QED BY <2>2, <2>3, <2>4 DEF SessionsSound
<1> QED BY <1>1, AccountInvariant, PTL

\* However administrators take each other's rights, ban and delete, one is left, unless
\* one's account was deleted by its owner or over a game session, which nothing guards.
THEOREM AlwaysAdministrable == AccountsSpec => []StaysAdministrable
<1>1. AInv => StaysAdministrable
  BY DEF AInv
<1> QED BY <1>1, AccountInvariant, PTL

-----------------------------------------------------------------------------
(* The throttle in front of the sign-ins *)

\* Failures far enough apart in the list are far enough apart in time.
Spaced(list, apart, least) ==
  \A i, j \in DOMAIN list : i + apart <= j => list[i] + least <= list[j]

\* At the admin API: the failures that are no longer counted happened so long ago that
\* a block has passed since, or will have passed when the present one ends.
AdminSpaced ==
  /\ Spaced(failed, kMaxLoginFailures, kLoginBlockSeconds)
  /\ record.count < kMaxLoginFailures
  /\ record.blockedUntil # Never => record.count = 0
  /\ \A i \in DOMAIN failed : i <= Len(failed) - record.count =>
       \/ failed[i] + kLoginBlockSeconds <= clock
       \/ record.blockedUntil # Never /\ failed[i] + kLoginBlockSeconds <= record.blockedUntil

\* The failures after the g-th are those of the record's window: as many as it counts or
\* fewer (a wrong present password is counted, too), and the oldest began it if there are
\* as many.  Of the earlier ones, all but the last few lie a window before it.
WindowFrom(g) ==
  /\ Len(failed) - g <= record.count
  /\ Len(failed) - g = record.count => failed[g + 1] = record.firstAt
  /\ \A i \in 1 .. g :
       /\ failed[i] <= record.firstAt
       /\ i + MaxFailuresPerPeer - 2 <= g => failed[i] + FailureWindowSeconds < record.firstAt

MemberSpaced ==
  /\ Spaced(failed, 2 * MaxFailuresPerPeer - 2, FailureWindowSeconds + 1)
  /\ record.count < MaxFailuresPerPeer
  /\ record.blockedUntil # Never =>
       \A i \in DOMAIN failed : failed[i] + FailureWindowSeconds < record.blockedUntil
  /\ record.blockedUntil = Never /\ record.firstAt = Never => failed = <<>>
  /\ record.firstAt # Never => record.firstAt <= clock /\ record.count >= 1
  /\ record.blockedUntil = Never /\ record.firstAt # Never =>
       \E g \in 0 .. Len(failed) : WindowFrom(g)

TInv ==
  /\ ThrottleTyped
  /\ \A i \in DOMAIN failed : failed[i] <= clock
  /\ IF api = "admin" THEN AdminSpaced ELSE MemberSpaced

Record == [firstAt: Nat \cup {Never}, count: Nat, blockedUntil: Nat \cup {Never}]

\* What the constants are, one by one.
LEMMA Limits ==
  /\ MaxFailuresPerPeer \in Nat /\ MaxFailuresPerPeer >= 2
  /\ FailureWindowSeconds \in Nat /\ BlockSeconds \in Nat
  /\ FailureWindowSeconds < BlockSeconds
  /\ kMaxLoginFailures \in Nat /\ kMaxLoginFailures >= 1 /\ kLoginBlockSeconds \in Nat
  /\ MaxSeconds \in Nat /\ Never \notin Nat
BY ThrottleConstants

\* What the variables are.
LEMMA ThrottleParts ==
  ASSUME ThrottleTyped
  PROVE  /\ clock \in Nat /\ clock <= MaxSeconds
         /\ record \in Record
         /\ record.firstAt \in Nat \cup {Never} /\ record.count \in Nat
         /\ record.blockedUntil \in Nat \cup {Never}
         /\ Len(failed) \in Nat /\ DOMAIN failed = 1 .. Len(failed)
         /\ \A i \in DOMAIN failed : failed[i] \in Nat
<1>1. clock \in Nat /\ clock <= MaxSeconds
  BY Limits DEF ThrottleTyped
<1>2. failed \in Seq(0 .. MaxSeconds)
  BY DEF ThrottleTyped
<1>3. Len(failed) \in Nat /\ DOMAIN failed = 1 .. Len(failed)
  BY <1>2
<1>4. \A i \in DOMAIN failed : failed[i] \in Nat
  <2>1. failed \in [1 .. Len(failed) -> 0 .. MaxSeconds]
    BY <1>2, LenProperties
  <2>2. \A t \in 0 .. MaxSeconds : t \in Nat
    BY Limits
  <2> QED BY <1>3, <2>1, <2>2
<1>5. record \in Record
  BY DEF ThrottleTyped, Record
<1>6. /\ record.firstAt \in Nat \cup {Never} /\ record.count \in Nat
      /\ record.blockedUntil \in Nat \cup {Never}
  BY <1>5 DEF Record
<1> QED BY <1>1, <1>3, <1>4, <1>5, <1>6

\* A failure is appended to the list.
LEMMA FailureListed ==
  ASSUME ThrottleTyped, failed' = Append(failed, clock)
  PROVE  /\ failed' \in Seq(0 .. MaxSeconds)
         /\ Len(failed') = Len(failed) + 1 /\ DOMAIN failed' = 1 .. Len(failed) + 1
         /\ \A i \in 1 .. Len(failed) : failed'[i] = failed[i]
         /\ failed'[Len(failed) + 1] = clock
<1>1. clock \in 0 .. MaxSeconds /\ failed \in Seq(0 .. MaxSeconds)
  BY DEF ThrottleTyped
<1> QED BY <1>1

\* The record that a sign-in is judged by is the stored one, or a fresh one when a block
\* is over.
LEMMA LookedCases ==
  ASSUME ThrottleTyped, ~IsThrottled
  PROVE  \/ Looked = record /\ record.blockedUntil = Never
         \/ Looked = Fresh /\ record.blockedUntil \in Nat /\ record.blockedUntil <= clock
<1>1. record.blockedUntil # Never => record.blockedUntil \in Nat /\ record.blockedUntil <= clock
  BY ThrottleParts DEF IsThrottled
<1> QED BY <1>1 DEF Looked

\* The list that grows by a present failure stays spaced, if all failures but the last few
\* were long enough ago.
LEMMA SpacedOn ==
  ASSUME ThrottleTyped, failed' = Append(failed, clock), NEW apart \in Nat \ {0}, NEW least \in Nat,
         Spaced(failed, apart, least),
         \A i \in DOMAIN failed : i + apart <= Len(failed) + 1 => failed[i] + least <= clock
  PROVE  Spaced(failed', apart, least)
<1>1. SUFFICES ASSUME NEW i \in 1 .. Len(failed) + 1, NEW j \in 1 .. Len(failed) + 1, i + apart <= j
               PROVE  failed'[i] + least <= failed'[j]
  BY FailureListed DEF Spaced
<1>2. Len(failed) \in Nat /\ DOMAIN failed = 1 .. Len(failed)
  BY ThrottleParts
<1>3. i \in 1 .. Len(failed) /\ failed'[i] = failed[i]
  BY <1>1, <1>2, FailureListed
<1>4. CASE j = Len(failed) + 1
  BY <1>1, <1>2, <1>3, <1>4, FailureListed
<1>5. CASE j # Len(failed) + 1
  <2>1. j \in 1 .. Len(failed) /\ failed'[j] = failed[j]
    BY <1>2, <1>5, FailureListed
  <2> QED BY <1>1, <1>2, <1>3, <2>1 DEF Spaced
<1> QED BY <1>4, <1>5

\* The initial state has the invariant.
LEMMA ThrottleStarts == ThrottleInit => TInv
<1> SUFFICES ASSUME ThrottleInit PROVE TInv
  OBVIOUS
<1>1. failed = <<>> /\ DOMAIN failed = {} /\ clock = 0 /\ record = Fresh
  BY DEF ThrottleInit
<1>2. ThrottleTyped
  BY <1>1, Limits DEF ThrottleInit, ThrottleTyped, Fresh
<1>3. AdminSpaced /\ MemberSpaced
  BY <1>1, Limits DEF AdminSpaced, MemberSpaced, Spaced, Fresh
<1> QED BY <1>1, <1>2, <1>3 DEF TInv

\* A success forgets everything.
LEMMA SuccessKeeps == TInv /\ SignInSucceeds => TInv'
<1> SUFFICES ASSUME TInv, SignInSucceeds PROVE TInv'
  OBVIOUS
<1>1. failed' = <<>> /\ DOMAIN failed' = {} /\ record' = Fresh /\ clock' = clock /\ api' = api
  BY DEF SignInSucceeds
<1>2. ThrottleTyped'
  BY <1>1, Limits DEF TInv, ThrottleTyped, Fresh
<1>3. AdminSpaced' /\ MemberSpaced'
  BY <1>1, Limits DEF AdminSpaced, MemberSpaced, Spaced, Fresh
<1> QED BY <1>1, <1>2, <1>3 DEF TInv

\* Time passes.
LEMMA ClockKeeps == TInv /\ ClockTicks => TInv'
<1> SUFFICES ASSUME TInv, ClockTicks PROVE TInv'
  OBVIOUS
<1>1. failed' = failed /\ record' = record /\ clock' = clock + 1 /\ api' = api /\ clock < MaxSeconds
  BY DEF ClockTicks
<1>2. ThrottleTyped
  BY DEF TInv
<1>3. ThrottleTyped'
  BY <1>1, <1>2, Limits DEF ThrottleTyped
<1>4. \A i \in DOMAIN failed' : failed'[i] <= clock'
  BY <1>1, <1>2, ThrottleParts DEF TInv
<1>5. CASE api = "admin"
  <2>1. AdminSpaced
    BY <1>5 DEF TInv
  <2>2. \A i \in DOMAIN failed : failed[i] + kLoginBlockSeconds <= clock =>
          failed[i] + kLoginBlockSeconds <= clock'
    BY <1>1, <1>2, ThrottleParts, Limits
  <2>3. AdminSpaced'
    BY <1>1, <2>1, <2>2 DEF AdminSpaced
  <2> QED BY <1>1, <1>3, <1>4, <1>5, <2>3 DEF TInv
<1>6. CASE api # "admin"
  <2>1. MemberSpaced
    BY <1>6 DEF TInv
  <2>2. record.firstAt # Never => record.firstAt <= clock'
    BY <1>1, <1>2, <2>1, ThrottleParts DEF MemberSpaced
  <2>3. \A g : WindowFrom(g)' <=> WindowFrom(g)
    BY <1>1 DEF WindowFrom
  <2>4. MemberSpaced'
    BY <1>1, <2>1, <2>2, <2>3 DEF MemberSpaced
  <2> QED BY <1>1, <1>3, <1>4, <1>6, <2>4 DEF TInv
<1> QED BY <1>5, <1>6

\* What a failure makes of a record of the admin API.
LEMMA NotedFailure ==
  ASSUME NEW r \in Record, clock \in Nat
  PROVE  /\ NoteLoginFailure(r) \in Record
         /\ r.count + 1 >= kMaxLoginFailures =>
              /\ NoteLoginFailure(r).count = 0
              /\ NoteLoginFailure(r).blockedUntil = clock + kLoginBlockSeconds
         /\ r.count + 1 < kMaxLoginFailures =>
              /\ NoteLoginFailure(r).count = r.count + 1
              /\ NoteLoginFailure(r).blockedUntil = r.blockedUntil
<1>1. clock + kLoginBlockSeconds \in Nat /\ r.count \in Nat /\ kMaxLoginFailures \in Nat
  BY Limits DEF Record
<1>2. CASE r.count + 1 >= kMaxLoginFailures
  <2>1. NoteLoginFailure(r) = [r EXCEPT !.count = 0, !.blockedUntil = clock + kLoginBlockSeconds]
    BY <1>2 DEF NoteLoginFailure
  <2>2. PICK b \in Nat : b = clock + kLoginBlockSeconds
    BY <1>1
  <2>3. [r EXCEPT !.count = 0, !.blockedUntil = b] \in Record
    BY DEF Record
  <2>4. /\ [r EXCEPT !.count = 0, !.blockedUntil = b].count = 0
        /\ [r EXCEPT !.count = 0, !.blockedUntil = b].blockedUntil = b
    BY DEF Record
  <2>5. ~(r.count + 1 < kMaxLoginFailures)
    BY <1>1, <1>2
  <2> QED BY <2>1, <2>2, <2>3, <2>4, <2>5
<1>3. CASE ~(r.count + 1 >= kMaxLoginFailures)
  <2>1. NoteLoginFailure(r) = [r EXCEPT !.count = r.count + 1]
    BY <1>3 DEF NoteLoginFailure
  <2>2. PICK n \in Nat : n = r.count + 1
    BY <1>1
  <2>3. [r EXCEPT !.count = n] \in Record
    BY DEF Record
  <2>4. [r EXCEPT !.count = n].count = n /\ [r EXCEPT !.count = n].blockedUntil = r.blockedUntil
    BY DEF Record
  <2> QED BY <1>3, <2>1, <2>2, <2>3, <2>4
<1> QED BY <1>2, <1>3

\* A failure at the admin API that was let through.
LEMMA AdminFailureKeeps ==
  ASSUME TInv, api = "admin", SignInFails
  PROVE  TInv'
<1>1. /\ ~IsThrottled /\ record' = NoteLoginFailure(Looked) /\ failed' = Append(failed, clock)
      /\ clock' = clock /\ api' = api
  BY DEF SignInFails, Failure
<1>2. ThrottleTyped /\ AdminSpaced /\ \A i \in DOMAIN failed : failed[i] <= clock
  BY DEF TInv
<1>3. PICK n \in Nat : n = Len(failed)
  BY <1>2, ThrottleParts
<1>4. /\ DOMAIN failed = 1 .. n /\ DOMAIN failed' = 1 .. n + 1 /\ Len(failed') = n + 1
      /\ \A i \in 1 .. n : failed'[i] = failed[i] /\ failed[i] \in Nat
      /\ failed'[n + 1] = clock
  BY <1>1, <1>2, <1>3, FailureListed, ThrottleParts
<1>5. PICK c \in Nat : c = Looked.count
  BY <1>1, <1>2, LookedCases, ThrottleParts DEF Fresh
<1>6. c < kMaxLoginFailures
  BY <1>1, <1>2, <1>5, LookedCases, Limits DEF Fresh, AdminSpaced
<1>7. \A i \in 1 .. n : i <= n - c => failed[i] + kLoginBlockSeconds <= clock
  <2>1. \A i \in 1 .. n : i <= n - record.count =>
          \/ failed[i] + kLoginBlockSeconds <= clock
          \/ record.blockedUntil # Never /\ failed[i] + kLoginBlockSeconds <= record.blockedUntil
    BY <1>2, <1>3, <1>4 DEF AdminSpaced
  <2>2. CASE Looked = record /\ record.blockedUntil = Never
    BY <1>5, <2>1, <2>2
  <2>3. CASE Looked = Fresh /\ record.blockedUntil \in Nat /\ record.blockedUntil <= clock
    <3>1. record.count = 0
      BY <1>2, <2>3, Limits DEF AdminSpaced
    <3>2. clock \in Nat
      BY <1>2, ThrottleParts
    <3> QED BY <1>4, <2>1, <2>3, <3>1, <3>2, Limits
  <2> QED BY <1>1, <1>2, <2>2, <2>3, LookedCases
<1>8. Spaced(failed', kMaxLoginFailures, kLoginBlockSeconds)
  <2>1. \A i \in DOMAIN failed : i + kMaxLoginFailures <= Len(failed) + 1 => i <= n - c
    BY <1>3, <1>4, <1>6, Limits
  <2>2. \A i \in DOMAIN failed :
          i + kMaxLoginFailures <= Len(failed) + 1 => failed[i] + kLoginBlockSeconds <= clock
    BY <1>4, <1>7, <2>1
  <2>3. Spaced(failed, kMaxLoginFailures, kLoginBlockSeconds)
    BY <1>2 DEF AdminSpaced
  <2>4. kMaxLoginFailures \in Nat \ {0} /\ kLoginBlockSeconds \in Nat
    BY Limits
  <2> QED BY <1>1, <1>2, <2>2, <2>3, <2>4, SpacedOn
<1>9. Looked \in Record
  BY <1>1, <1>2, LookedCases, ThrottleParts, Limits DEF Fresh, Record
<1>10. clock \in Nat /\ failed' \in Seq(0 .. MaxSeconds)
  BY <1>1, <1>2, ThrottleParts, FailureListed
<1>11. \/ /\ c + 1 >= kMaxLoginFailures
          /\ record'.count = 0 /\ record'.blockedUntil = clock + kLoginBlockSeconds
          /\ record' \in Record
       \/ /\ c + 1 < kMaxLoginFailures
          /\ record'.count = c + 1 /\ record'.blockedUntil = Never
          /\ record' \in Record
  <2>1. Looked.blockedUntil = Never
    BY <1>1, <1>2, LookedCases DEF Fresh
  <2>2. CASE c + 1 >= kMaxLoginFailures
    BY <1>1, <1>5, <1>9, <1>10, <2>2, NotedFailure
  <2>3. CASE c + 1 < kMaxLoginFailures
    BY <1>1, <1>5, <1>9, <1>10, <2>1, <2>3, NotedFailure
  <2> QED BY <2>2, <2>3, Limits
<1>12. ThrottleTyped'
  BY <1>1, <1>2, <1>10, <1>11 DEF ThrottleTyped, Record
<1>13. \A i \in DOMAIN failed' : failed'[i] <= clock'
  BY <1>1, <1>2, <1>4, <1>10
<1>14. \A i \in DOMAIN failed' : i <= Len(failed') - record'.count =>
         \/ failed'[i] + kLoginBlockSeconds <= clock'
         \/ record'.blockedUntil # Never /\ failed'[i] + kLoginBlockSeconds <= record'.blockedUntil
  <2>1. CASE record'.count = 0 /\ record'.blockedUntil = clock + kLoginBlockSeconds
    <3>1. record'.blockedUntil # Never
      BY <1>10, <2>1, Limits
    <3>2. \A i \in 1 .. n + 1 : failed'[i] \in Nat /\ failed'[i] <= clock
      BY <1>1, <1>4, <1>10, <1>13
    <3> QED BY <1>4, <1>10, <2>1, <3>1, <3>2, Limits
  <2>2. CASE record'.count = c + 1
    <3>1. \A i \in 1 .. n + 1 : i <= n + 1 - (c + 1) => i \in 1 .. n /\ i <= n - c
      OBVIOUS
    <3> QED BY <1>1, <1>4, <1>7, <2>2, <3>1
  <2> QED BY <1>11, <2>1, <2>2
<1>15. /\ record'.count < kMaxLoginFailures
       /\ record'.blockedUntil # Never => record'.count = 0
  BY <1>11, Limits
<1>16. AdminSpaced'
  BY <1>8, <1>14, <1>15 DEF AdminSpaced
<1> QED BY <1>1, <1>12, <1>13, <1>16 DEF TInv

\* A failure at the member API begins a window, goes on in the present one, or blocks.
Opens(r) == r.firstAt = Never \/ clock - r.firstAt > FailureWindowSeconds

\* What a failure makes of a record of the member API.
LEMMA RegisteredFailure ==
  ASSUME NEW r \in Record, clock \in Nat, r.count < MaxFailuresPerPeer
  PROVE  \/ /\ Opens(r)
            /\ RegisterFailure(r) =
                 [firstAt |-> clock, count |-> 1, blockedUntil |-> r.blockedUntil]
         \/ /\ ~Opens(r) /\ r.count + 1 < MaxFailuresPerPeer
            /\ RegisterFailure(r) =
                 [firstAt |-> r.firstAt, count |-> r.count + 1, blockedUntil |-> r.blockedUntil]
         \/ /\ ~Opens(r) /\ r.count + 1 = MaxFailuresPerPeer
            /\ RegisterFailure(r) =
                 [firstAt |-> Never, count |-> 0, blockedUntil |-> clock + BlockSeconds]
<1>1. r.count \in Nat /\ MaxFailuresPerPeer \in Nat /\ MaxFailuresPerPeer >= 2
  BY Limits DEF Record
<1>2. PICK f, c, b : r = [firstAt |-> f, count |-> c, blockedUntil |-> b]
  <2>1. r = [firstAt |-> r.firstAt, count |-> r.count, blockedUntil |-> r.blockedUntil]
    BY DEF Record
  <2> QED BY <2>1
<1>3. CASE Opens(r)
  <2>1. CountedMember(r) = [r EXCEPT !.firstAt = clock, !.count = 1]
    BY <1>3 DEF CountedMember, Opens
  <2>2. [r EXCEPT !.firstAt = clock, !.count = 1] =
          [firstAt |-> clock, count |-> 1, blockedUntil |-> r.blockedUntil]
    <3>1. PICK t \in Nat : t = clock
      OBVIOUS
    <3>2. PICK counted \in Record : counted = [r EXCEPT !.firstAt = t, !.count = 1]
      BY DEF Record
    <3>3. counted.firstAt = t /\ counted.count = 1 /\ counted.blockedUntil = r.blockedUntil
      BY <3>2 DEF Record
    <3>4. counted = [firstAt |-> counted.firstAt, count |-> counted.count,
                     blockedUntil |-> counted.blockedUntil]
      BY DEF Record
    <3> QED BY <3>1, <3>2, <3>3, <3>4
  <2>3. CountedMember(r) = [firstAt |-> clock, count |-> 1, blockedUntil |-> r.blockedUntil]
    BY <2>1, <2>2
  <2>4. CountedMember(r).count = 1 /\ ~(1 >= MaxFailuresPerPeer)
    BY <1>1, <2>3
  <2> QED BY <1>3, <2>3, <2>4 DEF RegisterFailure
<1>4. CASE ~Opens(r)
  <2>1. CountedMember(r) = [r EXCEPT !.count = r.count + 1]
    BY <1>4 DEF CountedMember, Opens
  <2>2. PICK n \in Nat : n = r.count + 1
    BY <1>1
  <2>3. [r EXCEPT !.count = n] = [firstAt |-> r.firstAt, count |-> n, blockedUntil |-> r.blockedUntil]
    <3>1. [[firstAt |-> f, count |-> c, blockedUntil |-> b] EXCEPT !.count = n] =
            [firstAt |-> f, count |-> n, blockedUntil |-> b]
      OBVIOUS
    <3>2. r.firstAt = f /\ r.blockedUntil = b
      BY <1>2
    <3> QED BY <1>2, <3>1, <3>2
  <2>4. CountedMember(r) = [firstAt |-> r.firstAt, count |-> n, blockedUntil |-> r.blockedUntil]
    BY <2>1, <2>2, <2>3
  <2>5. CountedMember(r).count = n
    BY <2>4
  <2>6. CASE n >= MaxFailuresPerPeer
    <3>1. RegisterFailure(r) = [firstAt |-> Never, count |-> 0, blockedUntil |-> clock + BlockSeconds]
      BY <2>5, <2>6 DEF RegisterFailure
    <3>2. r.count + 1 = MaxFailuresPerPeer
      BY <1>1, <2>2, <2>6
    <3> QED BY <1>4, <3>1, <3>2
  <2>7. CASE ~(n >= MaxFailuresPerPeer)
    <3>1. RegisterFailure(r) = CountedMember(r)
      BY <2>5, <2>7 DEF RegisterFailure
    <3>2. r.count + 1 < MaxFailuresPerPeer
      BY <1>1, <2>2, <2>7
    <3> QED BY <1>4, <2>2, <2>4, <3>1, <3>2
  <2> QED BY <2>6, <2>7
<1> QED BY <1>3, <1>4

\* What holds of the record of the member API, and of the one it is judged by.
RecordSound(r) ==
  /\ r \in Record /\ r.count < MaxFailuresPerPeer
  /\ r.firstAt # Never => r.firstAt <= clock /\ r.count >= 1

\* When a window begins, all earlier failures but the last few lie a window before.
LEMMA OpeningSpaced ==
  ASSUME TInv, api # "admin",
         \/ Opens(record) /\ record.blockedUntil = Never
         \/ record.blockedUntil # Never /\ record.blockedUntil <= clock
  PROVE  \A i \in DOMAIN failed :
           i + MaxFailuresPerPeer - 2 <= Len(failed) => failed[i] + FailureWindowSeconds < clock
<1>1. ThrottleTyped /\ MemberSpaced
  BY DEF TInv
<1>2. PICK n \in Nat : n = Len(failed) /\ DOMAIN failed = 1 .. n
  BY <1>1, ThrottleParts
<1>3. clock \in Nat /\ record.count \in Nat /\ \A i \in 1 .. n : failed[i] \in Nat
  BY <1>1, <1>2, ThrottleParts
<1>4. CASE record.blockedUntil # Never
  <2>1. record.blockedUntil \in Nat
    BY <1>1, <1>4, ThrottleParts
  <2>2. \A i \in DOMAIN failed : failed[i] + FailureWindowSeconds < record.blockedUntil
    BY <1>1, <1>4 DEF MemberSpaced
  <2> QED BY <1>2, <1>3, <1>4, <2>1, <2>2, Limits
<1>5. CASE record.blockedUntil = Never /\ record.firstAt = Never
  <2>1. failed = <<>>
    BY <1>1, <1>5 DEF MemberSpaced
  <2> QED BY <2>1
<1>6. CASE record.blockedUntil = Never /\ record.firstAt # Never
  <2>1. record.firstAt \in Nat /\ record.count < MaxFailuresPerPeer
    BY <1>1, <1>6, ThrottleParts DEF MemberSpaced
  <2>2. record.firstAt + FailureWindowSeconds < clock
    BY <1>3, <1>6, <2>1, Limits DEF Opens
  <2>3. PICK g \in 0 .. n : WindowFrom(g)
    BY <1>1, <1>2, <1>6 DEF MemberSpaced
  <2>4. ASSUME NEW i \in 1 .. n, i + MaxFailuresPerPeer - 2 <= n
        PROVE  failed[i] + FailureWindowSeconds < clock
    <3>1. failed[i] <= record.firstAt
      <4>1. CASE i <= g
        BY <2>3, <4>1 DEF WindowFrom
      <4>2. CASE ~(i <= g)
        <5>1. n - g <= record.count
          BY <1>2, <2>3 DEF WindowFrom
        <5>2. i = g + 1 /\ n - g = record.count
          BY <1>3, <2>1, <2>4, <4>2, <5>1, Limits
        <5>3. failed[g + 1] = record.firstAt
          BY <1>2, <2>3, <5>2 DEF WindowFrom
        <5> QED BY <2>1, <5>2, <5>3
      <4> QED BY <4>1, <4>2
    <3> QED BY <1>3, <2>1, <2>2, <3>1, Limits
  <2> QED BY <1>2, <2>4
<1> QED BY <1>4, <1>5, <1>6

\* What a failure leaves of the record, whichever list of failures goes with it.
LEMMA RecordKeeps ==
  ASSUME ThrottleTyped, NEW r, RecordSound(r), record' = RegisterFailure(r),
         clock' = clock, api' = api, failed' \in Seq(0 .. MaxSeconds)
  PROVE  /\ ThrottleTyped' /\ record'.count < MaxFailuresPerPeer
         /\ record'.firstAt # Never => record'.firstAt <= clock' /\ record'.count >= 1
<1>1. clock \in Nat
  BY ThrottleParts
<1>2. record' \in Record /\ record'.count < MaxFailuresPerPeer
        /\ (record'.firstAt # Never => record'.firstAt <= clock' /\ record'.count >= 1)
  <2>1. /\ r.firstAt \in Nat \cup {Never} /\ r.count \in Nat /\ r.blockedUntil \in Nat \cup {Never}
        /\ r \in Record /\ r.count < MaxFailuresPerPeer /\ (r.firstAt # Never => r.firstAt <= clock)
    BY DEF RecordSound, Record
  <2>2. CASE record' = [firstAt |-> clock, count |-> 1, blockedUntil |-> r.blockedUntil]
    BY <1>1, <2>1, <2>2, Limits DEF Record
  <2>3. CASE r.count + 1 < MaxFailuresPerPeer /\ record' =
               [firstAt |-> r.firstAt, count |-> r.count + 1, blockedUntil |-> r.blockedUntil]
    BY <1>1, <2>1, <2>3, Limits DEF Record
  <2>4. CASE record' = [firstAt |-> Never, count |-> 0, blockedUntil |-> clock + BlockSeconds]
    BY <1>1, <2>4, Limits DEF Record
  <2> QED BY <1>1, <2>1, <2>2, <2>3, <2>4, RegisteredFailure
<1> QED BY <1>2 DEF ThrottleTyped, Record

\* A wrong present password is counted even while the peer is blocked.
LEMMA PasswordFailureKeeps ==
  ASSUME TInv, ChangePasswordFails
  PROVE  TInv'
<1>1. /\ api # "admin" /\ record' = RegisterFailure(record)
      /\ failed' = failed /\ clock' = clock /\ api' = api
  BY DEF ChangePasswordFails
<1>2. ThrottleTyped /\ MemberSpaced /\ \A i \in DOMAIN failed : failed[i] <= clock
  BY <1>1 DEF TInv
<1>3. PICK n \in Nat : n = Len(failed) /\ DOMAIN failed = 1 .. n
  BY <1>2, ThrottleParts
<1>4. /\ clock \in Nat /\ record.count \in Nat /\ record \in Record
      /\ \A i \in 1 .. n : failed[i] \in Nat /\ failed[i] <= clock
  BY <1>2, <1>3, ThrottleParts
<1>5. RecordSound(record)
  BY <1>2, <1>4 DEF MemberSpaced, RecordSound
<1>6. failed' \in Seq(0 .. MaxSeconds)
  BY <1>1, <1>2 DEF ThrottleTyped
<1>7. /\ ThrottleTyped' /\ record'.count < MaxFailuresPerPeer
      /\ record'.firstAt # Never => record'.firstAt <= clock' /\ record'.count >= 1
  BY <1>1, <1>2, <1>5, <1>6, RecordKeeps
<1>8. /\ record'.blockedUntil # Never =>
           \A i \in 1 .. n : failed[i] + FailureWindowSeconds < record'.blockedUntil
      /\ record'.blockedUntil = Never /\ record'.firstAt = Never => failed = <<>>
      /\ record'.blockedUntil = Never /\ record'.firstAt # Never =>
           \E g \in 0 .. n : WindowFrom(g)'
  <2>1. record.blockedUntil # Never =>
          \A i \in 1 .. n : failed[i] + FailureWindowSeconds < record.blockedUntil
    BY <1>2, <1>3 DEF MemberSpaced
  <2>2. CASE Opens(record) /\ record' =
               [firstAt |-> clock, count |-> 1, blockedUntil |-> record.blockedUntil]
    <3>1. ASSUME record.blockedUntil = Never PROVE WindowFrom(n)'
      <4>1. \A i \in 1 .. n :
              i + MaxFailuresPerPeer - 2 <= n => failed[i] + FailureWindowSeconds < clock
        BY <1>1, <1>3, <2>2, <3>1, OpeningSpaced
      <4>2. Len(failed) - n = 0
        BY <1>3
      <4> QED BY <1>1, <1>4, <2>2, <4>1, <4>2 DEF WindowFrom
    <3>2. n \in 0 .. n /\ clock # Never
      BY <1>4, Limits
    <3> QED BY <2>1, <2>2, <3>1, <3>2
  <2>3. CASE ~Opens(record) /\ record' =
               [firstAt |-> record.firstAt, count |-> record.count + 1,
                blockedUntil |-> record.blockedUntil]
    <3>1. record.firstAt # Never
      BY <2>3 DEF Opens
    <3>2. ASSUME record.blockedUntil = Never PROVE \E g \in 0 .. n : WindowFrom(g)'
      <4>1. PICK g \in 0 .. n : WindowFrom(g)
        BY <1>2, <1>3, <3>1, <3>2 DEF MemberSpaced
      <4>2. n - g <= record.count
        BY <1>3, <4>1 DEF WindowFrom
      <4>3. n - g <= record.count + 1 /\ n - g # record.count + 1
        BY <1>4, <4>2
      <4>4. WindowFrom(g)'
        BY <1>1, <1>3, <2>3, <4>1, <4>3 DEF WindowFrom
      <4> QED BY <4>4
    <3> QED BY <2>1, <2>3, <3>1, <3>2
  <2>4. CASE record' = [firstAt |-> Never, count |-> 0, blockedUntil |-> clock + BlockSeconds]
    <3>1. clock + BlockSeconds # Never
      BY <1>4, Limits
    <3>2. \A i \in 1 .. n : failed[i] + FailureWindowSeconds < clock + BlockSeconds
      BY <1>4, Limits
    <3> QED BY <2>4, <3>1, <3>2
  <2> QED BY <1>1, <1>4, <1>5, <2>2, <2>3, <2>4, RegisteredFailure DEF RecordSound
<1>9. Spaced(failed', 2 * MaxFailuresPerPeer - 2, FailureWindowSeconds + 1)
  BY <1>1, <1>2 DEF MemberSpaced
<1>10. MemberSpaced'
  BY <1>1, <1>3, <1>7, <1>8, <1>9 DEF MemberSpaced
<1> QED BY <1>1, <1>2, <1>7, <1>10 DEF TInv

\* A failure at the member API that was let through.
LEMMA MemberFailureKeeps ==
  ASSUME TInv, api # "admin", SignInFails
  PROVE  TInv'
<1>1. /\ ~IsThrottled /\ failed' = Append(failed, clock) /\ clock' = clock /\ api' = api
  BY DEF SignInFails
<1>2. ThrottleTyped /\ MemberSpaced /\ \A i \in DOMAIN failed : failed[i] <= clock
  BY DEF TInv
<1>3. record' = RegisterFailure(Looked)
  BY <1>2 DEF SignInFails, Failure, ThrottleTyped
<1>4. PICK n \in Nat : n = Len(failed) /\ DOMAIN failed = 1 .. n
  BY <1>2, ThrottleParts
<1>5. /\ clock \in Nat /\ record.count \in Nat /\ record \in Record
      /\ \A i \in 1 .. n : failed[i] \in Nat /\ failed[i] <= clock
  BY <1>2, <1>4, ThrottleParts
<1>6. /\ DOMAIN failed' = 1 .. n + 1 /\ Len(failed') = n + 1 /\ failed'[n + 1] = clock
      /\ \A i \in 1 .. n : failed'[i] = failed[i]
      /\ failed' \in Seq(0 .. MaxSeconds)
  BY <1>1, <1>2, <1>4, FailureListed
<1>7. \/ Looked = record /\ record.blockedUntil = Never
      \/ Looked = Fresh /\ record.blockedUntil # Never /\ record.blockedUntil <= clock
  BY <1>1, <1>2, LookedCases, Limits
<1>8. RecordSound(Looked)
  BY <1>2, <1>5, <1>7, Limits DEF MemberSpaced, RecordSound, Fresh, Record
<1>9. /\ ThrottleTyped' /\ record'.count < MaxFailuresPerPeer
      /\ record'.firstAt # Never => record'.firstAt <= clock' /\ record'.count >= 1
  BY <1>1, <1>2, <1>3, <1>6, <1>8, RecordKeeps
<1>10. \A i \in DOMAIN failed' : failed'[i] \in Nat /\ failed'[i] <= clock
  BY <1>4, <1>5, <1>6
<1>11. Looked.blockedUntil = Never
  BY <1>7 DEF Fresh
\* It is far enough from the failures before the present window.
<1>12. ASSUME NEW at \in Nat, at <= clock, NEW g \in 0 .. n, n - g < MaxFailuresPerPeer,
              \A i \in 1 .. g :
                i + MaxFailuresPerPeer - 2 <= g => failed[i] + FailureWindowSeconds < at
       PROVE  Spaced(failed', 2 * MaxFailuresPerPeer - 2, FailureWindowSeconds + 1)
  <2>1. ASSUME NEW i \in 1 .. n, i + (2 * MaxFailuresPerPeer - 2) <= n + 1
        PROVE  failed[i] + (FailureWindowSeconds + 1) <= clock
    <3>1. i + MaxFailuresPerPeer - 2 <= g /\ i \in 1 .. g
      BY <1>12, <2>1, Limits
    <3>2. failed[i] + FailureWindowSeconds < at
      BY <1>12, <3>1
    <3> QED BY <1>5, <1>12, <3>2, Limits
  <2>2. Spaced(failed, 2 * MaxFailuresPerPeer - 2, FailureWindowSeconds + 1)
    BY <1>2 DEF MemberSpaced
  <2>3. 2 * MaxFailuresPerPeer - 2 \in Nat \ {0} /\ FailureWindowSeconds + 1 \in Nat
    BY Limits
  <2> QED BY <1>1, <1>2, <1>4, <2>1, <2>2, <2>3, SpacedOn
<1>13. /\ Spaced(failed', 2 * MaxFailuresPerPeer - 2, FailureWindowSeconds + 1)
       /\ record'.blockedUntil # Never =>
            \A i \in DOMAIN failed' : failed'[i] + FailureWindowSeconds < record'.blockedUntil
       /\ ~(record'.blockedUntil = Never /\ record'.firstAt = Never)
       /\ record'.blockedUntil = Never => \E g \in 0 .. n + 1 : WindowFrom(g)'
  <2>1. CASE Opens(Looked) /\ record' =
               [firstAt |-> clock, count |-> 1, blockedUntil |-> Looked.blockedUntil]
    <3>1. \A i \in 1 .. n :
            i + MaxFailuresPerPeer - 2 <= n => failed[i] + FailureWindowSeconds < clock
      BY <1>4, <1>7, <2>1, OpeningSpaced
    <3>2. n \in 0 .. n /\ n \in 0 .. n + 1 /\ n - n < MaxFailuresPerPeer
      BY Limits
    <3>3. Spaced(failed', 2 * MaxFailuresPerPeer - 2, FailureWindowSeconds + 1)
      BY <1>5, <1>12, <3>1, <3>2
    <3>4. (n + 1) - n = 1
      OBVIOUS
    <3>5. WindowFrom(n)'
      BY <1>5, <1>6, <2>1, <3>1, <3>4 DEF WindowFrom
    <3>6. clock # Never
      BY <1>5, Limits
    <3> QED BY <1>11, <2>1, <3>2, <3>3, <3>5, <3>6
  <2>2. CASE ~Opens(Looked)
    <3>1. Looked = record /\ record.blockedUntil = Never /\ record.firstAt # Never
      BY <1>7, <2>2 DEF Opens, Fresh
    <3>2. PICK g \in 0 .. n : WindowFrom(g)
      BY <1>2, <1>4, <3>1 DEF MemberSpaced
    <3>3. n - g <= record.count /\ record.count < MaxFailuresPerPeer
      BY <1>2, <1>4, <3>2 DEF WindowFrom, MemberSpaced
    <3>4. record.firstAt \in Nat /\ record.firstAt <= clock /\ record.count >= 1
      BY <1>2, <3>1, ThrottleParts DEF MemberSpaced
    <3>5. n - g < MaxFailuresPerPeer
      BY <1>5, <3>3, Limits
    <3>6. Spaced(failed', 2 * MaxFailuresPerPeer - 2, FailureWindowSeconds + 1)
      <4>1. \A i \in 1 .. g : i + MaxFailuresPerPeer - 2 <= g =>
              failed[i] + FailureWindowSeconds < record.firstAt
        BY <3>2 DEF WindowFrom
      <4> QED BY <1>12, <3>4, <3>5, <4>1
    <3>7. CASE record' = [firstAt |-> record.firstAt, count |-> record.count + 1,
                          blockedUntil |-> record.blockedUntil]
      <4>1. (n + 1) - g <= record.count + 1 /\ g \in 0 .. n + 1
        BY <1>5, <3>3
      <4>2. (n + 1) - g = record.count + 1 => failed'[g + 1] = record.firstAt
        <5>1. ASSUME (n + 1) - g = record.count + 1
              PROVE  n - g = record.count /\ g + 1 \in 1 .. n
          BY <1>5, <3>4, <5>1
        <5> QED BY <1>4, <1>6, <3>2, <5>1 DEF WindowFrom
      <4>3. \A i \in 1 .. g : failed'[i] = failed[i]
        BY <1>6
      <4>4. WindowFrom(g)'
        BY <1>6, <3>2, <3>7, <4>1, <4>2, <4>3 DEF WindowFrom
      <4> QED BY <3>1, <3>6, <3>7, <4>1, <4>4
    <3>8. CASE record' = [firstAt |-> Never, count |-> 0, blockedUntil |-> clock + BlockSeconds]
      <4>1. clock + BlockSeconds # Never
        BY <1>5, Limits
      <4>2. \A i \in DOMAIN failed' : failed'[i] + FailureWindowSeconds < clock + BlockSeconds
        BY <1>5, <1>10, Limits
      <4> QED BY <3>6, <3>8, <4>1, <4>2
    <3> QED BY <1>3, <1>5, <1>8, <2>2, <3>1, <3>7, <3>8, RegisteredFailure DEF RecordSound
  <2> QED BY <1>3, <1>5, <1>8, <2>1, <2>2, RegisteredFailure DEF RecordSound
<1>14. MemberSpaced'
  BY <1>6, <1>9, <1>13 DEF MemberSpaced
<1> QED BY <1>1, <1>9, <1>10, <1>14 DEF TInv

\* Every step keeps the invariant, and it holds from the beginning.
LEMMA ThrottleStep == TInv /\ [ThrottleNext]_throttleVars => TInv'
<1> SUFFICES ASSUME TInv, [ThrottleNext]_throttleVars PROVE TInv'
  OBVIOUS
<1>1. CASE SignInFails
  BY <1>1, AdminFailureKeeps, MemberFailureKeeps
<1>2. CASE SignInSucceeds
  BY <1>2, SuccessKeeps
<1>3. CASE ChangePasswordFails
  BY <1>3, PasswordFailureKeeps
<1>4. CASE ClockTicks
  BY <1>4, ClockKeeps
<1>5. CASE UNCHANGED throttleVars
  <2>1. api' = api /\ record' = record /\ failed' = failed /\ clock' = clock
    BY <1>5 DEF throttleVars
  <2>2. ThrottleTyped' /\ \A i \in DOMAIN failed' : failed'[i] <= clock'
    BY <2>1 DEF TInv, ThrottleTyped
  <2>3. (AdminSpaced' <=> AdminSpaced) /\ \A g : WindowFrom(g)' <=> WindowFrom(g)
    BY <2>1 DEF AdminSpaced, WindowFrom
  <2>4. MemberSpaced' <=> MemberSpaced
    BY <2>1, <2>3 DEF MemberSpaced
  <2> QED BY <2>1, <2>2, <2>3, <2>4 DEF TInv
<1> QED BY <1>1, <1>2, <1>3, <1>4, <1>5 DEF ThrottleNext, SignInRefused

LEMMA ThrottleInvariant == ThrottleSpec => []TInv
BY ThrottleStarts, ThrottleStep, PTL DEF ThrottleSpec

\* A set of numbers of which no two are far apart is small.
LEMMA CloseTogether ==
  ASSUME NEW n \in Nat, NEW S \in SUBSET (1 .. n), NEW most \in Nat \ {0},
         \A i, j \in S : ~(i + most <= j)
  PROVE  Cardinality(S) <= most
<1>1. IsFiniteSet(S)
  <2>1. IsFiniteSet(1 .. n)
    BY FS_Interval
  <2> QED BY <2>1, FS_Subset
<1>2. CASE S = {}
  BY <1>2, FS_EmptySet
<1>3. CASE S # {}
  <2>1. PICK l \in S : \A i \in S : l <= i
    <3>1. IsWellFoundedOn({p \in Nat \X Nat : p[1] < p[2]}, Nat)
      BY NatLessThanWellFounded DEF OpToRel
    <3>2. \E l \in S : \A i \in S : <<i, l>> \notin {p \in Nat \X Nat : p[1] < p[2]}
      <4>1. S \subseteq Nat
        OBVIOUS
      <4>2. \A R : IsWellFoundedOn(R, Nat) => \E l \in S : \A i \in S : <<i, l>> \notin R
        BY <1>3, <4>1, WFMin
      <4> QED BY <3>1, <4>2
    <3>3. PICK l \in S : \A i \in S : <<i, l>> \notin {p \in Nat \X Nat : p[1] < p[2]}
      BY <3>2
    <3>4. ASSUME NEW i \in S PROVE l <= i
      <4>1. <<i, l>> \in Nat \X Nat /\ ~(i < l)
        BY <3>3
      <4> QED BY <4>1
    <3> QED BY <3>4
  <2>2. S \subseteq l .. l + most - 1
    BY <2>1
  <2>3. IsFiniteSet(l .. l + most - 1) /\ Cardinality(l .. l + most - 1) = most
    BY <2>1, FS_Interval
  <2>4. Cardinality(S) <= Cardinality(l .. l + most - 1)
    BY <2>2, <2>3, FS_Subset
  <2> QED BY <2>3, <2>4
<1> QED BY <1>2, <1>3

\* A peer that guesses gets a bounded number of answers within a block's or a window's
\* time, whatever it mixes in and however long it goes on (member_api.cpp:330,
\* admin_api.cpp:585).
THEOREM GuessesAlwaysBounded == ThrottleSpec => []GuessesBounded
<1>1. ASSUME TInv PROVE GuessesBounded
  <2>1. ThrottleTyped
    BY <1>1 DEF TInv
  <2>2. PICK n \in Nat : n = Len(failed) /\ DOMAIN failed = 1 .. n
    BY <2>1, ThrottleParts
  <2>3. \A i \in 1 .. n : failed[i] \in Nat
    BY <2>1, <2>2, ThrottleParts
  <2>4. ASSUME NEW from \in Int, NEW to \in Int, NEW most \in Nat \ {0}, NEW least \in Nat,
               Spaced(failed, most, least), to < from + least
        PROVE  Cardinality(FailedWithin(from, to)) <= most
    <3>1. FailedWithin(from, to) \in SUBSET (1 .. n)
      BY <2>2 DEF FailedWithin
    <3>2. ASSUME NEW i \in FailedWithin(from, to), NEW j \in FailedWithin(from, to)
          PROVE  ~(i + most <= j)
      <4>1. /\ i \in 1 .. n /\ j \in 1 .. n
            /\ failed[i] \in Nat /\ failed[i] >= from /\ failed[j] \in Nat /\ failed[j] <= to
        BY <2>2, <2>3 DEF FailedWithin
      <4>2. i + most <= j => failed[i] + least <= failed[j]
        BY <2>2, <2>4, <4>1 DEF Spaced
      <4> QED BY <2>4, <4>1, <4>2
    <3> QED BY <3>1, <3>2, CloseTogether
  <2>5. ASSUME NEW t \in 0 .. clock
        PROVE  IF api = "admin"
               THEN Cardinality(FailedWithin(t, t + kLoginBlockSeconds - 1)) <= kMaxLoginFailures
               ELSE Cardinality(FailedWithin(t, t + FailureWindowSeconds)) <= 2 * MaxFailuresPerPeer - 2
    <3>1. t \in Int /\ kMaxLoginFailures \in Nat \ {0} /\ 2 * MaxFailuresPerPeer - 2 \in Nat \ {0}
      BY Limits
    <3>2. CASE api = "admin"
      <4>1. Spaced(failed, kMaxLoginFailures, kLoginBlockSeconds)
        BY <1>1, <3>2 DEF TInv, AdminSpaced
      <4>2. t + kLoginBlockSeconds - 1 \in Int /\ t + kLoginBlockSeconds - 1 < t + kLoginBlockSeconds
        BY <3>1, Limits
      <4> QED BY <2>4, <3>1, <3>2, <4>1, <4>2, Limits
    <3>3. CASE api # "admin"
      <4>1. Spaced(failed, 2 * MaxFailuresPerPeer - 2, FailureWindowSeconds + 1)
        BY <1>1, <3>3 DEF TInv, MemberSpaced
      <4>2. /\ t + FailureWindowSeconds \in Int /\ FailureWindowSeconds + 1 \in Nat
            /\ t + FailureWindowSeconds < t + (FailureWindowSeconds + 1)
        BY <3>1, Limits
      <4> QED BY <2>4, <3>1, <3>3, <4>1, <4>2
    <3> QED BY <3>2, <3>3
  <2> QED BY <2>5 DEF GuessesBounded
<1> QED BY <1>1, ThrottleInvariant, PTL

\* The record of a peer and the clock have their types, whichever of the two APIs keeps it
\* (member_api.cpp:328, admin_api.cpp:585).
THEOREM ThrottleTypes == ThrottleSpec => []ThrottleTyped
<1>1. TInv => ThrottleTyped
  BY DEF TInv
<1> QED BY <1>1, ThrottleInvariant, PTL
=============================================================================
