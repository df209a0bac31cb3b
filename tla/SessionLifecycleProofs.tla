----------------------- MODULE SessionLifecycleProofs -----------------------
(***************************************************************************)
(* Theorems about SessionLifecycle, for every number of connections and    *)
(* accounts, every set of rules and every order in which the handlers of   *)
(* the connections, the admin API and the rules service interleave.        *)
(***************************************************************************)
EXTENDS SessionLifecycle, FiniteSetTheorems, TLAPS

-----------------------------------------------------------------------------
(* The inductive invariant *)

\* What the theorems assume of the clients, as an action: nobody sends Login
\* over a connection that has signed in before.  The code does not enforce it.
\* A second Login over one connection leaves what the session took for the
\* first account behind: registered is not reset, neither by Login nor by
\* Delete, and the cleanup knows one account only.
OneSignIn ==
  \A c \in Conns, a \in Accounts : CmdLogin(c, a) => conn[c].account = None

\* One connection: what it may hold before it has signed in, and what it must be
\* to stand where it stands.
ConnectionOK(s) ==
  /\ ~s.open => s = NoConnection
  /\ s.account = None =>
       /\ ~s.authenticated /\ ~s.registered /\ ~s.rejected
       /\ ~s.timer /\ ~s.recheck
       /\ s.step \in {"idle", "cooldownPassed", "free"}
  /\ s.account # None =>
       /\ ~s.authenticated => accounts[s.account] = None
       /\ s.step \notin {"cooldownPassed", "free"}
  /\ s.step \in {"counting", "gated", "leaving", "removing", "discounting"}
       => s.authenticated
  /\ s.step = "counting" => s.registered
  /\ s.step = "registering" => ~s.rejected

\* A step that will use an account has one.
Named(s) ==
  /\ s.authenticated \/ s.step = "gated" => s.account \in Accounts
  /\ s.step \in {"cooldownPassed", "free"} => s.login \in Accounts

\* An entry of the table of connected clients is that of a registered session
\* that has not yet removed it.
EntriesOK ==
  \A a \in Accounts : clients[a].conn # None =>
    LET c == clients[a].conn IN
    /\ SessionOf(c, a) /\ conn[c].registered
    /\ conn[c].step # "discounting"

\* A held login has a session that will register it or take it back.
HeldOK ==
  \A a \in pendingVersionLogins : accounts[a] # None =>
    \E c \in Conns : /\ SessionOf(c, a) /\ ~conn[c].registered
                     /\ conn[c].step # "discounting"

\* An administrator's change that has not reached the entry is in the database,
\* unless the account has gone.
AdminOK ==
  /\ admin.step # "idle" => admin.account \in Accounts
  /\ admin.step = "entry" => accounts[admin.account] \in {admin.access, None}

\* A slot has a session that has not yet given it back.
SlotsOK ==
  \A a \in slots : \E c \in Conns :
    SessionOf(c, a) /\ conn[c].step \notin {"removing", "discounting"}

\* The live count is that of the registered sessions that have been counted.
Counted == {c \in Conns : conn[c].registered /\ conn[c].step # "counting"}
CountOK == usageTotalOnline = Cardinality(Counted)

AllNamed == \A c \in Conns : Named(conn[c])
ConnectionsOK == \A c \in Conns : ConnectionOK(conn[c])

LInv ==
  /\ TypeOK /\ ConnectionsOK /\ EntriesOK /\ HeldOK
  /\ NoneDeleted => SlotsOK /\ CountOK

-----------------------------------------------------------------------------
(* Types *)

\* The records that stand for nothing have their types.
LEMMA EmptyRecords ==
  /\ NoConnection \in Connection /\ ~NoConnection.open
  /\ NoClient \in [conn : Conns \cup {None}, access : Access] /\ NoClient.conn = None
  /\ NoRequest \in [step : {"idle", "entry", "slot"},
                    account : Accounts \cup {None}, access : Access]
BY LifecycleConstants DEF NoConnection, Connection, Steps, NoClient, NoRequest, Access

\* What the database is read to say is an access.
LEMMA StoredAccessType ==
  ASSUME TypeOK, NEW a \in Accounts
  PROVE  StoredAccess(a) \in Access
BY DEF TypeOK, StoredAccess, Access

-----------------------------------------------------------------------------
(* What a handler's step does to its connection and to the shared tables *)

Late == {"counting", "removing", "discounting"}

\* The step from s to t concerns only the connection itself: whose session it
\* is stays as it is, and so does what it holds.
Moves(s, t) ==
  /\ UNCHANGED <<clients, pendingVersionLogins, slots, usageTotalOnline, accounts>>
  /\ t.account = s.account /\ (t.authenticated <=> s.authenticated)
  /\ (t.registered <=> s.registered) /\ (s.authenticated => (t.open <=> s.open))
  /\ s.step \notin Late /\ t.step \notin Late

\* A session that is nobody's is dropped.
Drops(s, t) ==
  /\ UNCHANGED <<clients, pendingVersionLogins, slots, usageTotalOnline, accounts>>
  /\ ~s.authenticated /\ t = NoConnection
  /\ s.registered => accounts[s.account] = None

\* The connection becomes a session of account a, held or to be registered.
Authenticates(c, s, t) ==
  /\ ~s.authenticated /\ ~s.registered /\ s.step = "free"
  /\ t.open /\ t.authenticated /\ ~t.registered /\ t.account \in Accounts
  /\ t.step \in {"idle", "registering"}
  /\ \/ pendingVersionLogins' = pendingVersionLogins
     \/ pendingVersionLogins' = pendingVersionLogins \cup {t.account}
  /\ UNCHANGED <<clients, slots, usageTotalOnline, accounts>>

\* The session gets its entry, with the access the database shows.
Registers(c, s, t) ==
  /\ s.step = "registering" /\ s.authenticated /\ ~s.registered /\ s.open
  /\ t.open /\ t.authenticated /\ t.registered /\ t.account = s.account
  /\ t.step = "counting" /\ t.account \in Accounts
  /\ pendingVersionLogins' = pendingVersionLogins \ {t.account}
  /\ clients' = [clients EXCEPT ![t.account] =
                   [conn |-> c, access |-> StoredAccess(t.account)]]
  /\ UNCHANGED <<slots, usageTotalOnline, accounts>>

\* The registered session is counted.
CountsIn(s, t) ==
  /\ s.step = "counting" /\ s.registered /\ t.step = "idle"
  /\ (t.open <=> s.open) /\ (t.authenticated <=> s.authenticated)
  /\ (t.registered <=> s.registered) /\ t.account = s.account
  /\ usageTotalOnline' = usageTotalOnline + 1
  /\ UNCHANGED <<clients, pendingVersionLogins, slots, accounts>>

\* The session takes a slot, or gives it back while it goes on.
Slots(s, t) ==
  /\ s.open /\ s.authenticated /\ s.account \in Accounts
  /\ t.open /\ t.authenticated /\ t.account = s.account
  /\ (t.registered <=> s.registered)
  /\ s.step \notin Late /\ t.step = "idle"
  /\ slots' \in {slots \cup {s.account}, slots \ {s.account}}
  /\ UNCHANGED <<clients, pendingVersionLogins, usageTotalOnline, accounts>>

\* The account is deleted by its own session.
DeletesAccount(s, t) ==
  /\ s.account \in Accounts /\ s.authenticated /\ s.step = "idle"
  /\ ~t.authenticated /\ (t.registered <=> s.registered) /\ t.step = "idle"
  /\ accounts' = [accounts EXCEPT ![s.account] = None]
  /\ clients' = [clients EXCEPT ![s.account] = NoClient]
  /\ UNCHANGED <<pendingVersionLogins, slots, usageTotalOnline>>

\* The three steps of the cleanup: slot, entry or held login, count.
GivesSlotBack(s, t) ==
  /\ s.step = "leaving" /\ t.step = "removing" /\ s.open /\ s.authenticated
  /\ t.open /\ t.authenticated /\ t.account = s.account
  /\ (t.registered <=> s.registered)
  /\ slots' = slots \ {s.account}
  /\ UNCHANGED <<clients, pendingVersionLogins, usageTotalOnline, accounts>>

TakesEntryOut(s, t) ==
  /\ s.step = "removing" /\ t.step = "discounting" /\ s.open /\ s.authenticated
  /\ t.open /\ t.authenticated /\ t.account = s.account
  /\ (t.registered <=> s.registered) /\ s.account \in Accounts
  /\ IF s.registered
     THEN /\ clients' = [clients EXCEPT ![s.account] = NoClient]
          /\ UNCHANGED pendingVersionLogins
     ELSE /\ pendingVersionLogins' = pendingVersionLogins \ {s.account}
          /\ UNCHANGED clients
  /\ UNCHANGED <<slots, usageTotalOnline, accounts>>

Ends(s, t) ==
  /\ s.step = "discounting" /\ t = NoConnection
  /\ usageTotalOnline' = IF s.registered /\ usageTotalOnline > 0
                         THEN usageTotalOnline - 1 ELSE usageTotalOnline
  /\ UNCHANGED <<clients, pendingVersionLogins, slots, accounts>>

Does(c, s, t) ==
  \/ Moves(s, t) \/ Drops(s, t) \/ Authenticates(c, s, t) \/ Registers(c, s, t)
  \/ CountsIn(s, t) \/ Slots(s, t) \/ DeletesAccount(s, t)
  \/ GivesSlotBack(s, t) \/ TakesEntryOut(s, t) \/ Ends(s, t)

\* What a rejected session may still become.
Verdict(s, t) ==
  s.rejected /\ t.open => t.rejected /\ (t.registered => s.registered)

\* A step of a connection keeps the types; and if clients keep to one account
\* and the connection was sound, it is sound afterwards and has done one of
\* the things above.
LEMMA ConnSteps ==
  ASSUME TypeOK, NEW c \in Conns, Named(conn[c]), ConnNext(c)
  PROVE  /\ TypeOK'
         /\ \E t \in Connection :
              /\ conn' = [conn EXCEPT ![c] = t] /\ Named(t)
              /\ UNCHANGED <<rules, admin, apply>>
              /\ OneSignIn /\ ConnectionOK(conn[c]) =>
                   ConnectionOK(t)' /\ Does(c, conn[c], t) /\ Verdict(conn[c], t)
<1> DEFINE Lawful == OneSignIn /\ ConnectionOK(conn[c])
           Goal == /\ TypeOK'
                   /\ \E t \in Connection :
                        /\ conn' = [conn EXCEPT ![c] = t] /\ Named(t)
                        /\ UNCHANGED <<rules, admin, apply>>
                        /\ Lawful => /\ ConnectionOK(t)'
                                     /\ Does(c, conn[c], t)
                                     /\ Verdict(conn[c], t)
<1>1. /\ conn \in [Conns -> Connection]
      /\ clients \in [Accounts -> [conn : Conns \cup {None}, access : Access]]
      /\ cooldown \in [Accounts -> Versions \cup {None}]
      /\ accounts \in [Accounts -> Access \cup {None}]
      /\ pendingVersionLogins \subseteq Accounts /\ slots \subseteq Accounts
      /\ usageTotalOnline \in Nat
  BY DEF TypeOK
<1>2. PICK s \in Connection : s = conn[c] /\ Named(s)
  BY <1>1
<1>3. /\ None \notin Accounts
      /\ None \notin Conns /\ None \notin Access
  BY LifecycleConstants
<1>4. Lawful => OneSignIn /\ ConnectionOK(s)
  BY <1>2
<1>5. ASSUME NEW t \in Connection, conn' = [conn EXCEPT ![c] = t], Named(t),
             clients' \in [Accounts -> [conn : Conns \cup {None}, access : Access]],
             cooldown' \in [Accounts -> Versions \cup {None}],
             accounts' \in [Accounts -> Access \cup {None}],
             pendingVersionLogins' \subseteq Accounts, slots' \subseteq Accounts,
             usageTotalOnline' \in Nat, UNCHANGED <<rules, admin, apply>>,
             Lawful => ConnectionOK(t)' /\ Does(c, s, t) /\ Verdict(s, t)
      PROVE  Goal
  BY <1>2, <1>5 DEF TypeOK
<1>6. ASSUME NEW t \in Connection, conn' = [conn EXCEPT ![c] = t], Named(t),
             UNCHANGED <<tables, others>>,
             Lawful => ConnectionOK(t)' /\ (Moves(s, t) \/ Drops(s, t)) /\ Verdict(s, t)
      PROVE  Goal
  BY <1>1, <1>5, <1>6 DEF tables, others, Does
<1> SUFFICES Goal
  OBVIOUS
<1> HIDE DEF Goal, Lawful
<1>7. CASE Connect(c)
  <2>1. PICK t \in Connection : t = [s EXCEPT !.open = TRUE]
    BY DEF Connection
  <2>2. conn' = [conn EXCEPT ![c] = t] /\ ~s.open /\ UNCHANGED <<tables, others>>
    BY <1>2, <1>7, <2>1 DEF Connect
  <2>3. Lawful => ConnectionOK(t)' /\ (Moves(s, t) \/ Drops(s, t)) /\ Verdict(s, t)
    <3> SUFFICES ASSUME Lawful
                 PROVE  ConnectionOK(t)' /\ Moves(s, t) /\ Verdict(s, t)
      OBVIOUS
    <3>1. s = NoConnection
      BY <1>4, <2>2 DEF ConnectionOK
    <3>2. t.open /\ t.step = "idle" /\ t.account = None /\ ~t.authenticated
          /\ ~t.registered /\ ~t.rejected /\ ~t.timer /\ ~t.recheck
      BY <2>1, <3>1 DEF NoConnection, Connection
    <3>3. ConnectionOK(t)'
      BY <3>2 DEF ConnectionOK
    <3>4. UNCHANGED <<clients, pendingVersionLogins, slots, usageTotalOnline, accounts>>
      BY <2>2 DEF tables, others
    <3>5. s.account = None /\ ~s.authenticated /\ ~s.registered /\ ~s.rejected
          /\ s.step = "idle"
      BY <3>1 DEF NoConnection
    <3> QED BY <3>2, <3>3, <3>4, <3>5 DEF Moves, Verdict, Late
  <2>4. Named(t)
    BY <1>2, <2>1 DEF Named, Connection
  <2> QED BY <1>6, <2>2, <2>3, <2>4
<1>8. ASSUME NEW a \in Accounts, CmdLogin(c, a)
      PROVE  Goal
  <2>1. PICK t \in Connection : t = [s EXCEPT !.step = "cooldownPassed", !.login = a]
    BY DEF Connection, Steps
  <2>2. /\ conn' = [conn EXCEPT ![c] = t] /\ UNCHANGED <<tables, others>>
        /\ s.open /\ s.step = "idle"
    BY <1>1, <1>2, <1>8, <2>1 DEF CmdLogin, Idle
  <2>3. Lawful => ConnectionOK(t)' /\ (Moves(s, t) \/ Drops(s, t)) /\ Verdict(s, t)
    <3> SUFFICES ASSUME Lawful
                 PROVE  ConnectionOK(t)' /\ Moves(s, t) /\ Verdict(s, t)
      OBVIOUS
    <3>1. s.account = None
      BY <1>2, <1>4, <1>8 DEF OneSignIn
    <3>2. /\ t.open /\ t.step = "cooldownPassed" /\ t.account = None /\ ~t.authenticated
          /\ ~t.registered /\ ~t.rejected /\ ~t.timer /\ ~t.recheck /\ t.login = a
          /\ ~s.authenticated /\ ~s.registered
      BY <1>4, <2>1, <2>2, <3>1 DEF ConnectionOK, Connection
    <3>3. ConnectionOK(t)'
      BY <2>2, <3>2 DEF ConnectionOK
    <3>4. UNCHANGED <<clients, pendingVersionLogins, slots, usageTotalOnline, accounts>>
      BY <2>2 DEF tables, others
    <3>5. ~s.rejected
      BY <1>4, <3>1 DEF ConnectionOK
    <3> QED BY <2>2, <3>1, <3>2, <3>3, <3>4, <3>5 DEF Moves, Verdict, Late
  <2>4. Named(t)
    BY <1>2, <1>3, <2>1, <2>2 DEF Named, Connection
  <2> QED BY <1>6, <2>2, <2>3, <2>4
<1>9. CASE LoginCheckFree(c)
  <2>1. PICK t \in Connection :
          t = IF s.login \in Connected \cup pendingVersionLogins
              THEN [s EXCEPT !.step = "idle", !.login = None]
              ELSE [s EXCEPT !.step = "free"]
    BY DEF Connection, Steps
  <2>2. /\ conn' = [conn EXCEPT ![c] = t] /\ UNCHANGED <<tables, others>>
        /\ s.open /\ s.step = "cooldownPassed"
    BY <1>1, <1>2, <1>9, <2>1 DEF LoginCheckFree, At
  <2>3. /\ t.open /\ t.account = s.account /\ (t.authenticated <=> s.authenticated)
        /\ (t.registered <=> s.registered) /\ (t.rejected <=> s.rejected)
        /\ (t.timer <=> s.timer) /\ (t.recheck <=> s.recheck)
        /\ t.step \in {"idle", "free"} /\ (t.step = "free" => t.login = s.login)
    BY <2>1, <2>2 DEF Connection
  <2>4. Lawful => ConnectionOK(t)' /\ (Moves(s, t) \/ Drops(s, t)) /\ Verdict(s, t)
    BY <1>4, <2>2, <2>3 DEF ConnectionOK, Moves, Verdict, Late, tables, others
  <2>5. Named(t)
    BY <1>2, <2>2, <2>3 DEF Named
  <2> QED BY <1>6, <2>2, <2>4, <2>5
<1>10. ASSUME NEW v \in Versions, CmdSetClientVersion(c, v)
       PROVE  Goal
  <2>1. PICK t \in Connection :
          t = [s EXCEPT !.version = v, !.reported = TRUE, !.step = "checking"]
    BY DEF Connection, Steps
  <2>2. /\ conn' = [conn EXCEPT ![c] = t] /\ UNCHANGED <<tables, others>>
        /\ s.open /\ s.step = "idle" /\ s.authenticated
    BY <1>1, <1>2, <1>10, <2>1 DEF CmdSetClientVersion, Commands, Idle
  <2>3. /\ t.open /\ t.account = s.account /\ (t.authenticated <=> s.authenticated)
        /\ (t.registered <=> s.registered) /\ (t.rejected <=> s.rejected)
        /\ (t.timer <=> s.timer) /\ (t.recheck <=> s.recheck)
        /\ t.step = "checking"
    BY <2>1, <2>2 DEF Connection
  <2>4. Lawful => ConnectionOK(t)' /\ (Moves(s, t) \/ Drops(s, t)) /\ Verdict(s, t)
    BY <1>4, <2>2, <2>3 DEF ConnectionOK, Moves, Verdict, Late, tables, others
  <2>5. Named(t)
    BY <1>2, <2>2, <2>3 DEF Named
  <2> QED BY <1>6, <2>2, <2>4, <2>5
<1>11. CASE VersionTimeout(c)
  <2>1. PICK t \in Connection :
          t = [s EXCEPT !.timer = FALSE,
                        !.step = IF s.reported THEN "idle" ELSE "checking"]
    BY DEF Connection, Steps
  <2>2. /\ conn' = [conn EXCEPT ![c] = t] /\ UNCHANGED <<tables, others>>
        /\ s.open /\ s.step = "idle" /\ s.timer
    BY <1>1, <1>2, <1>11, <2>1 DEF VersionTimeout, Idle
  <2>3. /\ t.open /\ t.account = s.account /\ (t.authenticated <=> s.authenticated)
        /\ (t.registered <=> s.registered) /\ (t.rejected <=> s.rejected)
        /\ t.step \in {"idle", "checking"}
    BY <2>1, <2>2 DEF Connection
  <2>4. Lawful => ConnectionOK(t)' /\ (Moves(s, t) \/ Drops(s, t)) /\ Verdict(s, t)
    BY <1>4, <2>2, <2>3 DEF ConnectionOK, Moves, Verdict, Late, tables, others
  <2>5. Named(t)
    BY <1>2, <2>2, <2>3 DEF Named
  <2> QED BY <1>6, <2>2, <2>4, <2>5
<1>12. CASE RecheckVersion(c)
  <2>1. PICK t \in Connection : t = [s EXCEPT !.recheck = FALSE, !.step = "checking"]
    BY DEF Connection, Steps
  <2>2. /\ conn' = [conn EXCEPT ![c] = t] /\ UNCHANGED <<tables, others>>
        /\ s.open /\ s.step = "idle" /\ s.recheck
    BY <1>1, <1>2, <1>12, <2>1 DEF RecheckVersion, Idle
  <2>3. /\ t.open /\ t.account = s.account /\ (t.authenticated <=> s.authenticated)
        /\ (t.registered <=> s.registered) /\ (t.rejected <=> s.rejected)
        /\ t.step = "checking"
    BY <2>1, <2>2 DEF Connection
  <2>4. Lawful => ConnectionOK(t)' /\ (Moves(s, t) \/ Drops(s, t)) /\ Verdict(s, t)
    BY <1>4, <2>2, <2>3 DEF ConnectionOK, Moves, Verdict, Late, tables, others
  <2>5. Named(t)
    BY <1>2, <2>2, <2>3 DEF Named
  <2> QED BY <1>6, <2>2, <2>4, <2>5
<1>13. CASE CheckClientVersion(c)
  <2> DEFINE ok == s.account \in StatAgents \/ s.version \in rules
             out == s.rejected \/ ~ok
             next == IF s.rejected THEN "idle"
                     ELSE IF ok THEN "registering" ELSE "cooling"
  <2>0. out \in BOOLEAN /\ next \in Steps
    BY DEF Steps
  <2> HIDE DEF out, next
  <2>1. PICK t \in Connection : t = [s EXCEPT !.step = next, !.rejected = out]
    BY <2>0 DEF Connection
  <2> USE DEF out, next
  <2>2. /\ conn' = [conn EXCEPT ![c] = t] /\ UNCHANGED <<tables, others>>
        /\ s.open /\ s.step = "checking"
    BY <1>1, <1>2, <1>13, <2>1 DEF CheckClientVersion, At
  <2>3. /\ t.open /\ t.account = s.account /\ (t.authenticated <=> s.authenticated)
        /\ (t.registered <=> s.registered) /\ (s.rejected => t.rejected)
        /\ t.step \in {"idle", "registering", "cooling"}
        /\ t.step = "registering" => ~t.rejected
    BY <2>1, <2>2 DEF Connection
  <2>4. Lawful => ConnectionOK(t)' /\ (Moves(s, t) \/ Drops(s, t)) /\ Verdict(s, t)
    BY <1>4, <2>2, <2>3 DEF ConnectionOK, Moves, Verdict, Late, tables, others
  <2>5. Named(t)
    BY <1>2, <2>2, <2>3 DEF Named
  <2> QED BY <1>6, <2>2, <2>4, <2>5
<1>14. CASE CheckMatching2Access(c)
  <2>1. clients[s.account].access \in Access
    BY <1>1, <1>2, <1>14 DEF CheckMatching2Access, Commands, Named
  <2>2. PICK t \in Connection :
          t = [s EXCEPT !.step = "gated", !.gate = clients[s.account].access]
    BY <2>1 DEF Connection, Steps
  <2>3. /\ conn' = [conn EXCEPT ![c] = t] /\ UNCHANGED <<tables, others>>
        /\ s.open /\ s.step = "idle" /\ s.authenticated
    BY <1>1, <1>2, <1>14, <2>2 DEF CheckMatching2Access, Commands, Idle
  <2>4. /\ t.open /\ t.account = s.account /\ (t.authenticated <=> s.authenticated)
        /\ (t.registered <=> s.registered) /\ (t.rejected <=> s.rejected)
        /\ (t.timer <=> s.timer) /\ (t.recheck <=> s.recheck)
        /\ t.step = "gated"
    BY <2>2, <2>3 DEF Connection
  <2>5. Lawful => ConnectionOK(t)' /\ (Moves(s, t) \/ Drops(s, t)) /\ Verdict(s, t)
    BY <1>4, <2>3, <2>4 DEF ConnectionOK, Moves, Verdict, Late, tables, others
  <2>6. Named(t)
    BY <1>2, <2>3, <2>4 DEF Named
  <2> QED BY <1>6, <2>3, <2>5, <2>6
<1>15. CASE OnDisconnected(c)
  <2>1. PICK t \in Connection :
          t = IF s.authenticated THEN [s EXCEPT !.step = "leaving"] ELSE NoConnection
    BY EmptyRecords DEF Connection, Steps
  <2>2. /\ conn' = [conn EXCEPT ![c] = t] /\ UNCHANGED <<tables, others>>
        /\ s.open /\ s.step = "idle"
    BY <1>1, <1>2, <1>15, <2>1 DEF OnDisconnected, Idle
  <2>3. CASE s.authenticated
    <3>1. /\ t.open /\ t.account = s.account /\ t.authenticated
          /\ (t.registered <=> s.registered) /\ (t.rejected <=> s.rejected)
          /\ (t.timer <=> s.timer) /\ (t.recheck <=> s.recheck)
          /\ t.step = "leaving"
      BY <2>1, <2>2, <2>3 DEF Connection
    <3>2. Lawful => ConnectionOK(t)' /\ (Moves(s, t) \/ Drops(s, t)) /\ Verdict(s, t)
      BY <1>4, <2>2, <2>3, <3>1 DEF ConnectionOK, Moves, Verdict, Late, tables, others
    <3>3. Named(t)
      BY <1>2, <2>3, <3>1 DEF Named
    <3> QED BY <1>6, <2>2, <3>2, <3>3
  <2>4. CASE ~s.authenticated
    <3>1. t = NoConnection
      BY <2>1, <2>4
    <3>2. ConnectionOK(t)' /\ Named(t)
      BY <3>1 DEF ConnectionOK, Named, NoConnection
    <3>3. Lawful => Drops(s, t) /\ Verdict(s, t)
      <4> SUFFICES ASSUME Lawful
                   PROVE  Drops(s, t) /\ Verdict(s, t)
        OBVIOUS
      <4>1. s.registered => accounts[s.account] = None
        BY <1>4, <2>4 DEF ConnectionOK
      <4> QED BY <2>2, <2>4, <3>1, <4>1, EmptyRecords DEF Drops, Verdict, tables, others
    <3> QED BY <1>6, <2>2, <3>2, <3>3
  <2> QED BY <2>3, <2>4
<1>16. CASE LoginAuthenticate(c)
  <2> DEFINE a == s.login
             held == HoldLogins /\ a \notin StatAgents
  <2>1. a \in Accounts /\ StoredAccess(a) \in Access
    BY <1>2, <1>16, StoredAccessType DEF LoginAuthenticate, At, Named
  <2>2. PICK timer \in BOOLEAN : timer <=> s.timer \/ held
    OBVIOUS
  <2>3. PICK t \in Connection :
          t = [s EXCEPT !.account = a, !.login = None, !.authenticated = TRUE,
                        !.pending = StoredAccess(a), !.timer = timer,
                        !.step = IF held THEN "idle" ELSE "registering"]
    BY <2>1 DEF Connection, Steps
  <2>4. /\ conn' = [conn EXCEPT ![c] = t] /\ s.open /\ s.step = "free"
        /\ \/ pendingVersionLogins' = pendingVersionLogins
           \/ pendingVersionLogins' = pendingVersionLogins \cup {a}
        /\ UNCHANGED <<clients, cooldown, slots, usageTotalOnline>>
        /\ UNCHANGED <<accounts, rules, admin, apply>>
    <3>1. timer = (s.timer \/ held)
      BY <2>2 DEF Connection
    <3> QED BY <1>1, <1>2, <1>16, <2>2, <2>3, <3>1 DEF LoginAuthenticate, At, others
  <2>5. /\ t.open /\ t.account = a /\ t.authenticated
        /\ (t.registered <=> s.registered) /\ (t.rejected <=> s.rejected)
        /\ t.step \in {"idle", "registering"}
    BY <2>3, <2>4 DEF Connection
  <2>6. Lawful => ConnectionOK(t)' /\ Does(c, s, t) /\ Verdict(s, t)
    <3> SUFFICES ASSUME Lawful
                 PROVE  ConnectionOK(t)' /\ Authenticates(c, s, t) /\ Verdict(s, t)
      BY DEF Does
    <3>1. /\ ~s.authenticated /\ ~s.registered /\ ~s.rejected
          /\ a # None
      BY <1>3, <1>4, <2>1, <2>4 DEF ConnectionOK
    <3> QED BY <2>1, <2>4, <2>5, <3>1 DEF ConnectionOK, Authenticates, Verdict
  <2>7. Named(t)
    BY <2>1, <2>5 DEF Named
  <2> QED BY <1>1, <1>5, <2>1, <2>4, <2>6, <2>7
<1>17. CASE RegisterOnline(c)
  <2>1. s.open /\ s.step = "registering" /\ UNCHANGED <<accounts, rules, admin, apply>>
    BY <1>2, <1>17 DEF RegisterOnline, At, others
  <2>2. CASE s.registered \/ s.pending = None \/ ~s.authenticated
    <3>1. PICK t \in Connection : t = [s EXCEPT !.step = "idle"]
      BY DEF Connection, Steps
    <3>2. conn' = [conn EXCEPT ![c] = t] /\ UNCHANGED <<tables, others>>
      BY <1>1, <1>2, <1>17, <2>2, <3>1 DEF RegisterOnline
    <3>3. /\ t.open /\ t.account = s.account /\ (t.authenticated <=> s.authenticated)
          /\ (t.registered <=> s.registered) /\ (t.rejected <=> s.rejected)
          /\ (t.timer <=> s.timer) /\ (t.recheck <=> s.recheck)
          /\ t.step = "idle"
      BY <2>1, <3>1 DEF Connection
    <3>4. Lawful => ConnectionOK(t)' /\ (Moves(s, t) \/ Drops(s, t)) /\ Verdict(s, t)
      BY <1>4, <2>1, <3>2, <3>3 DEF ConnectionOK, Moves, Verdict, Late, tables, others
    <3>5. Named(t)
      BY <1>2, <3>3 DEF Named
    <3> QED BY <1>6, <3>2, <3>4, <3>5
  <2>3. CASE ~(s.registered \/ s.pending = None \/ ~s.authenticated)
    <3> DEFINE a == s.account
    <3>1. a \in Accounts /\ StoredAccess(a) \in Access
      BY <1>2, <2>3, StoredAccessType DEF Named
    <3>2. PICK t \in Connection :
            t = [s EXCEPT !.step = "counting", !.registered = TRUE, !.pending = None]
      BY DEF Connection, Steps
    <3>3. /\ conn' = [conn EXCEPT ![c] = t]
          /\ pendingVersionLogins' = pendingVersionLogins \ {a}
          /\ clients' = [clients EXCEPT ![a] = [conn |-> c, access |-> StoredAccess(a)]]
          /\ UNCHANGED <<cooldown, slots, usageTotalOnline>>
      BY <1>1, <1>2, <1>17, <2>3, <3>2 DEF RegisterOnline
    <3>4. /\ t.open /\ t.account = a /\ t.authenticated /\ t.registered
          /\ (t.rejected <=> s.rejected) /\ t.step = "counting"
      BY <2>1, <2>3, <3>2 DEF Connection
    <3>5. Lawful => ConnectionOK(t)' /\ Does(c, s, t) /\ Verdict(s, t)
      <4> SUFFICES ASSUME Lawful
                   PROVE  ConnectionOK(t)' /\ Registers(c, s, t) /\ Verdict(s, t)
        BY DEF Does
      <4>1. ~s.rejected /\ a # None
        BY <1>3, <1>4, <2>1, <3>1 DEF ConnectionOK
      <4>2. ConnectionOK(t)' /\ Verdict(s, t)
        BY <3>4, <4>1 DEF ConnectionOK, Verdict
      <4>3. Registers(c, s, t)
        BY <2>1, <2>3, <3>1, <3>3, <3>4 DEF Registers
      <4> QED BY <4>2, <4>3
    <3>6. Named(t)
      BY <3>1, <3>4 DEF Named
    <3>7. [conn |-> c, access |-> StoredAccess(a)]
            \in [conn : Conns \cup {None}, access : Access]
      BY <3>1
    <3>8. clients' \in [Accounts -> [conn : Conns \cup {None}, access : Access]]
      BY <1>1, <3>3, <3>7
    <3> QED BY <1>1, <1>5, <2>1, <3>3, <3>5, <3>6, <3>8
  <2> QED BY <2>2, <2>3
<1>18. CASE UsageOnLogin(c)
  <2>1. PICK t \in Connection : t = [s EXCEPT !.step = "idle"]
    BY DEF Connection, Steps
  <2>2. /\ conn' = [conn EXCEPT ![c] = t] /\ s.open /\ s.step = "counting"
        /\ usageTotalOnline' = usageTotalOnline + 1
        /\ UNCHANGED <<clients, pendingVersionLogins, cooldown, slots>>
        /\ UNCHANGED <<accounts, rules, admin, apply>>
    BY <1>1, <1>2, <1>18, <2>1 DEF UsageOnLogin, At, others
  <2>3. /\ t.open /\ t.account = s.account /\ (t.authenticated <=> s.authenticated)
        /\ (t.registered <=> s.registered) /\ (t.rejected <=> s.rejected)
        /\ (t.timer <=> s.timer) /\ (t.recheck <=> s.recheck)
        /\ t.step = "idle"
    BY <2>1, <2>2 DEF Connection
  <2>4. Lawful => ConnectionOK(t)' /\ Does(c, s, t) /\ Verdict(s, t)
    <3> SUFFICES ASSUME Lawful
                 PROVE  ConnectionOK(t)' /\ CountsIn(s, t) /\ Verdict(s, t)
      BY DEF Does
    <3> QED BY <1>4, <2>2, <2>3 DEF ConnectionOK, CountsIn, Verdict
  <2>5. Named(t)
    BY <1>2, <2>3 DEF Named
  <2>6. usageTotalOnline' \in Nat
    BY <1>1, <2>2
  <2>7. /\ clients' \in [Accounts -> [conn : Conns \cup {None}, access : Access]]
        /\ cooldown' \in [Accounts -> Versions \cup {None}]
        /\ accounts' \in [Accounts -> Access \cup {None}]
        /\ pendingVersionLogins' \subseteq Accounts /\ slots' \subseteq Accounts
    BY <1>1, <2>2
  <2> QED BY <1>5, <2>2, <2>4, <2>5, <2>6, <2>7
<1>19. CASE RejectClient(c)
  <2>1. PICK t \in Connection : t = [s EXCEPT !.closing = TRUE, !.step = "idle"]
    BY DEF Connection, Steps
  <2>2. /\ conn' = [conn EXCEPT ![c] = t] /\ s.open /\ s.step = "cooling"
        /\ cooldown' \in [Accounts -> Versions \cup {None}]
        /\ UNCHANGED <<clients, pendingVersionLogins, slots, usageTotalOnline>>
        /\ UNCHANGED <<accounts, rules, admin, apply>>
    <3>1. s.version \in Versions
      BY DEF Connection
    <3> QED BY <1>1, <1>2, <1>19, <2>1, <3>1 DEF RejectClient, At, others
  <2>3. /\ t.open /\ t.account = s.account /\ (t.authenticated <=> s.authenticated)
        /\ (t.registered <=> s.registered) /\ (t.rejected <=> s.rejected)
        /\ (t.timer <=> s.timer) /\ (t.recheck <=> s.recheck)
        /\ t.step = "idle"
    BY <2>1, <2>2 DEF Connection
  <2>4. Lawful => ConnectionOK(t)' /\ Does(c, s, t) /\ Verdict(s, t)
    <3> SUFFICES ASSUME Lawful
                 PROVE  ConnectionOK(t)' /\ Moves(s, t) /\ Verdict(s, t)
      BY DEF Does
    <3> QED BY <1>4, <2>2, <2>3 DEF ConnectionOK, Moves, Late, Verdict
  <2>5. Named(t)
    BY <1>2, <2>3 DEF Named
  <2> QED BY <1>1, <1>5, <2>2, <2>4, <2>5
<1>20. ASSUME NEW start \in BOOLEAN, TryTakeMatching2Slot(c, start)
       PROVE  Goal
  <2>1. PICK init \in BOOLEAN :
          conn' = [conn EXCEPT ![c] = [s EXCEPT !.step = "idle", !.gate = "normal",
                                                !.initialized = init]]
    <3>1. (s.initialized \/ start) \in BOOLEAN /\ s.initialized \in BOOLEAN
      BY DEF Connection
    <3>2. CASE MayTakeSlot(c) /\ conn' = [conn EXCEPT ![c].step = "idle",
                 ![c].gate = "normal", ![c].initialized = @ \/ start]
      BY <1>1, <1>2, <3>1, <3>2
    <3>3. CASE conn' = [conn EXCEPT ![c].step = "idle", ![c].gate = "normal"]
      <4>1. [s EXCEPT !.step = "idle", !.gate = "normal"]
              = [s EXCEPT !.step = "idle", !.gate = "normal",
                          !.initialized = s.initialized]
        BY DEF Connection
      <4> QED BY <1>1, <1>2, <3>1, <3>3, <4>1
    <3> QED BY <1>20, <3>2, <3>3 DEF TryTakeMatching2Slot
  <2>2. PICK t \in Connection : t = [s EXCEPT !.step = "idle", !.gate = "normal",
                                              !.initialized = init]
    BY DEF Connection, Steps, Access
  <2>3. /\ conn' = [conn EXCEPT ![c] = t] /\ s.open /\ s.step = "gated"
        /\ slots' = slots \cup {s.account} \/ slots' = slots
        /\ UNCHANGED <<clients, pendingVersionLogins, cooldown, usageTotalOnline>>
        /\ UNCHANGED <<accounts, rules, admin, apply>>
    BY <1>2, <1>20, <2>1, <2>2 DEF TryTakeMatching2Slot, At, others
  <2>4. /\ t.open /\ t.account = s.account /\ (t.authenticated <=> s.authenticated)
        /\ (t.registered <=> s.registered) /\ (t.rejected <=> s.rejected)
        /\ (t.timer <=> s.timer) /\ (t.recheck <=> s.recheck)
        /\ t.step = "idle"
    BY <2>2, <2>3 DEF Connection
  <2>5. s.account \in Accounts
    BY <1>2, <2>3 DEF Named
  <2>6. Lawful => ConnectionOK(t)' /\ Does(c, s, t) /\ Verdict(s, t)
    <3> SUFFICES ASSUME Lawful
                 PROVE  /\ ConnectionOK(t)' /\ Verdict(s, t)
                        /\ Slots(s, t) \/ Moves(s, t)
      BY DEF Does
    <3>1. ConnectionOK(t)' /\ Verdict(s, t) /\ s.authenticated
      BY <1>4, <2>3, <2>4 DEF ConnectionOK, Verdict
    <3>2. CASE slots' = slots
      BY <2>3, <2>4, <3>1, <3>2 DEF Moves, Late
    <3>3. CASE slots' = slots \cup {s.account}
      BY <2>3, <2>4, <2>5, <3>1, <3>3 DEF Slots, Late
    <3> QED BY <2>3, <3>1, <3>2, <3>3
  <2>7. Named(t)
    BY <1>2, <2>4 DEF Named
  <2> QED BY <1>1, <1>5, <2>3, <2>5, <2>6, <2>7
<1>21. CASE CmdContextStop(c)
  <2>1. PICK t \in Connection : t = [s EXCEPT !.initialized = FALSE]
    BY DEF Connection
  <2>2. /\ conn' = [conn EXCEPT ![c] = t] /\ s.open /\ s.step = "idle"
        /\ s.authenticated /\ slots' = slots \ {s.account}
        /\ UNCHANGED <<clients, pendingVersionLogins, cooldown, usageTotalOnline>>
        /\ UNCHANGED <<accounts, rules, admin, apply>>
    BY <1>1, <1>2, <1>21, <2>1 DEF CmdContextStop, Commands, Idle, others
  <2>3. /\ t.open /\ t.account = s.account /\ (t.authenticated <=> s.authenticated)
        /\ (t.registered <=> s.registered) /\ (t.rejected <=> s.rejected)
        /\ (t.timer <=> s.timer) /\ (t.recheck <=> s.recheck)
        /\ t.step = "idle"
    BY <2>1, <2>2 DEF Connection
  <2>4. Lawful => ConnectionOK(t)' /\ Does(c, s, t) /\ Verdict(s, t)
    <3> SUFFICES ASSUME Lawful
                 PROVE  ConnectionOK(t)' /\ Slots(s, t) /\ Verdict(s, t)
      BY DEF Does
    <3>1. s.account \in Accounts
      BY <1>2, <2>2 DEF Named
    <3> QED BY <1>4, <2>2, <2>3, <3>1 DEF ConnectionOK, Slots, Late, Verdict
  <2>5. Named(t)
    BY <1>2, <2>3 DEF Named
  <2> QED BY <1>1, <1>5, <2>2, <2>4, <2>5
<1>22. CASE CmdDelete(c)
  <2>1. PICK t \in Connection : t = [s EXCEPT !.authenticated = FALSE, !.closing = TRUE]
    BY DEF Connection
  <2>2. /\ conn' = [conn EXCEPT ![c] = t] /\ s.open /\ s.step = "idle"
        /\ s.authenticated
        /\ accounts' = [accounts EXCEPT ![s.account] = None]
        /\ clients' = [clients EXCEPT ![s.account] = NoClient]
        /\ UNCHANGED <<pendingVersionLogins, cooldown, slots, usageTotalOnline>>
        /\ UNCHANGED <<rules, admin, apply>>
    BY <1>1, <1>2, <1>22, <2>1 DEF CmdDelete, Commands, Idle
  <2>3. /\ t.open /\ t.account = s.account /\ ~t.authenticated
        /\ (t.registered <=> s.registered) /\ (t.rejected <=> s.rejected)
        /\ t.step = "idle"
    BY <2>1, <2>2 DEF Connection
  <2>4. s.account \in Accounts
    BY <1>2, <2>2 DEF Named
  <2>5. Lawful => ConnectionOK(t)' /\ Does(c, s, t) /\ Verdict(s, t)
    <3> SUFFICES ASSUME Lawful
                 PROVE  ConnectionOK(t)' /\ DeletesAccount(s, t) /\ Verdict(s, t)
      BY DEF Does
    <3>1. accounts'[s.account] = None /\ s.account # None
      BY <1>1, <1>3, <2>2, <2>4
    <3> QED BY <1>4, <2>2, <2>3, <2>4, <3>1 DEF ConnectionOK, DeletesAccount, Verdict
  <2>6. Named(t)
    BY <2>3, <2>4 DEF Named
  <2>7. clients' \in [Accounts -> [conn : Conns \cup {None}, access : Access]]
    BY <1>1, <2>2, EmptyRecords
  <2>8. accounts' \in [Accounts -> Access \cup {None}]
    BY <1>1, <2>2
  <2> QED BY <1>1, <1>5, <2>2, <2>5, <2>6, <2>7, <2>8
<1>23. CASE CleanupSlot(c)
  <2>1. PICK t \in Connection : t = [s EXCEPT !.step = "removing"]
    BY DEF Connection, Steps
  <2>2. /\ conn' = [conn EXCEPT ![c] = t] /\ s.open /\ s.step = "leaving"
        /\ slots' = slots \ {s.account}
        /\ UNCHANGED <<clients, pendingVersionLogins, cooldown, usageTotalOnline>>
        /\ UNCHANGED <<accounts, rules, admin, apply>>
    BY <1>1, <1>2, <1>23, <2>1 DEF CleanupSlot, At, others
  <2>3. /\ t.open /\ t.account = s.account /\ (t.authenticated <=> s.authenticated)
        /\ (t.registered <=> s.registered) /\ (t.rejected <=> s.rejected)
        /\ (t.timer <=> s.timer) /\ (t.recheck <=> s.recheck)
        /\ t.step = "removing"
    BY <2>1, <2>2 DEF Connection
  <2>4. Lawful => ConnectionOK(t)' /\ Does(c, s, t) /\ Verdict(s, t)
    <3> SUFFICES ASSUME Lawful
                 PROVE  ConnectionOK(t)' /\ GivesSlotBack(s, t) /\ Verdict(s, t)
      BY DEF Does
    <3> QED BY <1>4, <2>2, <2>3 DEF ConnectionOK, GivesSlotBack, Verdict
  <2>5. Named(t)
    BY <1>2, <2>3 DEF Named
  <2> QED BY <1>1, <1>5, <2>2, <2>4, <2>5
<1>24. CASE CleanupEntry(c)
  <2>1. PICK t \in Connection : t = [s EXCEPT !.step = "discounting"]
    BY DEF Connection, Steps
  <2>2. /\ conn' = [conn EXCEPT ![c] = t] /\ s.open /\ s.step = "removing"
        /\ IF s.registered
           THEN /\ clients' = [clients EXCEPT ![s.account] = NoClient]
                /\ UNCHANGED pendingVersionLogins
           ELSE /\ pendingVersionLogins' = pendingVersionLogins \ {s.account}
                /\ UNCHANGED clients
        /\ UNCHANGED <<slots, cooldown, usageTotalOnline>>
        /\ UNCHANGED <<accounts, rules, admin, apply>>
    BY <1>1, <1>2, <1>24, <2>1 DEF CleanupEntry, At, others
  <2>3. /\ t.open /\ t.account = s.account /\ (t.authenticated <=> s.authenticated)
        /\ (t.registered <=> s.registered) /\ (t.rejected <=> s.rejected)
        /\ (t.timer <=> s.timer) /\ (t.recheck <=> s.recheck)
        /\ t.step = "discounting"
    BY <2>1, <2>2 DEF Connection
  <2>4. Lawful => ConnectionOK(t)' /\ Does(c, s, t) /\ Verdict(s, t)
    <3> SUFFICES ASSUME Lawful
                 PROVE  ConnectionOK(t)' /\ TakesEntryOut(s, t) /\ Verdict(s, t)
      BY DEF Does
    <3>1. ConnectionOK(t)' /\ s.authenticated /\ s.account \in Accounts
      BY <1>2, <1>4, <2>2, <2>3 DEF ConnectionOK, Named
    <3> QED BY <2>2, <2>3, <3>1 DEF TakesEntryOut, Verdict
  <2>5. Named(t)
    BY <1>2, <2>3 DEF Named
  <2>6. clients' \in [Accounts -> [conn : Conns \cup {None}, access : Access]]
    BY <1>1, <2>2, EmptyRecords
  <2> QED BY <1>1, <1>5, <2>2, <2>4, <2>5, <2>6
<1>25. CASE UsageOnLogout(c)
  <2>1. PICK t \in Connection : t = NoConnection
    BY EmptyRecords
  <2>2. /\ conn' = [conn EXCEPT ![c] = t] /\ s.open /\ s.step = "discounting"
        /\ usageTotalOnline' = IF s.registered /\ usageTotalOnline > 0
                               THEN usageTotalOnline - 1 ELSE usageTotalOnline
        /\ UNCHANGED <<clients, pendingVersionLogins, cooldown, slots>>
        /\ UNCHANGED <<accounts, rules, admin, apply>>
    BY <1>2, <1>25, <2>1 DEF UsageOnLogout, At, others
  <2>3. ConnectionOK(t)' /\ Named(t)
    BY <2>1 DEF ConnectionOK, Named, NoConnection
  <2>4. Does(c, s, t) /\ Verdict(s, t)
    BY <2>1, <2>2, EmptyRecords DEF Does, Ends, Verdict
  <2>5. usageTotalOnline' \in Nat
    BY <1>1, <2>2
  <2>6. /\ clients' \in [Accounts -> [conn : Conns \cup {None}, access : Access]]
        /\ cooldown' \in [Accounts -> Versions \cup {None}]
        /\ accounts' \in [Accounts -> Access \cup {None}]
        /\ pendingVersionLogins' \subseteq Accounts /\ slots' \subseteq Accounts
    BY <1>1, <2>2
  <2> QED BY <1>5, <2>2, <2>3, <2>4, <2>5, <2>6
<1> QED BY <1>7, <1>8, <1>9, <1>10, <1>11, <1>12, <1>13, <1>14, <1>15, <1>16, <1>17,
           <1>18, <1>19, <1>20, <1>21, <1>22, <1>23, <1>24, <1>25 DEF ConnNext, Continue

-----------------------------------------------------------------------------
(* What the steps of a connection keep *)

\* An entry of the table stays that of the registered session it names.
LEMMA EntriesKept ==
  ASSUME TypeOK, EntriesOK, NEW c \in Conns, NEW s \in Connection, NEW t \in Connection,
         s = conn[c], conn' = [conn EXCEPT ![c] = t], Does(c, s, t)
  PROVE  EntriesOK'
<1>1. /\ conn \in [Conns -> Connection]
      /\ clients \in [Accounts -> [conn : Conns \cup {None}, access : Access]]
      /\ None \notin Conns /\ NoClient.conn = None
  BY LifecycleConstants DEF TypeOK, NoClient
<1>2. \A a \in Accounts : clients[a].conn = c =>
        /\ s.open /\ s.authenticated /\ s.account = a /\ s.registered
        /\ s.step # "discounting"
  BY <1>1 DEF EntriesOK, SessionOf
<1>3. \A a \in Accounts : \A d \in Conns \ {c} : clients[a].conn = d =>
        /\ SessionOf(d, a)' /\ conn'[d].registered
        /\ conn'[d].step # "discounting"
  <2> SUFFICES ASSUME NEW a \in Accounts, NEW d \in Conns \ {c}, clients[a].conn = d
               PROVE  SessionOf(d, a)' /\ conn'[d].registered
                      /\ conn'[d].step # "discounting"
    OBVIOUS
  <2>1. conn'[d] = conn[d]
    BY <1>1
  <2>2. SessionOf(d, a) /\ conn[d].registered /\ conn[d].step # "discounting"
    BY <1>1 DEF EntriesOK
  <2> QED BY <2>1, <2>2 DEF SessionOf
<1>4. conn'[c] = t
  BY <1>1
<1>5. ASSUME \A a \in Accounts : clients'[a].conn # None =>
               \/ clients'[a].conn = clients[a].conn /\ clients[a].conn # c
               \/ /\ clients'[a].conn = c /\ t.open /\ t.authenticated
                  /\ t.account = a /\ t.registered /\ t.step # "discounting"
      PROVE  EntriesOK'
  <2> SUFFICES ASSUME NEW a \in Accounts, clients'[a].conn # None
               PROVE  /\ SessionOf(clients[a].conn, a)'
                      /\ conn'[clients'[a].conn].registered
                      /\ conn'[clients'[a].conn].step # "discounting"
    BY DEF EntriesOK
  <2>1. CASE clients'[a].conn = clients[a].conn /\ clients[a].conn # c
    <3>1. PICK d \in Conns \ {c} : clients'[a].conn = d /\ clients[a].conn = d
      BY <1>1, <2>1
    <3> QED BY <1>3, <3>1 DEF SessionOf
  <2>2. CASE clients'[a].conn = c /\ t.open /\ t.authenticated
             /\ t.account = a /\ t.registered /\ t.step # "discounting"
    BY <1>4, <2>2 DEF SessionOf
  <2> QED BY <1>5, <2>1, <2>2
<1>6. CASE Moves(s, t)
  BY <1>2, <1>5, <1>6 DEF Moves, Late
<1>7. CASE Drops(s, t)
  BY <1>2, <1>5, <1>7 DEF Drops
<1>8. CASE Authenticates(c, s, t)
  BY <1>2, <1>5, <1>8 DEF Authenticates
<1>9. CASE Registers(c, s, t)
  <2>1. \A a \in Accounts \ {t.account} : clients'[a] = clients[a]
    BY <1>1, <1>9 DEF Registers
  <2>2. clients'[t.account].conn = c
    BY <1>1, <1>9 DEF Registers
  <2> QED BY <1>2, <1>5, <1>9, <2>1, <2>2 DEF Registers
<1>10. CASE CountsIn(s, t)
  BY <1>2, <1>5, <1>10 DEF CountsIn
<1>11. CASE Slots(s, t)
  BY <1>2, <1>5, <1>11 DEF Slots
<1>12. CASE DeletesAccount(s, t)
  <2>1. /\ \A a \in Accounts \ {s.account} : clients'[a] = clients[a]
        /\ clients'[s.account].conn = None
    BY <1>1, <1>12 DEF DeletesAccount
  <2> QED BY <1>2, <1>5, <2>1
<1>13. CASE GivesSlotBack(s, t)
  BY <1>2, <1>5, <1>13 DEF GivesSlotBack
<1>14. CASE TakesEntryOut(s, t)
  <2>1. CASE s.registered
    <3>1. /\ \A a \in Accounts \ {s.account} : clients'[a] = clients[a]
          /\ clients'[s.account].conn = None
      BY <1>1, <1>14, <2>1 DEF TakesEntryOut
    <3> QED BY <1>2, <1>5, <3>1
  <2>2. CASE ~s.registered
    BY <1>2, <1>5, <1>14, <2>2 DEF TakesEntryOut
  <2> QED BY <2>1, <2>2
<1>15. CASE Ends(s, t)
  BY <1>2, <1>5, <1>15 DEF Ends
<1> QED BY <1>6, <1>7, <1>8, <1>9, <1>10, <1>11, <1>12, <1>13, <1>14, <1>15 DEF Does

\* A held login keeps a session that will register it or take it back.
LEMMA HeldKept ==
  ASSUME TypeOK, HeldOK, NEW c \in Conns, NEW s \in Connection, NEW t \in Connection,
         s = conn[c], conn' = [conn EXCEPT ![c] = t], Does(c, s, t)
  PROVE  HeldOK'
<1> DEFINE Resolves(u, a) == /\ u.open /\ u.authenticated /\ u.account = a
                             /\ ~u.registered /\ u.step # "discounting"
<1>1. /\ conn \in [Conns -> Connection] /\ accounts \in [Accounts -> Access \cup {None}]
      /\ pendingVersionLogins \subseteq Accounts /\ conn'[c] = t
  BY DEF TypeOK
<1>2. ASSUME NEW a \in pendingVersionLogins', accounts'[a] # None,
             \/ Resolves(t, a)
             \/ /\ a \in pendingVersionLogins /\ accounts[a] # None
                /\ Resolves(s, a) => Resolves(t, a)
      PROVE  \E d \in Conns : /\ SessionOf(d, a)' /\ ~conn'[d].registered
                              /\ conn'[d].step # "discounting"
  <2>1. CASE Resolves(t, a)
    BY <1>1, <2>1 DEF SessionOf
  <2>2. CASE a \in pendingVersionLogins /\ accounts[a] # None
             /\ (Resolves(s, a) => Resolves(t, a))
    <3>1. PICK d \in Conns : Resolves(conn[d], a)
      BY <2>2 DEF HeldOK, SessionOf
    <3>2. CASE d = c
      BY <2>1, <2>2, <3>1, <3>2
    <3>3. CASE d # c
      <4>1. conn'[d] = conn[d]
        BY <1>1, <3>3
      <4> QED BY <3>1, <4>1 DEF SessionOf
    <3> QED BY <3>2, <3>3
  <2> QED BY <1>2, <2>1, <2>2
<1> SUFFICES ASSUME NEW a \in pendingVersionLogins', accounts'[a] # None
             PROVE  \E d \in Conns : /\ SessionOf(d, a)' /\ ~conn'[d].registered
                                     /\ conn'[d].step # "discounting"
  BY DEF HeldOK
<1>3. CASE Moves(s, t)
  BY <1>2, <1>3 DEF Moves, Late
<1>4. CASE Drops(s, t)
  BY <1>2, <1>4 DEF Drops
<1>5. CASE Authenticates(c, s, t)
  BY <1>2, <1>5 DEF Authenticates
<1>6. CASE Registers(c, s, t)
  BY <1>2, <1>6 DEF Registers
<1>7. CASE CountsIn(s, t)
  BY <1>2, <1>7 DEF CountsIn
<1>8. CASE Slots(s, t)
  BY <1>2, <1>8 DEF Slots
<1>9. CASE DeletesAccount(s, t)
  <2>1. a \in pendingVersionLogins /\ s.account \in Accounts
    BY <1>9 DEF DeletesAccount
  <2>2. a # s.account /\ accounts[a] # None
    BY <1>1, <1>9, <2>1 DEF DeletesAccount
  <2> QED BY <1>2, <2>1, <2>2
<1>10. CASE GivesSlotBack(s, t)
  BY <1>2, <1>10 DEF GivesSlotBack
<1>11. CASE TakesEntryOut(s, t)
  <2>1. a \in pendingVersionLogins /\ accounts[a] # None
        /\ (~s.registered => a # s.account)
    BY <1>11 DEF TakesEntryOut
  <2> QED BY <1>2, <2>1
<1>12. CASE Ends(s, t)
  BY <1>2, <1>12 DEF Ends
<1> QED BY <1>3, <1>4, <1>5, <1>6, <1>7, <1>8, <1>9, <1>10, <1>11, <1>12 DEF Does

\* An entry changes only by going or by taking the access the database shows,
\* and an account's access changes only by going.
LEMMA EntryAccess ==
  ASSUME TypeOK, NEW c \in Conns, ConnNext(c)
  PROVE  /\ UNCHANGED admin
         /\ \A a \in Accounts :
              /\ accounts'[a] \in {accounts[a], None}
              /\ \/ clients'[a] = clients[a]
                 \/ clients'[a].conn = None
                 \/ clients'[a].access = StoredAccess(a)
<1>1. /\ clients \in [Accounts -> [conn : Conns \cup {None}, access : Access]]
      /\ accounts \in [Accounts -> Access \cup {None}]
      /\ NoClient.conn = None
  BY DEF TypeOK, NoClient
<1>2. CASE UNCHANGED <<clients, accounts, admin>>
  BY <1>2
<1>3. CASE RegisterOnline(c)
  BY <1>1, <1>3 DEF RegisterOnline, others, tables
<1>4. CASE CmdDelete(c)
  BY <1>1, <1>4 DEF CmdDelete
<1>5. CASE CleanupEntry(c)
  BY <1>1, <1>5 DEF CleanupEntry, others
<1> QED BY <1>2, <1>3, <1>4, <1>5
    DEF ConnNext, Continue, Connect, CmdLogin, CmdSetClientVersion, VersionTimeout,
        RecheckVersion, CheckMatching2Access, CmdContextStop, OnDisconnected,
        LoginCheckFree, LoginAuthenticate, UsageOnLogin, CheckClientVersion,
        RejectClient, TryTakeMatching2Slot, CleanupSlot, UsageOnLogout, tables, others

\* What the entry shows follows the database.
LEMMA AccessKept ==
  ASSUME TypeOK, AccessCurrent, AdminOK, NEW c \in Conns, ConnNext(c)
  PROVE  AccessCurrent' /\ AdminOK'
<1>1. AdminOK'
  BY EntryAccess DEF AdminOK
<1>2. ASSUME NEW a \in Accounts, clients'[a].conn # None, accounts'[a] # None,
             ~(admin'.step = "entry" /\ admin'.account = a)
      PROVE  clients'[a].access = StoredAccess(a)'
  <2>1. accounts'[a] = accounts[a] /\ StoredAccess(a)' = StoredAccess(a)
    BY <1>2, EntryAccess DEF StoredAccess
  <2>2. CASE clients'[a] = clients[a]
    BY <1>2, <2>1, <2>2, EntryAccess DEF AccessCurrent, Connected
  <2> QED BY <1>2, <2>1, <2>2, EntryAccess
<1> QED BY <1>1, <1>2 DEF AccessCurrent, Connected

\* A slot keeps a session that has not given it back, unless an account is
\* deleted.
LEMMA SlotsKept ==
  ASSUME TypeOK, SlotsOK, NEW c \in Conns, NEW s \in Connection, NEW t \in Connection,
         s = conn[c], conn' = [conn EXCEPT ![c] = t], Does(c, s, t),
         ~DeletesAccount(s, t)
  PROVE  SlotsOK'
<1> DEFINE Holds(u, a) == /\ u.open /\ u.authenticated /\ u.account = a
                          /\ u.step \notin {"removing", "discounting"}
<1>1. conn \in [Conns -> Connection] /\ conn'[c] = t
  BY DEF TypeOK
<1>2. ASSUME NEW a \in slots',
             Holds(t, a) \/ (a \in slots /\ (Holds(s, a) => Holds(t, a)))
      PROVE  \E d \in Conns : /\ SessionOf(d, a)'
                              /\ conn'[d].step \notin {"removing", "discounting"}
  <2>1. CASE Holds(t, a)
    BY <1>1, <2>1 DEF SessionOf
  <2>2. CASE a \in slots /\ (Holds(s, a) => Holds(t, a))
    <3>1. PICK d \in Conns : Holds(conn[d], a)
      BY <2>2 DEF SlotsOK, SessionOf
    <3>2. CASE d = c
      BY <2>1, <2>2, <3>1, <3>2
    <3>3. CASE d # c
      <4>1. conn'[d] = conn[d]
        BY <1>1, <3>3
      <4> QED BY <3>1, <4>1 DEF SessionOf
    <3> QED BY <3>2, <3>3
  <2> QED BY <1>2, <2>1, <2>2
<1> SUFFICES ASSUME NEW a \in slots'
             PROVE  \E d \in Conns : /\ SessionOf(d, a)'
                                     /\ conn'[d].step \notin {"removing", "discounting"}
  BY DEF SlotsOK
<1>3. CASE Moves(s, t)
  BY <1>2, <1>3 DEF Moves, Late
<1>4. CASE Drops(s, t)
  BY <1>2, <1>4 DEF Drops
<1>5. CASE Authenticates(c, s, t)
  BY <1>2, <1>5 DEF Authenticates
<1>6. CASE Registers(c, s, t)
  BY <1>2, <1>6 DEF Registers
<1>7. CASE CountsIn(s, t)
  BY <1>2, <1>7 DEF CountsIn
<1>8. CASE Slots(s, t)
  BY <1>2, <1>8 DEF Slots
<1>9. CASE GivesSlotBack(s, t)
  BY <1>2, <1>9 DEF GivesSlotBack
<1>10. CASE TakesEntryOut(s, t)
  BY <1>2, <1>10 DEF TakesEntryOut
<1>11. CASE Ends(s, t)
  BY <1>2, <1>11 DEF Ends
<1> QED BY <1>3, <1>4, <1>5, <1>6, <1>7, <1>8, <1>9, <1>10, <1>11 DEF Does

\* The live count follows the registered sessions, as long as no account has
\* been deleted.
LEMMA CountKept ==
  ASSUME TypeOK, CountOK, NoneDeleted, NEW c \in Conns,
         NEW s \in Connection, NEW t \in Connection, ConnectionOK(s),
         s = conn[c], conn' = [conn EXCEPT ![c] = t], Does(c, s, t),
         ~DeletesAccount(s, t)
  PROVE  CountOK'
<1> DEFINE In(u) == u.registered /\ u.step # "counting"
<1>1. conn \in [Conns -> Connection] /\ conn'[c] = t
      /\ \A d \in Conns \ {c} : conn'[d] = conn[d]
  BY DEF TypeOK
<1>2. IsFiniteSet(Counted) /\ Cardinality(Counted) \in Nat
      /\ usageTotalOnline = Cardinality(Counted)
  <2>1. Counted \subseteq Conns
    BY DEF Counted
  <2> QED BY <2>1, FS_Subset, FS_CardinalityType, LifecycleConstants DEF CountOK
<1>3. Counted' = IF In(t) THEN Counted \cup {c} ELSE Counted \ {c}
  BY <1>1 DEF Counted
<1>4. c \in Counted <=> In(s)
  BY DEF Counted
<1>5. CASE (In(t) <=> In(s)) /\ UNCHANGED usageTotalOnline
  <2>1. Counted' = Counted
    BY <1>3, <1>4, <1>5
  <2> QED BY <1>2, <1>5, <2>1 DEF CountOK
<1>6. CASE In(t) /\ ~In(s) /\ usageTotalOnline' = usageTotalOnline + 1
  <2>1. Cardinality(Counted') = Cardinality(Counted) + 1
    BY <1>2, <1>3, <1>4, <1>6, FS_AddElement
  <2> QED BY <1>2, <1>6, <2>1 DEF CountOK
<1>7. CASE ~In(t) /\ In(s) /\ usageTotalOnline' = IF usageTotalOnline > 0
             THEN usageTotalOnline - 1 ELSE usageTotalOnline
  <2>1. Cardinality(Counted') = Cardinality(Counted) - 1
    BY <1>2, <1>3, <1>4, <1>7, FS_RemoveElement
  <2>2. Cardinality(Counted) > 0
    <3>1. Cardinality(Counted) # 0
      BY <1>2, <1>4, <1>7, FS_EmptySet
    <3> QED BY <1>2, <3>1
  <2> QED BY <1>2, <1>7, <2>1, <2>2 DEF CountOK
<1> HIDE DEF In
<1>8. \/ (In(t) <=> In(s)) /\ UNCHANGED usageTotalOnline
      \/ In(t) /\ ~In(s) /\ usageTotalOnline' = usageTotalOnline + 1
      \/ ~In(t) /\ In(s) /\ usageTotalOnline' = IF usageTotalOnline > 0
              THEN usageTotalOnline - 1 ELSE usageTotalOnline
  <2> USE DEF In
  <2>1. CASE Moves(s, t)
    BY <2>1 DEF Moves, Late
  <2>2. CASE Drops(s, t)
    <3>1. accounts \in [Accounts -> Access \cup {None}] /\ s.account \in Accounts \cup {None}
      BY DEF TypeOK, Connection
    <3>2. ~s.registered
      BY <2>2, <3>1 DEF Drops, NoneDeleted, ConnectionOK
    <3>3. ~t.registered
      BY <2>2 DEF Drops, NoConnection
    <3> QED BY <2>2, <3>2, <3>3 DEF Drops
  <2>3. CASE Authenticates(c, s, t)
    BY <2>3 DEF Authenticates
  <2>4. CASE Registers(c, s, t)
    BY <2>4 DEF Registers
  <2>5. CASE CountsIn(s, t)
    BY <2>5 DEF CountsIn
  <2>6. CASE Slots(s, t)
    BY <2>6 DEF Slots, Late
  <2>7. CASE GivesSlotBack(s, t)
    BY <2>7 DEF GivesSlotBack
  <2>8. CASE TakesEntryOut(s, t)
    BY <2>8 DEF TakesEntryOut
  <2>9. CASE Ends(s, t)
    <3>1. ~t.registered
      BY <2>9 DEF Ends, NoConnection
    <3> QED BY <2>9, <3>1 DEF Ends
  <2> QED BY <2>1, <2>2, <2>3, <2>4, <2>5, <2>6, <2>7, <2>8, <2>9 DEF Does
<1> QED BY <1>5, <1>6, <1>7, <1>8

-----------------------------------------------------------------------------
(* What the steps of the other threads keep *)

\* The steps of the admin API, of the rules service and of the cooldowns.
OtherNext ==
  \/ \E a \in Accounts : CooldownExpires(a)
  \/ \E a \in Accounts, access \in AccessLevels : SetMatching2Access(a, access)
  \/ SetEntryAccess \/ FreeSlot
  \/ \E accepted \in RuleSets, recheck \in BOOLEAN : ApplyRules(accepted, recheck)
  \/ ClearCooldowns \/ QueueRechecks

\* Queueing rechecks sets nothing else, and only for a connection that is named
\* by an entry.
LEMMA RecheckOnly ==
  ASSUME TypeOK, QueueRechecks, NEW c \in Conns
  PROVE  \E r \in BOOLEAN :
           /\ conn'[c] = [conn[c] EXCEPT !.recheck = r]
           /\ r => conn[c].recheck \/ \E a \in Accounts : clients[a].conn = c
<1>1. conn[c].recheck \in BOOLEAN
  BY DEF TypeOK, Connection
<1> DEFINE r == \/ conn[c].recheck
                \/ \E a \in Accounts \ StatAgents :
                     clients[a].conn = c /\ conn[c].registered
<1>2. conn'[c] = [conn[c] EXCEPT !.recheck = r]
  BY DEF QueueRechecks
<1>3. r \in BOOLEAN /\ (r => conn[c].recheck \/ \E a \in Accounts : clients[a].conn = c)
  BY <1>1
<1> HIDE DEF r
<1> QED BY <1>2, <1>3

\* Those steps keep the types.
LEMMA OtherTypes ==
  ASSUME TypeOK, AllNamed, OtherNext
  PROVE  TypeOK' /\ AllNamed'
<1>1. /\ conn \in [Conns -> Connection]
      /\ clients \in [Accounts -> [conn : Conns \cup {None}, access : Access]]
      /\ cooldown \in [Accounts -> Versions \cup {None}]
      /\ accounts \in [Accounts -> Access \cup {None}]
      /\ admin \in [step : {"idle", "entry", "slot"},
                    account : Accounts \cup {None}, access : Access]
      /\ apply \in [step : {"idle", "cooldowns", "recheck"}, recheck : BOOLEAN]
  BY DEF TypeOK
<1>2. UNCHANGED conn => AllNamed'
  BY DEF AllNamed
<1>3. ASSUME NEW a \in Accounts, CooldownExpires(a)
      PROVE  TypeOK' /\ AllNamed'
  BY <1>1, <1>2, <1>3 DEF CooldownExpires, others, TypeOK
<1>4. ASSUME NEW a \in Accounts, NEW access \in AccessLevels,
             SetMatching2Access(a, access)
      PROVE  TypeOK' /\ AllNamed'
  <2>1. access \in Access
    BY LifecycleConstants
  <2>2. accounts' \in [Accounts -> Access \cup {None}]
        /\ admin' \in [step : {"idle", "entry", "slot"},
                       account : Accounts \cup {None}, access : Access]
    BY <1>1, <1>4, <2>1 DEF SetMatching2Access
  <2> QED BY <1>2, <1>4, <2>2 DEF SetMatching2Access, tables, TypeOK
<1>5. CASE SetEntryAccess
  <2>1. clients' \in [Accounts -> [conn : Conns \cup {None}, access : Access]]
    <3>1. admin.access \in Access
      BY <1>1
    <3>2. clients' = clients \/ (admin.account \in Accounts
                                 /\ clients' = [clients EXCEPT
                                      ![admin.account].access = admin.access])
      BY <1>5 DEF SetEntryAccess, Connected
    <3> QED BY <1>1, <3>1, <3>2
  <2>2. admin' \in [step : {"idle", "entry", "slot"},
                    account : Accounts \cup {None}, access : Access]
    BY <1>1, <1>5, EmptyRecords DEF SetEntryAccess
  <2> QED BY <1>2, <1>5, <2>1, <2>2 DEF SetEntryAccess, TypeOK
<1>6. CASE FreeSlot
  BY <1>2, <1>6, EmptyRecords DEF FreeSlot, TypeOK
<1>7. ASSUME NEW accepted \in RuleSets, NEW recheck \in BOOLEAN,
             ApplyRules(accepted, recheck)
      PROVE  TypeOK' /\ AllNamed'
  <2>1. accepted \subseteq Versions
    BY LifecycleConstants
  <2> QED BY <1>2, <1>7, <2>1 DEF ApplyRules, tables, TypeOK
<1>8. CASE ClearCooldowns
  <2>1. /\ cooldown' \in [Accounts -> Versions \cup {None}]
        /\ apply' \in [step : {"idle", "cooldowns", "recheck"}, recheck : BOOLEAN]
    BY <1>1, <1>8 DEF ClearCooldowns
  <2> QED BY <1>2, <1>8, <2>1 DEF ClearCooldowns, TypeOK
<1>9. CASE QueueRechecks
  <2>1. \A c \in Conns : conn'[c] \in Connection /\ Named(conn'[c])
    <3> TAKE c \in Conns
    <3>1. PICK r \in BOOLEAN : conn'[c] = [conn[c] EXCEPT !.recheck = r]
      BY <1>9, RecheckOnly
    <3>2. conn[c] \in Connection /\ Named(conn[c])
      BY <1>1 DEF AllNamed
    <3> QED BY <3>1, <3>2 DEF Connection, Named
  <2>2. conn' \in [Conns -> Connection]
    <3>1. conn' = [c \in Conns |-> conn'[c]]
      BY <1>9 DEF QueueRechecks
    <3> QED BY <2>1, <3>1
  <2>3. apply' \in [step : {"idle", "cooldowns", "recheck"}, recheck : BOOLEAN]
    BY <1>1, <1>9 DEF QueueRechecks
  <2> QED BY <1>9, <2>1, <2>2, <2>3 DEF QueueRechecks, tables, AllNamed, TypeOK
<1> QED BY <1>3, <1>4, <1>5, <1>6, <1>7, <1>8, <1>9 DEF OtherNext

\* They keep what the entries show in step with the database.
LEMMA OtherAccess ==
  ASSUME TypeOK, AccessCurrent, AdminOK, OtherNext
  PROVE  AdminOK' /\ AccessCurrent'
<1>1. /\ clients \in [Accounts -> [conn : Conns \cup {None}, access : Access]]
      /\ accounts \in [Accounts -> Access \cup {None}]
      /\ admin \in [step : {"idle", "entry", "slot"},
                    account : Accounts \cup {None}, access : Access]
  BY DEF TypeOK
<1>2. CASE UNCHANGED <<clients, accounts, admin>>
  BY <1>2 DEF AdminOK, AccessCurrent, StoredAccess, Connected
<1>3. ASSUME NEW b \in Accounts, NEW access \in AccessLevels,
             SetMatching2Access(b, access)
      PROVE  AdminOK' /\ AccessCurrent'
  <2>1. /\ accounts[b] # None /\ accounts' = [accounts EXCEPT ![b] = access]
        /\ admin' = [step |-> "entry", account |-> b, access |-> access]
        /\ UNCHANGED clients
    BY <1>3 DEF SetMatching2Access, tables
  <2>2. \A x \in Accounts \ {b} : accounts'[x] = accounts[x]
    BY <1>1, <2>1
  <2>3. AdminOK'
    BY <1>1, <2>1 DEF AdminOK
  <2>4. AccessCurrent'
    <3> SUFFICES ASSUME NEW x \in Connected', accounts'[x] # None,
                        ~(admin'.step = "entry" /\ admin'.account = x)
                 PROVE  clients'[x].access = StoredAccess(x)'
      BY DEF AccessCurrent
    <3>1. x \in Accounts /\ x # b /\ x \in Connected
      BY <2>1 DEF Connected
    <3>2. admin.step = "idle"
      BY <1>3 DEF SetMatching2Access
    <3>3. clients[x].access = StoredAccess(x)
      BY <2>2, <3>1, <3>2 DEF AccessCurrent
    <3> QED BY <2>1, <2>2, <3>1, <3>3 DEF StoredAccess
  <2> QED BY <2>3, <2>4
<1>4. CASE SetEntryAccess
  <2> DEFINE b == admin.account
  <2>1. /\ admin.step = "entry" /\ b \in Accounts /\ UNCHANGED accounts
        /\ accounts[b] \in {admin.access, None}
    BY <1>1, <1>4 DEF SetEntryAccess, AdminOK
  <2>2. /\ \A x \in Accounts \ {b} : clients'[x] = clients[x]
        /\ clients'[b].conn = clients[b].conn
        /\ clients[b].conn # None => clients'[b].access = admin.access
    BY <1>1, <1>4, <2>1 DEF SetEntryAccess, Connected
  <2>3. admin'.step # "entry" /\ (admin'.step # "idle" => admin'.account = b)
    BY <1>1, <1>4, <2>1 DEF SetEntryAccess, NoRequest
  <2>4. AdminOK'
    BY <2>1, <2>3 DEF AdminOK
  <2>5. AccessCurrent'
    <3> SUFFICES ASSUME NEW x \in Connected', accounts'[x] # None
                 PROVE  clients'[x].access = StoredAccess(x)'
      BY DEF AccessCurrent
    <3>1. x \in Connected /\ x \in Accounts
      BY <2>2 DEF Connected
    <3>2. CASE x = b
      BY <2>1, <2>2, <3>1, <3>2 DEF Connected, StoredAccess
    <3>3. CASE x # b
      <4>1. clients[x].access = StoredAccess(x)
        BY <2>1, <3>1, <3>3 DEF AccessCurrent
      <4> QED BY <2>1, <2>2, <3>1, <3>3, <4>1 DEF StoredAccess
    <3> QED BY <3>2, <3>3
  <2> QED BY <2>4, <2>5
<1>5. CASE FreeSlot
  <2>1. admin'.step = "idle" /\ admin.step = "slot" /\ UNCHANGED <<clients, accounts>>
    BY <1>5 DEF FreeSlot, NoRequest
  <2> QED BY <2>1 DEF AdminOK, AccessCurrent, Connected, StoredAccess
<1> QED BY <1>2, <1>3, <1>4, <1>5
    DEF OtherNext, CooldownExpires, ApplyRules, ClearCooldowns, QueueRechecks, tables,
        others

\* And they keep the invariant.
LEMMA OtherKeeps ==
  ASSUME LInv, OtherNext
  PROVE  /\ ConnectionsOK' /\ EntriesOK' /\ HeldOK'
         /\ NoneDeleted' => SlotsOK' /\ CountOK'
<1>1. /\ TypeOK /\ ConnectionsOK /\ EntriesOK /\ HeldOK
      /\ NoneDeleted => SlotsOK /\ CountOK
      /\ conn \in [Conns -> Connection]
      /\ clients \in [Accounts -> [conn : Conns \cup {None}, access : Access]]
      /\ accounts \in [Accounts -> Access \cup {None}]
      /\ admin \in [step : {"idle", "entry", "slot"},
                    account : Accounts \cup {None}, access : Access]
  BY DEF LInv, TypeOK
<1>2. ASSUME UNCHANGED <<conn, clients, pendingVersionLogins, slots, usageTotalOnline,
                         accounts, admin>>
      PROVE  /\ ConnectionsOK' /\ EntriesOK' /\ HeldOK'
             /\ NoneDeleted' => SlotsOK' /\ CountOK'
  BY <1>1, <1>2 DEF ConnectionsOK, ConnectionOK, EntriesOK, HeldOK, SessionOf,
     NoneDeleted, SlotsOK, CountOK, Counted
<1>3. ASSUME NEW a \in Accounts, CooldownExpires(a)
      PROVE  /\ ConnectionsOK' /\ EntriesOK' /\ HeldOK'
             /\ NoneDeleted' => SlotsOK' /\ CountOK'
  BY <1>2, <1>3 DEF CooldownExpires, others
<1>4. ASSUME NEW b \in Accounts, NEW access \in AccessLevels,
             SetMatching2Access(b, access)
      PROVE  /\ ConnectionsOK' /\ EntriesOK' /\ HeldOK'
             /\ NoneDeleted' => SlotsOK' /\ CountOK'
  <2>1. access \in Access /\ access # None
    BY LifecycleConstants
  <2>2. /\ accounts[b] # None /\ accounts' = [accounts EXCEPT ![b] = access]
        /\ admin' = [step |-> "entry", account |-> b, access |-> access]
        /\ UNCHANGED <<conn, clients, pendingVersionLogins, slots, usageTotalOnline>>
    BY <1>4 DEF SetMatching2Access, tables
  <2>3. \A x \in Accounts : accounts'[x] = None <=> accounts[x] = None
    BY <1>1, <2>1, <2>2
  <2>4. \A x \in Accounts \ {b} : accounts'[x] = accounts[x]
    BY <1>1, <2>2
  <2>5. ConnectionsOK'
    <3> SUFFICES ASSUME NEW c \in Conns
                 PROVE  ConnectionOK(conn[c])'
      BY DEF ConnectionsOK
    <3>1. conn[c].account \in Accounts \cup {None}
      BY <1>1 DEF Connection
    <3> QED BY <1>1, <2>2, <2>3, <3>1 DEF ConnectionsOK, ConnectionOK
  <2>6. EntriesOK' /\ HeldOK'
    <3>1. pendingVersionLogins \subseteq Accounts
      BY <1>1 DEF TypeOK
    <3> QED BY <1>1, <2>2, <2>3, <3>1 DEF EntriesOK, HeldOK, SessionOf
  <2>7. NoneDeleted' => SlotsOK' /\ CountOK'
    <3>1. NoneDeleted' => NoneDeleted
      BY <2>3 DEF NoneDeleted
    <3> QED BY <1>1, <2>2, <3>1 DEF SlotsOK, CountOK, Counted, SessionOf
  <2> QED BY <2>5, <2>6, <2>7
<1>5. CASE SetEntryAccess
  <2>1. /\ UNCHANGED <<conn, pendingVersionLogins, slots, usageTotalOnline, accounts>>
        /\ \A x \in Accounts : clients'[x].conn = clients[x].conn
    BY <1>1, <1>5 DEF SetEntryAccess, Connected
  <2>2. ConnectionsOK' /\ HeldOK' /\ (NoneDeleted' => SlotsOK' /\ CountOK')
    BY <1>1, <2>1 DEF ConnectionsOK, ConnectionOK, HeldOK, SessionOf, NoneDeleted,
                      SlotsOK, CountOK, Counted
  <2>3. EntriesOK'
    BY <1>1, <2>1 DEF EntriesOK, SessionOf
  <2> QED BY <2>2, <2>3
<1>6. CASE FreeSlot
  <2>1. /\ slots' \subseteq slots
        /\ UNCHANGED <<conn, clients, pendingVersionLogins, usageTotalOnline, accounts>>
    BY <1>6 DEF FreeSlot
  <2>2. ConnectionsOK' /\ EntriesOK' /\ HeldOK'
    BY <1>1, <2>1 DEF ConnectionsOK, ConnectionOK, EntriesOK, HeldOK, SessionOf
  <2>3. NoneDeleted' => SlotsOK' /\ CountOK'
    BY <1>1, <2>1 DEF NoneDeleted, SlotsOK, CountOK, Counted, SessionOf
  <2> QED BY <2>2, <2>3
<1>7. ASSUME NEW accepted \in RuleSets, NEW recheck \in BOOLEAN,
             ApplyRules(accepted, recheck)
      PROVE  /\ ConnectionsOK' /\ EntriesOK' /\ HeldOK'
             /\ NoneDeleted' => SlotsOK' /\ CountOK'
  BY <1>2, <1>7 DEF ApplyRules, tables
<1>8. CASE ClearCooldowns
  BY <1>2, <1>8 DEF ClearCooldowns
<1>9. CASE QueueRechecks
  <2>1. UNCHANGED <<clients, pendingVersionLogins, slots, usageTotalOnline, accounts,
                    admin>>
    BY <1>9 DEF QueueRechecks, tables
  <2>2. ASSUME NEW c \in Conns
        PROVE  /\ ConnectionOK(conn[c])'
               /\ (conn'[c].open <=> conn[c].open)
               /\ (conn'[c].authenticated <=> conn[c].authenticated)
               /\ (conn'[c].registered <=> conn[c].registered)
               /\ conn'[c].account = conn[c].account
               /\ conn'[c].step = conn[c].step
    <3>1. PICK r \in BOOLEAN :
            /\ conn'[c] = [conn[c] EXCEPT !.recheck = r]
            /\ r => conn[c].recheck \/ \E a \in Accounts : clients[a].conn = c
      BY <1>1, <1>9, RecheckOnly
    <3>2. PICK s \in Connection : s = conn[c]
      BY <1>1
    <3>3. PICK t \in Connection : t = [s EXCEPT !.recheck = r]
      BY DEF Connection
    <3>4. /\ (t.open <=> s.open) /\ (t.authenticated <=> s.authenticated)
          /\ (t.registered <=> s.registered) /\ (t.rejected <=> s.rejected)
          /\ t.account = s.account /\ t.step = s.step /\ (t.timer <=> s.timer)
          /\ (t.recheck <=> r)
      BY <3>3 DEF Connection
    <3>5. ConnectionOK(s)
      BY <1>1, <3>2 DEF ConnectionsOK
    <3>6. r /\ ~s.recheck => s.open /\ s.account # None
      <4> SUFFICES ASSUME r, ~s.recheck
                   PROVE  s.open /\ s.account # None
        OBVIOUS
      <4>1. PICK a \in Accounts : clients[a].conn = c
        BY <3>1, <3>2
      <4>2. SessionOf(c, a) /\ c # None /\ a # None
        BY <1>1, <4>1, LifecycleConstants DEF EntriesOK
      <4> QED BY <3>2, <4>2 DEF SessionOf
    <3>7. ~s.open => t = NoConnection
      <4> SUFFICES ASSUME ~s.open
                   PROVE  t = NoConnection
        OBVIOUS
      <4>1. s = NoConnection
        BY <3>5 DEF ConnectionOK
      <4>2. ~s.recheck /\ ~r
        BY <3>6, <4>1 DEF NoConnection
      <4>3. r = FALSE
        BY <4>2
      <4> QED BY <3>3, <4>1, <4>3 DEF NoConnection
    <3>8. ConnectionOK(t)'
      <4>1. s.account = None => ~r
        BY <3>5, <3>6 DEF ConnectionOK
      <4> QED BY <2>1, <3>4, <3>5, <3>7, <4>1 DEF ConnectionOK
    <3>9. conn'[c] = t
      BY <3>1, <3>2, <3>3
    <3> QED BY <3>2, <3>4, <3>8, <3>9 DEF ConnectionOK
  <2>3. ConnectionsOK'
    BY <2>2 DEF ConnectionsOK
  <2>4. EntriesOK' /\ HeldOK'
    <3>1. \A a \in Accounts : clients[a].conn # None => clients[a].conn \in Conns
      BY <1>1
    <3> QED BY <1>1, <2>1, <2>2, <3>1 DEF EntriesOK, HeldOK, SessionOf
  <2>5. NoneDeleted' => SlotsOK' /\ CountOK'
    <3>1. Counted' = Counted
      BY <2>2 DEF Counted
    <3> QED BY <1>1, <2>1, <2>2, <3>1 DEF NoneDeleted, SlotsOK, CountOK, SessionOf
  <2> QED BY <2>3, <2>4, <2>5
<1> QED BY <1>3, <1>4, <1>5, <1>6, <1>7, <1>8, <1>9 DEF OtherNext

-----------------------------------------------------------------------------
(* The theorems *)

\* Every step is one of a connection or one of another thread.
LEMMA StepsOf ==
  [Next]_vars => (\E c \in Conns : ConnNext(c)) \/ OtherNext \/ UNCHANGED vars
BY DEF Next, OtherNext

\* The first state has every part of the invariants.
LEMMA InitOK ==
  ASSUME Init
  PROVE  /\ TypeOK /\ AllNamed /\ AdminOK /\ AccessCurrent
         /\ LInv
<1>1. TypeOK
  BY EmptyRecords, LifecycleConstants DEF Init, TypeOK, Access, NoRequest
<1>2. AllNamed /\ ConnectionsOK
  BY LifecycleConstants
     DEF Init, AllNamed, Named, NoConnection, ConnectionsOK, ConnectionOK
<1>3. EntriesOK /\ HeldOK /\ SlotsOK /\ AdminOK /\ AccessCurrent
  BY DEF Init, EntriesOK, HeldOK, SlotsOK, AdminOK, AccessCurrent, Connected, NoClient,
         NoRequest
<1>4. CountOK
  <2>1. Counted = {}
    BY DEF Init, Counted, NoConnection
  <2> QED BY <2>1, FS_EmptySet DEF Init, CountOK
<1> QED BY <1>1, <1>2, <1>3, <1>4 DEF LInv

\* The variables keep their types, whatever the clients send.
THEOREM LifecycleTypes == Spec => []TypeOK
<1> DEFINE Typed == TypeOK /\ AllNamed
<1>1. Init => Typed
  BY InitOK
<1>2. Typed /\ [Next]_vars => Typed'
  <2> SUFFICES ASSUME Typed, [Next]_vars
               PROVE  Typed'
    OBVIOUS
  <2>1. ASSUME NEW c \in Conns, ConnNext(c)
        PROVE  Typed'
    <3>1. Named(conn[c]) /\ conn \in [Conns -> Connection]
      BY DEF AllNamed, TypeOK
    <3>2. /\ TypeOK'
          /\ \E t \in Connection : conn' = [conn EXCEPT ![c] = t] /\ Named(t)
      BY <2>1, <3>1, ConnSteps
    <3> QED BY <3>1, <3>2 DEF AllNamed
  <2>2. CASE OtherNext
    BY <2>2, OtherTypes
  <2>3. CASE UNCHANGED vars
    BY <2>3 DEF TypeOK, AllNamed, vars
  <2> QED BY <2>1, <2>2, <2>3, StepsOf
<1>3. Typed => TypeOK
  OBVIOUS
<1> QED BY <1>1, <1>2, <1>3, PTL DEF Spec

\* An access change is never lost: whatever clients send, deletions and second
\* logins included, the entry shows what the database says once the change is
\* through.
THEOREM AccessAlwaysCurrent == Spec => []AccessCurrent
<1> DEFINE Shown == AccessCurrent /\ AdminOK
<1>1. Init => Shown
  BY InitOK
<1>2. TypeOK /\ Shown /\ [Next]_vars => Shown'
  <2> SUFFICES ASSUME TypeOK, Shown, [Next]_vars
               PROVE  Shown'
    OBVIOUS
  <2>1. ASSUME NEW c \in Conns, ConnNext(c)
        PROVE  Shown'
    BY <2>1, AccessKept
  <2>2. CASE OtherNext
    BY <2>2, OtherAccess
  <2>3. CASE UNCHANGED vars
    BY <2>3 DEF AccessCurrent, AdminOK, Connected, StoredAccess, vars
  <2> QED BY <2>1, <2>2, <2>3, StepsOf
<1>3. Shown => AccessCurrent
  OBVIOUS
<1> QED BY <1>1, <1>2, <1>3, LifecycleTypes, PTL DEF Spec

\* A connection's step keeps the invariant, if it is not a second Login, and
\* what it makes of a rejected session.
LEMMA ConnKeeps ==
  ASSUME LInv, AllNamed, NEW c \in Conns, ConnNext(c), OneSignIn
  PROVE  /\ LInv' /\ AllNamed'
         /\ \A d \in Conns : Verdict(conn[d], conn'[d])
<1>1. /\ TypeOK /\ ConnectionsOK /\ EntriesOK /\ HeldOK
      /\ NoneDeleted => SlotsOK /\ CountOK
      /\ conn \in [Conns -> Connection] /\ accounts \in [Accounts -> Access \cup {None}]
  BY DEF LInv, TypeOK
<1>2. PICK s \in Connection : s = conn[c] /\ Named(s) /\ ConnectionOK(s)
  BY <1>1 DEF AllNamed, ConnectionsOK
<1>3. TypeOK' /\ \E t \in Connection :
        /\ conn' = [conn EXCEPT ![c] = t] /\ Named(t)
        /\ ConnectionOK(t)' /\ Does(c, s, t) /\ Verdict(s, t)
  BY <1>1, <1>2, ConnSteps
<1>4. PICK t \in Connection :
        /\ conn' = [conn EXCEPT ![c] = t] /\ Named(t)
        /\ ConnectionOK(t)' /\ Does(c, s, t) /\ Verdict(s, t)
  BY <1>3
<1>5. conn'[c] = t /\ \A d \in Conns \ {c} : conn'[d] = conn[d]
  BY <1>1, <1>4
<1>6. \A d \in Conns : Verdict(conn[d], conn'[d])
  BY <1>2, <1>4, <1>5 DEF Verdict
<1>7. AllNamed'
  BY <1>4, <1>5 DEF AllNamed
<1>8. \A a \in Accounts : accounts'[a] \in {accounts[a], None}
  BY <1>1, EntryAccess
<1>9. ConnectionsOK'
  <2> SUFFICES ASSUME NEW d \in Conns, d # c
               PROVE  ConnectionOK(conn[d])'
    BY <1>4, <1>5 DEF ConnectionsOK, ConnectionOK
  <2>1. conn'[d] = conn[d] /\ conn[d].account \in Accounts \cup {None}
    BY <1>1, <1>5 DEF Connection
  <2> QED BY <1>1, <1>8, <2>1 DEF ConnectionsOK, ConnectionOK
<1>10. EntriesOK' /\ HeldOK'
  BY <1>1, <1>2, <1>4, EntriesKept, HeldKept
<1>11. NoneDeleted' => SlotsOK' /\ CountOK'
  <2> SUFFICES ASSUME NoneDeleted'
               PROVE  SlotsOK' /\ CountOK'
    OBVIOUS
  <2>1. NoneDeleted
    BY <1>8 DEF NoneDeleted
  <2>2. ~DeletesAccount(s, t)
    BY <1>1 DEF DeletesAccount, NoneDeleted
  <2> QED BY <1>1, <1>2, <1>4, <2>1, <2>2, SlotsKept, CountKept
<1> QED BY <1>3, <1>6, <1>7, <1>9, <1>10, <1>11 DEF LInv

\* Every step of such a behaviour keeps the invariant.
LEMMA LInvInductive ==
  ASSUME LInv, AllNamed, [Next]_vars, [OneSignIn]_vars
  PROVE  /\ LInv' /\ AllNamed'
         /\ \A d \in Conns : Verdict(conn[d], conn'[d])
<1>1. ASSUME NEW c \in Conns, ConnNext(c), ~UNCHANGED vars
      PROVE  /\ LInv' /\ AllNamed'
             /\ \A d \in Conns : Verdict(conn[d], conn'[d])
  BY <1>1, ConnKeeps
<1>2. CASE OtherNext
  <2>1. TypeOK' /\ AllNamed' /\ TypeOK
    BY <1>2, OtherTypes DEF LInv
  <2>2. LInv'
    BY <1>2, <2>1, OtherKeeps DEF LInv
  <2>3. ASSUME NEW d \in Conns
        PROVE  Verdict(conn[d], conn'[d])
    <3>1. CASE UNCHANGED conn
      BY <3>1 DEF Verdict
    <3>2. CASE QueueRechecks
      <4>1. PICK r \in BOOLEAN : conn'[d] = [conn[d] EXCEPT !.recheck = r]
        BY <2>1, <3>2, RecheckOnly
      <4>2. conn[d] \in Connection
        BY <2>1 DEF TypeOK
      <4> QED BY <4>1, <4>2 DEF Verdict, Connection
    <3> QED BY <1>2, <3>1, <3>2 DEF OtherNext, CooldownExpires, SetMatching2Access,
               SetEntryAccess, FreeSlot, ApplyRules, ClearCooldowns, tables, others
  <2> QED BY <2>1, <2>2, <2>3
<1>3. CASE UNCHANGED vars
  BY <1>3 DEF LInv, TypeOK, ConnectionsOK, ConnectionOK, EntriesOK, HeldOK, SlotsOK,
     CountOK, Counted, NoneDeleted, SessionOf, AllNamed, Verdict, vars
<1> QED BY <1>1, <1>2, <1>3, StepsOf

\* The invariant holds as long as no connection signs in twice.
LEMMA LInvHolds == Spec /\ [][OneSignIn]_vars => [](LInv /\ AllNamed)
<1>1. Init => LInv /\ AllNamed
  BY InitOK
<1>2. LInv /\ AllNamed /\ [Next]_vars /\ [OneSignIn]_vars => (LInv /\ AllNamed)'
  BY LInvInductive
<1> QED BY <1>1, <1>2, PTL DEF Spec

\* As long as no connection signs in twice, no account is locked out: whatever
\* refuses its next login belongs to a session that is still there and will
\* take it back.
THEOREM NobodyEverLockedOut ==
  Spec /\ [][OneSignIn]_vars => []NobodyLockedOut
<1>1. LInv => NobodyLockedOut
  <2> SUFFICES ASSUME LInv, NEW a \in Accounts, accounts[a] # None
               PROVE  /\ a \in Connected => SessionOf(clients[a].conn, a)
                      /\ a \in pendingVersionLogins => \E c \in Conns :
                           SessionOf(c, a) /\ ~conn[c].registered
    BY DEF NobodyLockedOut
  <2> QED BY DEF LInv, EntriesOK, HeldOK, Connected
<1> QED BY <1>1, LInvHolds, PTL

\* As long as no connection signs in twice, every way out but the deletion of
\* an account gives back the slot and the place in the live count.
THEOREM EverythingAlwaysGivenBack ==
  Spec /\ [][OneSignIn]_vars => []EverythingGivenBack
<1>1. LInv => EverythingGivenBack
  BY DEF LInv, EverythingGivenBack, SlotsOK, CountOK, Counted, HasSession
<1> QED BY <1>1, LInvHolds, PTL

\* As long as no connection signs in twice, a session that was refused before
\* it was shown online is never shown online.
THEOREM RejectedAlwaysStaysOut ==
  Spec /\ [][OneSignIn]_vars => RejectedStaysOut
<1>1. LInv /\ AllNamed /\ [Next]_vars /\ [OneSignIn]_vars =>
        [\A c \in Conns : conn[c].rejected /\ conn'[c].open =>
           conn'[c].rejected /\ (conn'[c].registered => conn[c].registered)]_vars
  BY LInvInductive DEF Verdict
<1> QED BY <1>1, LInvHolds, PTL DEF Spec, RejectedStaysOut
=============================================================================
