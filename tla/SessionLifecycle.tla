-------------------------- MODULE SessionLifecycle --------------------------
(***************************************************************************)
(* Signing in, the client-version check, the matchmaking slots and signing *)
(* out (cmd_account.cpp, client_session.cpp/.h, clientversions_service.cpp, *)
(* admin_api.cpp).                                                         *)
(*                                                                         *)
(* Every connection is a ClientSession on a thread of its own, whose event *)
(* loop runs one handler at a time.  A handler that takes several locks    *)
(* one after another is one action per lock; "step" says where it stands.  *)
(* Two more threads act: the admin API changing an account's matchmaking   *)
(* access, and the service that applies new client-version rules.          *)
(*                                                                         *)
(* A connection that has closed makes place for the next one.  Time is     *)
(* left out: an armed timer may fire at any moment, a cooldown may expire. *)
(***************************************************************************)
EXTENDS Naturals, FiniteSets

CONSTANTS
  Conns,         \* connections open at a time
  Accounts,
  None,          \* no account, no connection, no version
  Versions,      \* the client versions that may be reported
  NoVersion,     \* the empty version, checked when none was reported
  Credentials,   \* Credentials[c]: the accounts signed in to from c
  StatAgents,    \* service accounts, exempt from the version check
  RuleSets,      \* sets of accepted versions the admin applies
  AccessLevels,  \* matchmaking access levels the admin API sets
  MaxUsers,      \* Matching2MaxUsers, 0 for no limit
  HoldLogins,    \* ClientVersionTimeoutSeconds > 0
  Cooldowns,     \* ClientVersionCooldownSeconds > 0
  Relogins,      \* clients may send Login on a signed-in connection
  Deletes        \* clients may send Delete for their own account

Access == {"normal", "always", "never"}

ASSUME LifecycleConstants ==
  /\ None \notin Accounts \cup Conns \cup Versions \cup Access
  /\ IsFiniteSet(Conns)
  /\ NoVersion \in Versions
  /\ Credentials \in [Conns -> SUBSET Accounts]
  /\ StatAgents \subseteq Accounts
  /\ RuleSets \subseteq SUBSET Versions
  /\ AccessLevels \subseteq Access
  /\ MaxUsers \in Nat
  /\ {HoldLogins, Cooldowns, Relogins, Deletes} \subseteq BOOLEAN

VARIABLES
  conn,      \* conn[c]: the ClientSession of connection c
  clients,   \* clients[a]: a's entry in the table of connected clients
  pendingVersionLogins,  \* accounts whose login is held
  cooldown,  \* cooldown[a]: the version whose rejection keeps a out
  slots,     \* accounts holding a matchmaking slot
  usageTotalOnline,      \* the live count of the stats server
  accounts,  \* access of every account, as the database has it
  rules,     \* the versions the rules in force accept
  admin,     \* the admin API's change of an account's access
  apply      \* the application of new version rules

vars == <<conn, clients, pendingVersionLogins, cooldown, slots,
          usageTotalOnline, accounts, rules, admin, apply>>
tables == <<clients, pendingVersionLogins, cooldown, slots, usageTotalOnline>>
others == <<accounts, rules, admin, apply>>

-----------------------------------------------------------------------------
Steps == {"idle", "cooldownPassed", "free", "checking", "registering",
          "counting", "cooling", "gated", "leaving", "removing", "discounting"}

\* pending is m_pendingOnline with the access it remembers, gate the access
\* CheckMatching2Access has read; closing: disconnectFromHost is on its way.
Connection ==
  [open : BOOLEAN, step : Steps, account : Accounts \cup {None},
   login : Accounts \cup {None}, authenticated : BOOLEAN,
   registered : BOOLEAN, pending : Access \cup {None},
   version : Versions, reported : BOOLEAN, rejected : BOOLEAN,
   timer : BOOLEAN, recheck : BOOLEAN, closing : BOOLEAN,
   initialized : BOOLEAN, gate : Access]

NoConnection ==
  [open |-> FALSE, step |-> "idle", account |-> None, login |-> None,
   authenticated |-> FALSE, registered |-> FALSE, pending |-> None,
   version |-> NoVersion, reported |-> FALSE, rejected |-> FALSE,
   timer |-> FALSE, recheck |-> FALSE, closing |-> FALSE,
   initialized |-> FALSE, gate |-> "normal"]

NoClient == [conn |-> None, access |-> "normal"]
NoRequest == [step |-> "idle", account |-> None, access |-> "normal"]
Connected == {a \in Accounts : clients[a].conn # None}

\* GetMatching2Access: normal for an account that is gone.
StoredAccess(a) == IF accounts[a] = None THEN "normal" ELSE accounts[a]

Idle(c) == conn[c].open /\ conn[c].step = "idle"
At(c, step) == conn[c].open /\ conn[c].step = step
\* Packets are only read while the socket is connected and the account has
\* been accepted so far.
Commands(c) == Idle(c) /\ conn[c].authenticated /\ ~conn[c].rejected

Init ==
  /\ conn = [c \in Conns |-> NoConnection]
  /\ clients = [a \in Accounts |-> NoClient]
  /\ pendingVersionLogins = {}
  /\ cooldown = [a \in Accounts |-> None]
  /\ slots = {}
  /\ usageTotalOnline = 0
  /\ accounts = [a \in Accounts |-> "normal"]
  /\ rules \in RuleSets
  /\ admin = NoRequest
  /\ apply = [step |-> "idle", recheck |-> FALSE]

Connect(c) ==
  /\ ~conn[c].open
  /\ conn' = [conn EXCEPT ![c].open = TRUE]
  /\ UNCHANGED <<tables, others>>

-----------------------------------------------------------------------------
(* Login: three looks at shared state before the session is signed in *)

\* The password is right and no rejection is too recent.
CmdLogin(c, a) ==
  /\ Idle(c)
  /\ ~conn[c].authenticated \/ (Relogins /\ ~conn[c].rejected)
  /\ a \in Credentials[c] /\ accounts[a] # None
  /\ cooldown[a] = None
  /\ conn' = [conn EXCEPT ![c].step = "cooldownPassed", ![c].login = a]
  /\ UNCHANGED <<tables, others>>

\* LoginAlreadyLoggedIn when the account is connected or held.
LoginCheckFree(c) ==
  /\ At(c, "cooldownPassed")
  /\ conn' = [conn EXCEPT ![c] =
                IF @.login \in Connected \cup pendingVersionLogins
                THEN [@ EXCEPT !.step = "idle", !.login = None]
                ELSE [@ EXCEPT !.step = "free"]]
  /\ UNCHANGED <<tables, others>>

\* The session becomes the account's; the login is held for the version
\* check, or registered at once.
LoginAuthenticate(c) ==
  LET a == conn[c].login
      held == HoldLogins /\ a \notin StatAgents
  IN  /\ At(c, "free")
      /\ conn' = [conn EXCEPT ![c].account = a, ![c].login = None,
                              ![c].authenticated = TRUE, ![c].pending = StoredAccess(a),
                              ![c].timer = @ \/ held,
                              ![c].step = IF held THEN "idle" ELSE "registering"]
      /\ pendingVersionLogins' =
           IF held THEN pendingVersionLogins \cup {a} ELSE pendingVersionLogins
      /\ UNCHANGED <<clients, cooldown, slots, usageTotalOnline, others>>

\* MUTANT: the entry takes the access that was read when the login began.
RegisterOnline_OldAccess(c) ==
  /\ At(c, "registering")
  /\ IF conn[c].registered \/ conn[c].pending = None \/ ~conn[c].authenticated
     THEN /\ conn' = [conn EXCEPT ![c].step = "idle"]
          /\ UNCHANGED tables
     ELSE LET a == conn[c].account IN
          /\ conn' = [conn EXCEPT ![c].step = "counting", ![c].registered = TRUE,
                                  ![c].pending = None]
          /\ pendingVersionLogins' = pendingVersionLogins \ {a}
          /\ clients' = [clients EXCEPT
               ![a] = [conn |-> c, access |-> conn[c].pending]]
          /\ UNCHANGED <<cooldown, slots, usageTotalOnline>>
  /\ UNCHANGED others

\* Under clientsLock, reading the access from the database once more.
RegisterOnline(c) ==
  /\ At(c, "registering")
  /\ IF conn[c].registered \/ conn[c].pending = None \/ ~conn[c].authenticated
     THEN /\ conn' = [conn EXCEPT ![c].step = "idle"]
          /\ UNCHANGED tables
     ELSE LET a == conn[c].account IN
          /\ conn' = [conn EXCEPT ![c].step = "counting", ![c].registered = TRUE,
                                  ![c].pending = None]
          /\ pendingVersionLogins' = pendingVersionLogins \ {a}
          /\ clients' = [clients EXCEPT
               ![a] = [conn |-> c, access |-> StoredAccess(a)]]
          /\ UNCHANGED <<cooldown, slots, usageTotalOnline>>
  /\ UNCHANGED others

UsageOnLogin(c) ==
  /\ At(c, "counting")
  /\ usageTotalOnline' = usageTotalOnline + 1
  /\ conn' = [conn EXCEPT ![c].step = "idle"]
  /\ UNCHANGED <<clients, pendingVersionLogins, cooldown, slots, others>>

-----------------------------------------------------------------------------
(* The client-version check *)

CmdSetClientVersion(c, v) ==
  /\ Commands(c)
  /\ conn' = [conn EXCEPT ![c].version = v, ![c].reported = TRUE,
                          ![c].step = "checking"]
  /\ UNCHANGED <<tables, others>>

\* The timer armed at login fires: a client that reported nothing is checked
\* as one that reported the empty version.
VersionTimeout(c) ==
  /\ Idle(c) /\ conn[c].timer
  /\ conn' = [conn EXCEPT ![c].timer = FALSE,
                          ![c].step = IF conn[c].reported THEN "idle"
                                      ELSE "checking"]
  /\ UNCHANGED <<tables, others>>

\* The recheck queued by an application of new rules.
RecheckVersion(c) ==
  /\ Idle(c) /\ conn[c].recheck
  /\ conn' = [conn EXCEPT ![c].recheck = FALSE, ![c].step = "checking"]
  /\ UNCHANGED <<tables, others>>

\* MUTANT: a session that was rejected is evaluated again.
CheckClientVersion_Again(c) ==
  /\ At(c, "checking")
  /\ conn' = [conn EXCEPT
       ![c].step = IF conn[c].account \in StatAgents \/ conn[c].version \in rules
                   THEN "registering" ELSE "cooling",
       ![c].rejected = ~(conn[c].account \in StatAgents \/ conn[c].version \in rules)]
  /\ UNCHANGED <<tables, others>>

\* The decision: registered when accepted (and not yet online), else rejected
\* for good.
CheckClientVersion(c) ==
  LET accepted == conn[c].account \in StatAgents \/ conn[c].version \in rules
  IN  /\ At(c, "checking")
      /\ conn' = [conn EXCEPT
           ![c].step = IF conn[c].rejected THEN "idle"
                       ELSE IF accepted THEN "registering" ELSE "cooling",
           ![c].rejected = @ \/ ~accepted]
      /\ UNCHANGED <<tables, others>>

\* StartVersionCooldown, the notification, and the close half a second later.
RejectClient(c) ==
  /\ At(c, "cooling")
  /\ cooldown' = IF Cooldowns
                 THEN [cooldown EXCEPT ![conn[c].account] = conn[c].version]
                 ELSE cooldown
  /\ conn' = [conn EXCEPT ![c].closing = TRUE, ![c].step = "idle"]
  /\ UNCHANGED <<clients, pendingVersionLogins, slots, usageTotalOnline, others>>

CooldownExpires(a) ==
  /\ cooldown[a] # None
  /\ cooldown' = [cooldown EXCEPT ![a] = None]
  /\ UNCHANGED <<conn, clients, pendingVersionLogins, slots, usageTotalOnline, others>>

-----------------------------------------------------------------------------
(* Matchmaking: every command but LeaveRoom and ContextStop passes a gate *)

\* The gate's first half: online, and the access the client table shows.
CheckMatching2Access(c) ==
  /\ Commands(c) /\ conn[c].registered
  /\ clients[conn[c].account].access # "never"
  /\ conn' = [conn EXCEPT ![c].step = "gated",
                          ![c].gate = clients[conn[c].account].access]
  /\ UNCHANGED <<tables, others>>

MayTakeSlot(c) ==
  \/ conn[c].account \in slots
  \/ conn[c].gate = "always"
  \/ MaxUsers = 0 \/ Cardinality(slots) < MaxUsers

\* The second half takes the slot and runs the command (start: ContextStart),
\* or refuses it.
TryTakeMatching2Slot(c, start) ==
  /\ At(c, "gated")
  /\ \/ /\ MayTakeSlot(c)
        /\ slots' = slots \cup {conn[c].account}
        /\ conn' = [conn EXCEPT ![c].step = "idle", ![c].gate = "normal",
                                ![c].initialized = @ \/ start]
     \/ /\ ~MayTakeSlot(c)
        /\ conn' = [conn EXCEPT ![c].step = "idle", ![c].gate = "normal"]
        /\ UNCHANGED slots
  /\ UNCHANGED <<clients, pendingVersionLogins, cooldown, usageTotalOnline, others>>

CmdContextStop(c) ==
  /\ Commands(c)
  /\ slots' = slots \ {conn[c].account}
  /\ conn' = [conn EXCEPT ![c].initialized = FALSE]
  /\ UNCHANGED <<clients, pendingVersionLogins, cooldown, usageTotalOnline, others>>

-----------------------------------------------------------------------------
(* Going away *)

\* Delete of the session's own account: its entry goes, the session is no
\* longer authenticated and its socket is asked to close.
CmdDelete(c) ==
  LET a == conn[c].account IN
  /\ Deletes /\ Commands(c) /\ accounts[a] # None
  /\ accounts' = [accounts EXCEPT ![a] = None]
  /\ clients' = [clients EXCEPT ![a] = NoClient]
  /\ conn' = [conn EXCEPT ![c].authenticated = FALSE, ![c].closing = TRUE]
  /\ UNCHANGED <<pendingVersionLogins, cooldown, slots, usageTotalOnline,
                 rules, admin, apply>>

\* The socket is closed, by either side: CleanupOnDisconnect begins, and does
\* nothing for a session that is not authenticated.
OnDisconnected(c) ==
  /\ Idle(c)
  /\ conn' = [conn EXCEPT ![c] =
                IF @.authenticated THEN [@ EXCEPT !.step = "leaving"]
                ELSE NoConnection]
  /\ UNCHANGED <<tables, others>>

\* MUTANT: a session whose context was stopped keeps what it holds.
CleanupSlot_OnlyInitialized(c) ==
  /\ At(c, "leaving")
  /\ slots' = IF conn[c].initialized THEN slots \ {conn[c].account} ELSE slots
  /\ conn' = [conn EXCEPT ![c].step = "removing"]
  /\ UNCHANGED <<clients, pendingVersionLogins, cooldown, usageTotalOnline, others>>

CleanupSlot(c) ==
  /\ At(c, "leaving")
  /\ slots' = slots \ {conn[c].account}
  /\ conn' = [conn EXCEPT ![c].step = "removing"]
  /\ UNCHANGED <<clients, pendingVersionLogins, cooldown, usageTotalOnline, others>>

\* MUTANT: a login that is still held is not taken back.
CleanupEntry_KeepsHeld(c) ==
  /\ At(c, "removing")
  /\ clients' = IF conn[c].registered
                THEN [clients EXCEPT ![conn[c].account] = NoClient] ELSE clients
  /\ conn' = [conn EXCEPT ![c].step = "discounting"]
  /\ UNCHANGED <<pendingVersionLogins, cooldown, slots, usageTotalOnline, others>>

\* Under clientsLock: a held login is taken back, an entry removed.
CleanupEntry(c) ==
  /\ At(c, "removing")
  /\ IF conn[c].registered
     THEN /\ clients' = [clients EXCEPT ![conn[c].account] = NoClient]
          /\ UNCHANGED pendingVersionLogins
     ELSE /\ pendingVersionLogins' = pendingVersionLogins \ {conn[c].account}
          /\ UNCHANGED clients
  /\ conn' = [conn EXCEPT ![c].step = "discounting"]
  /\ UNCHANGED <<cooldown, slots, usageTotalOnline, others>>

\* MUTANT: a login that was held is counted out as well.
UsageOnLogout_Held(c) ==
  /\ At(c, "discounting")
  /\ usageTotalOnline' = usageTotalOnline - 1
  /\ conn' = [conn EXCEPT ![c] = NoConnection]
  /\ UNCHANGED <<clients, pendingVersionLogins, cooldown, slots, others>>

UsageOnLogout(c) ==
  /\ At(c, "discounting")
  /\ usageTotalOnline' = IF conn[c].registered /\ usageTotalOnline > 0
                         THEN usageTotalOnline - 1 ELSE usageTotalOnline
  /\ conn' = [conn EXCEPT ![c] = NoConnection]
  /\ UNCHANGED <<clients, pendingVersionLogins, cooldown, slots, others>>

-----------------------------------------------------------------------------
(* The admin API and the rules service *)

SetMatching2Access(a, access) ==
  /\ admin.step = "idle"
  /\ accounts[a] # None
  /\ accounts' = [accounts EXCEPT ![a] = access]
  /\ admin' = [step |-> "entry", account |-> a, access |-> access]
  /\ UNCHANGED <<conn, tables, rules, apply>>

SetEntryAccess ==
  LET a == admin.account IN
  /\ admin.step = "entry"
  /\ clients' = IF a \in Connected
                THEN [clients EXCEPT ![a].access = admin.access] ELSE clients
  /\ admin' = IF admin.access = "never" THEN [admin EXCEPT !.step = "slot"]
              ELSE NoRequest
  /\ UNCHANGED <<conn, pendingVersionLogins, cooldown, slots, usageTotalOnline,
                 accounts, rules, apply>>

FreeSlot ==
  /\ admin.step = "slot"
  /\ slots' = slots \ {admin.account}
  /\ admin' = NoRequest
  /\ UNCHANGED <<conn, clients, pendingVersionLogins, cooldown, usageTotalOnline,
                 accounts, rules, apply>>

ApplyRules(accepted, recheck) ==
  /\ apply.step = "idle"
  /\ rules' = accepted
  /\ apply' = [step |-> "cooldowns", recheck |-> recheck]
  /\ UNCHANGED <<conn, tables, accounts, admin>>

ClearCooldowns ==
  /\ apply.step = "cooldowns"
  /\ cooldown' = [a \in Accounts |-> None]
  /\ apply' = [apply EXCEPT !.step = IF apply.recheck THEN "recheck" ELSE "idle",
                            !.recheck = FALSE]
  /\ UNCHANGED <<conn, clients, pendingVersionLogins, slots, usageTotalOnline,
                 accounts, rules, admin>>

\* A recheck is queued on every connected session that is not exempt.
QueueRechecks ==
  /\ apply.step = "recheck"
  /\ conn' = [c \in Conns |->
       [conn[c] EXCEPT !.recheck =
          @ \/ \E a \in Accounts \ StatAgents : clients[a].conn = c /\ conn[c].registered]]
  /\ apply' = [apply EXCEPT !.step = "idle"]
  /\ UNCHANGED <<tables, accounts, rules, admin>>

-----------------------------------------------------------------------------
\* A handler, once begun, runs on.
Continue(c) ==
  \/ LoginCheckFree(c) \/ LoginAuthenticate(c)
  \/ RegisterOnline(c) \/ UsageOnLogin(c)
  \/ CheckClientVersion(c) \/ RejectClient(c)
  \/ \E start \in BOOLEAN : TryTakeMatching2Slot(c, start)
  \/ CleanupSlot(c) \/ CleanupEntry(c) \/ UsageOnLogout(c)

ConnNext(c) ==
  \/ Connect(c)
  \/ \E a \in Accounts : CmdLogin(c, a)
  \/ \E v \in Versions : CmdSetClientVersion(c, v)
  \/ VersionTimeout(c) \/ RecheckVersion(c)
  \/ CheckMatching2Access(c) \/ CmdContextStop(c)
  \/ CmdDelete(c) \/ OnDisconnected(c)
  \/ Continue(c)

Next ==
  \/ \E c \in Conns : ConnNext(c)
  \/ \E a \in Accounts : CooldownExpires(a)
  \/ \E a \in Accounts, access \in AccessLevels : SetMatching2Access(a, access)
  \/ SetEntryAccess \/ FreeSlot
  \/ \E accepted \in RuleSets, recheck \in BOOLEAN : ApplyRules(accepted, recheck)
  \/ ClearCooldowns \/ QueueRechecks

Spec == Init /\ [][Next]_vars

\* Threads run on.  An event loop serves expired timers and queued calls
\* between two packets, however many packets there are: armed timers fire and
\* a socket that was asked to close closes.
Fairness ==
  \A c \in Conns :
    /\ WF_vars(Continue(c))
    /\ SF_vars(VersionTimeout(c))
    /\ SF_vars(conn[c].closing /\ OnDisconnected(c))

FairSpec == Spec /\ Fairness

-----------------------------------------------------------------------------
(* Properties *)

\* c is a signed-in session of a, from its login to the end of its cleanup.
SessionOf(c, a) == conn[c].open /\ conn[c].authenticated /\ conn[c].account = a
HasSession(a) == \E c \in Conns : SessionOf(c, a)

\* The variables have their types.
TypeOK ==
  /\ conn \in [Conns -> Connection]
  /\ clients \in [Accounts -> [conn : Conns \cup {None}, access : Access]]
  /\ pendingVersionLogins \subseteq Accounts
  /\ cooldown \in [Accounts -> Versions \cup {None}]
  /\ slots \subseteq Accounts
  /\ usageTotalOnline \in Nat
  /\ accounts \in [Accounts -> Access \cup {None}]
  /\ rules \subseteq Versions
  /\ admin \in [step : {"idle", "entry", "slot"},
                 account : Accounts \cup {None}, access : Access]
  /\ apply \in [step : {"idle", "cooldowns", "recheck"}, recheck : BOOLEAN]

\* No session has deleted its account so far.
NoneDeleted == \A a \in Accounts : accounts[a] # None

\* Nothing that refuses an account's next login outlives the session that put
\* it there: a connected entry is that of the session it names, and a held
\* login has a session that will resolve it.
NobodyLockedOut ==
  \A a \in Accounts : accounts[a] # None =>
    /\ a \in Connected => SessionOf(clients[a].conn, a)
    /\ a \in pendingVersionLogins => \E c \in Conns :
         SessionOf(c, a) /\ ~conn[c].registered

\* Every way out gives back what the session took, but the deletion of one's own
\* account, which skips the cleanup: as long as there was none, a matchmaking slot
\* is held for a session that exists, and the live count is the number of
\* sessions shown online, but for those between the client table and the counter.
EverythingGivenBack == NoneDeleted =>
  /\ \A a \in slots : HasSession(a)
  /\ usageTotalOnline =
       Cardinality({c \in Conns : conn[c].registered /\ conn[c].step # "counting"})

\* An access change made while a login is held, or while it is being
\* registered, is never lost: once the change is through, the entry that the
\* gate consults shows what the database says, as long as it knows the account.
AccessCurrent ==
  \A a \in Connected :
    accounts[a] # None /\ ~(admin.step = "entry" /\ admin.account = a)
      => clients[a].access = StoredAccess(a)

\* A session that was refused before it was shown online is never shown
\* online afterwards, whichever timers, rechecks and new rules follow.
RejectedStaysOut ==
  [][\A c \in Conns : conn[c].rejected /\ conn'[c].open =>
       conn'[c].rejected /\ (conn'[c].registered => conn[c].registered)]_vars

\* Every held login is resolved: accepted, or rejected and the connection
\* closed, or abandoned.
HeldLoginsResolve ==
  \A a \in Accounts :
    a \in pendingVersionLogins ~> a \notin pendingVersionLogins

=============================================================================
