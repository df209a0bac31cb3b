----------------------------- MODULE ConfigFiles -----------------------------
(***************************************************************************)
(* The configuration files that are edited while the server runs:          *)
(* worlds.cfg, scoreboards.cfg and clientversions.cfg.  Each has a service *)
(* of its own, with its own mutex, that reads, saves and reloads the file; *)
(* they share nothing, so a behaviour follows one of them (config).        *)
(*                                                                         *)
(* A request carries the revision its editor has read.  Handle holds the   *)
(* service's mutex to its end, so that one request is served at a time,    *)
(* but a save looks at the file several times before it replaces it, and   *)
(* a text editor, which honours no lock, may write in between.  With the   *)
(* server stopped, the toolbox writes worlds.cfg through the same          *)
(* transaction.                                                            *)
(*                                                                         *)
(* A text is what its lines say, a function from what is configured (a     *)
(* world of a matching group, a board of a game, a rule) to its setting,   *)
(* or Garbled if the parser refuses it; a revision is a hash of the text   *)
(* and is modelled by the text.  Title groups are left out: the key of a   *)
(* session is fixed when it signs in, so they only tell which group later  *)
(* sessions use.                                                           *)
(***************************************************************************)
EXTENDS Integers, Sequences, TLC

CONSTANTS
  Services,     \* the services that are followed
  Texts,        \* texts the parsers accept
  Garbled,      \* a text they refuse
  NoFile,       \* revision "missing"
  NoTransaction,
  ServerId,     \* MatchingSessionState::serverId, which nothing ever sets
  DefaultRules  \* ClientVersionRules::DefaultFileContent

ConfigKeys == UNION {DOMAIN t : t \in Texts}
Blank == <<>>

ASSUME ConfigConstants ==
  /\ Services \subseteq {"worlds", "scoreboards", "clientversions"}
  /\ \A t \in Texts : t \in [DOMAIN t -> Nat] /\ DOMAIN t \subseteq STRING \X Nat
  /\ Blank \in Texts /\ DefaultRules \in Texts
  /\ Garbled \notin Texts /\ NoFile \notin Texts \cup {Garbled}

Files == Texts \cup {Garbled, NoFile}

VARIABLES
  config,   \* the service whose file this is
  file,     \* the file on disk
  bak,      \* the backup beside it
  phase,    \* of the server: "down", "loaded" (the settings are read), "up"
  txn,      \* the save or reload in hand, or NoTransaction
  active,   \* m_activeContent, m_activeRevision
  inUse,    \* the settings in force: worldConfigs, score_table, m_rules
  rooms,    \* rooms: the world each is in and the server id it carries
  edited    \* whether a text editor wrote since the transaction last looked

configVars == <<config, file, bak, phase, txn, active, inUse, rooms, edited>>
world == <<config, inUse, rooms>>

\* What a text configures; a missing or refused file configures nothing.
Parsed(text) == IF text \in Texts THEN text ELSE Blank

--------------------------------------------------------------------------
(* Start. *)

\* ScoreboardsService and ClientVersionRules read the file when the server
\* starts, before their services read it again; a missing rules file is
\* created, and settings of boards that are no longer listed stay.
LoadScoreboardsCfg ==
  /\ config = "scoreboards" /\ phase = "down"
  /\ inUse' = Parsed(file) @@ inUse /\ phase' = "loaded"
  /\ UNCHANGED <<config, file, bak, txn, active, rooms, edited>>
LoadRules ==
  /\ config = "clientversions" /\ phase = "down"
  /\ file' = IF file = NoFile THEN DefaultRules ELSE file
  /\ inUse' = Parsed(file') /\ phase' = "loaded"
  /\ UNCHANGED <<config, bak, txn, active, rooms, edited>>
StartAfterLoad ==
  /\ phase = "loaded" /\ phase' = "up" /\ active' = file
  /\ UNCHANGED <<world, file, bak, txn, edited>>

\* WorldsService::Start refuses a file with an error, and waits for no
\* toolbox: m_runningLock is the toolbox's while it writes.
StartWorlds ==
  /\ config = "worlds" /\ phase = "down" /\ txn = NoTransaction
  /\ file # Garbled
  /\ phase' = "up" /\ active' = file /\ inUse' = Parsed(file)
  /\ UNCHANGED <<config, file, bak, txn, rooms, edited>>

\* The process ends, in a request or between two: rooms and settings in
\* memory are gone, the score tables and the files stay.  QSaveFile replaces
\* a file by a rename, so that no half of a text is ever left.
Crash ==
  /\ phase # "down" /\ phase' = "down"
  /\ txn' = NoTransaction /\ active' = NoFile /\ rooms' = {}
  /\ inUse' = IF config = "scoreboards" THEN inUse ELSE Blank
  /\ UNCHANGED <<config, file, bak, edited>>

--------------------------------------------------------------------------
(* A request. *)

\* Handle up to the parse: the file is read, a request with another revision
\* than the file's gets 409, a text the parser refuses 422, a read that fails
\* an error; none of them changes anything, so only requests that pass are steps.
Handle(op, base, text, apply) ==
  /\ phase = "up" /\ txn = NoTransaction
  /\ base = file
  /\ text = IF op = "save" THEN text ELSE file
  /\ text \in Texts
  /\ txn' = [by |-> "server", op |-> op, base |-> base, text |-> text,
             apply |-> apply \/ op = "reload", step |-> "decide"]
  /\ edited' = FALSE
  /\ UNCHANGED <<world, file, bak, phase, active>>

Request == \E op \in {"save", "reload"}, base \in Files, text \in Files, apply \in BOOLEAN :
  Handle(op, base, text, apply)
WorldsRequest == config = "worlds" /\ Request
ScoreboardsRequest == config = "scoreboards" /\ Request
ClientVersionsRequest == config = "clientversions" /\ Request

End == txn' = NoTransaction
Go(step) == txn' = [txn EXCEPT !.step = step]

OfGroup(text, group) == {k \in DOMAIN text : k[1] = group}

\* A room stays visible if its world is configured with the server id the
\* room carries, or if its group has no worlds before nor after.
Visible(text, room) ==
  LET candidate == OfGroup(text, room.key[1])
  IN  IF candidate = {} THEN OfGroup(inUse, room.key[1]) = {}
      ELSE room.key \in candidate /\ text[room.key] = room.server

\* roomsLock is taken here and held to the end of the request.
Decide ==
  /\ txn # NoTransaction /\ txn.step = "decide"
  /\ IF config = "worlds" /\ txn.apply /\ \E r \in rooms : ~Visible(txn.text, r)
     THEN End
     ELSE Go(IF txn.op = "save" THEN "prepare" ELSE "apply")
  /\ UNCHANGED <<world, file, bak, phase, active, edited>>

RoomsLocked == txn # NoTransaction /\ config = "worlds" /\ txn.step # "decide"

--------------------------------------------------------------------------
(* WorldsFileTransaction::write. *)

AfterWriting == IF txn.apply THEN Go("apply") ELSE End

\* The first comparison, and the backup of what the file holds.
Backup ==
  /\ txn # NoTransaction /\ txn.step = "prepare"
  /\ IF file # txn.base THEN End /\ bak' = bak
     ELSE IF file = txn.text THEN AfterWriting /\ bak' = bak
     ELSE Go("recheck") /\ bak' = IF file = NoFile THEN bak ELSE file
  /\ UNCHANGED <<world, file, phase, active, edited>>

\* Mutant: the file is not read again after the backup.
Recheck_Skipped ==
  /\ txn # NoTransaction /\ txn.step = "recheck"
  /\ Go("commit") /\ edited' = FALSE
  /\ UNCHANGED <<world, file, bak, phase, active>>

\* The file is read once more: a text editor may have been at work.
Recheck ==
  /\ txn # NoTransaction /\ txn.step = "recheck"
  /\ IF file = txn.base THEN Go("commit") /\ edited' = FALSE
     ELSE End /\ edited' = edited
  /\ UNCHANGED <<world, file, bak, phase, active>>

ReplaceFile ==
  /\ txn # NoTransaction /\ txn.step = "commit"
  /\ file' = txn.text /\ AfterWriting
  /\ UNCHANGED <<world, bak, phase, active, edited>>

\* A read, a backup or a write that fails ends the request.
Fail ==
  /\ txn # NoTransaction /\ txn.step \in {"prepare", "recheck", "commit"}
  /\ End
  /\ UNCHANGED <<world, file, bak, phase, active, edited>>

--------------------------------------------------------------------------
(* The new settings are put in force. *)

Applied == End /\ active' = txn.text /\ UNCHANGED <<config, file, bak, phase, rooms, edited>>
Applying == txn # NoTransaction /\ txn.step = "apply"

ApplyWorlds == Applying /\ config = "worlds" /\ inUse' = txn.text /\ Applied
ApplyClientVersions == Applying /\ config = "clientversions" /\ inUse' = txn.text /\ Applied

\* Board by board, each a statement of its own; one that fails is skipped.
ApplyScoreboards ==
  /\ Applying /\ config = "scoreboards"
  /\ \E done \in SUBSET DOMAIN txn.text :
       inUse' = [k \in done |-> txn.text[k]] @@ inUse
  /\ Applied

--------------------------------------------------------------------------
(* Others at work. *)

\* CmdCreateRoom takes the world the client names, configured or not.
CreateRoom ==
  /\ phase = "up" /\ config = "worlds" /\ ~RoomsLocked
  /\ \E k \in ConfigKeys : rooms' = rooms \cup {[key |-> k, server |-> ServerId]}
  /\ UNCHANGED <<config, file, bak, phase, txn, active, inUse, edited>>
DestroyRoom ==
  /\ ~RoomsLocked
  /\ \E r \in rooms : rooms' = rooms \ {r}
  /\ UNCHANGED <<config, file, bak, phase, txn, active, inUse, edited>>

\* CmdGetWorldInfoList: the configured worlds of the caller's group, with the
\* server id it asks for; with none configured, those that have rooms, or
\* world 1.  (Worlds whose rooms are gone stay listed; that is left out.)
WorldInfoList(group, server) ==
  LET configs == OfGroup(inUse, group)
      used == {r.key : r \in {s \in rooms : s.key[1] = group}}
  IN  IF configs # {} THEN {k \in configs : server = 0 \/ inUse[k] = server}
      ELSE IF used # {} THEN used ELSE {<<group, 1>>}

\* A text editor, which knows no lock and no revision.
TextEditor ==
  /\ \E text \in Files : text # file /\ file' = text
  /\ edited' = TRUE
  /\ UNCHANGED <<world, bak, phase, txn, active>>

\* The toolbox with the server stopped; it holds the running lock meanwhile.
Toolbox ==
  /\ config = "worlds" /\ phase = "down" /\ txn = NoTransaction
  /\ \E base \in Files, text \in Texts :
       txn' = [by |-> "toolbox", op |-> "save", base |-> base, text |-> text,
               apply |-> FALSE, step |-> "prepare"]
  /\ edited' = FALSE
  /\ UNCHANGED <<world, file, bak, phase, active>>

--------------------------------------------------------------------------

ConfigInit ==
  /\ config \in Services
  /\ file \in Files /\ bak = NoFile
  /\ phase = "down" /\ txn = NoTransaction /\ active = NoFile
  /\ inUse = Blank /\ rooms = {} /\ edited = FALSE

ConfigNext ==
  \/ LoadScoreboardsCfg \/ LoadRules \/ StartAfterLoad \/ StartWorlds \/ Crash
  \/ WorldsRequest \/ ScoreboardsRequest \/ ClientVersionsRequest
  \/ Decide \/ Backup \/ Recheck \/ ReplaceFile \/ Fail
  \/ ApplyWorlds \/ ApplyScoreboards \/ ApplyClientVersions
  \/ CreateRoom \/ DestroyRoom \/ TextEditor \/ Toolbox

ConfigSpec == ConfigInit /\ [][ConfigNext]_configVars

--------------------------------------------------------------------------

Transactions ==
  [by : {"server", "toolbox"}, op : {"save", "reload"}, base : Files, text : Texts,
   apply : BOOLEAN, step : {"decide", "prepare", "recheck", "commit", "apply"}]

\* Types; only a stopped server leaves the file to the toolbox, and the room
\* indexes and settings in memory belong to a running one.
ConfigTyped ==
  /\ config \in Services /\ {file, bak, active} \subseteq Files
  /\ phase \in {"down", "loaded", "up"} /\ edited \in BOOLEAN
  /\ txn \in Transactions \cup {NoTransaction}
  /\ txn # NoTransaction => ((txn.by = "server") <=> (phase = "up"))
  /\ rooms \subseteq [key : ConfigKeys, server : {ServerId}]
  /\ phase # "up" => rooms = {}

\* A reload never takes a room's world off the world list of its own players
\* (worlds_service.cpp:111: the check under roomsLock before the maps swap).
KeepsRooms ==
  \A r \in rooms \cap rooms' :
    r.key \in WorldInfoList(r.key[1], r.server) => (r.key \in WorldInfoList(r.key[1], r.server))'

\* A save replaces the text its editor had read, and leaves that text in the
\* backup, unless a text editor wrote after the last look
\* (worldsstore.cpp:84: the comparisons before the file is replaced).
ReplacesWhatWasRead ==
  file' # file /\ txn' # txn /\ ~edited => file = txn.base /\ (file # NoFile => bak = file)

\* Both, of every step.
ConfigSound == [][KeepsRooms /\ ReplacesWhatWasRead]_configVars
=============================================================================
