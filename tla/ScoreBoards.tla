----------------------------- MODULE ScoreBoards -----------------------------
(***************************************************************************)
(* One score board: its rows in the database (score_table, score), the     *)
(* ranked copy that ScoreCache keeps in memory and that every read is      *)
(* answered from, and the score data files on disk.                        *)
(*                                                                         *)
(* A handler works on the database, the cache and the files one after      *)
(* another, each step atomic (an SQL statement, a section of m_lock, a     *)
(* file operation), and other threads act in between: the sessions of the  *)
(* players, an administrator, and the service that applies scoreboards.cfg.*)
(* jobs[w] is what thread w has in hand.                                   *)
(*                                                                         *)
(* Positions and ranks count from 1; a data id of 0 is none, as in the     *)
(* code.  Boards are independent of each other, so one is modelled.        *)
(***************************************************************************)
EXTENDS Integers, FiniteSets, SequencesExt

CONSTANTS
  Devices,       \* connections of players that post scores
  Player,        \* Player[d] is the user id signed in on device d
  Keys,          \* the rows that can exist: <<userId, characterId>>
  Scores,        \* scores that are posted
  CompareDates,  \* comparedate of requests; 0 is no condition
  Configs,       \* board settings an administrator applies
  DefaultConfig, \* settings of a board created on first use
  NoBoard,       \* there is no row of score_table
  NoRow,         \* there is no row of score
  MaxTime,       \* bound on the clock
  MaxFiles,      \* bound on data file ids
  MaxBusy        \* bound on the threads at work at once

Config == [limit: Nat, force: BOOLEAN, ascending: BOOLEAN]

ASSUME ScoreConstants ==
  /\ Player \in [Devices -> Nat]
  /\ Keys \subseteq Nat \X Nat /\ IsFiniteSet(Keys) /\ Keys # {}
  /\ Scores \subseteq Int
  /\ CompareDates \subseteq Nat
  /\ Configs \subseteq Config /\ DefaultConfig \in Config
  /\ NoBoard \notin Config
  /\ NoRow \notin [score: Int, time: Nat, data: Nat]
  /\ MaxTime \in Nat \ {0} /\ MaxFiles \in Nat /\ MaxBusy \in Nat

VARIABLES
  board,     \* the board's row of score_table, or NoBoard
  rows,      \* rows[k]: k's row of score, or NoRow
  sorted,    \* the cached entries, best first
  lookup,    \* lookup[k]: position of k's entry in sorted, or 0
  files,     \* ids of the data files on disk
  nextFile,  \* ScoreFiles::m_next
  now,       \* the clock
  jobs,      \* jobs[w]: what thread w is doing
  disturbed, \* history: keys two threads have worked on at once since the start
  sunk       \* history: an entry fell or went while rows waited off the board

vars == <<board, rows, sorted, lookup, files, nextFile, now, jobs, disturbed, sunk>>

\* The administrator's request and the scoreboards service run on threads of
\* their own.
Workers == Devices \cup {"admin", "service"}

KeysOf(player) == {k \in Keys : k[1] = player}

Idle == [step |-> "idle", keys |-> {}, cfg |-> DefaultConfig, entry |-> NoRow,
         loaded |-> <<>>, doomed |-> {}]

-----------------------------------------------------------------------------
(* Order of a board, and what the database returns of it. *)

RanksBefore(a, b, ascending) ==
  \/ IF ascending THEN a.score < b.score ELSE a.score > b.score
  \/ /\ a.score = b.score
     /\ a.time < b.time \/ (a.time = b.time /\ a.key[1] < b.key[1])

Stored(k) == [key |-> k, score |-> rows[k].score, time |-> rows[k].time,
              data |-> rows[k].data]
StoredKeys == {k \in Keys : rows[k] # NoRow}

\* ORDER BY ... LIMIT rankLimit: the results there may be, for one player's
\* characters with equal score and date come in any order.
ScoresForBoard(cfg) ==
  LET all == {Stored(k) : k \in StoredKeys}
      n == IF Cardinality(all) < cfg.limit THEN Cardinality(all) ELSE cfg.limit
      Before(a, b) == RanksBefore(a, b, cfg.ascending)
  IN  {s \in [1 .. n -> all] :
         /\ \A i, j \in 1 .. n : i < j => s[i] # s[j] /\ ~Before(s[j], s[i])
         /\ \A e \in all : e \in Range(s) \/ \A i \in 1 .. n : ~Before(e, s[i])}

\* Mutant: only the rows that are shown count.
AllDataIds_Shown == {rows[k].data : k \in {j \in StoredKeys : lookup[j] # 0}} \ {0}
AllDataIds == {rows[k].data : k \in StoredKeys} \ {0}

-----------------------------------------------------------------------------
(* The cached table. *)

\* Positions from `from` on are written to the index, the others stay.
Reindex(s, index, from) ==
  [k \in Keys |->
     IF \E i \in from .. Len(s) : s[i].key = k
     THEN CHOOSE i \in from .. Len(s) : s[i].key = k
     ELSE index[k]]

\* The index is cleared and rebuilt.
IndexOf(s) == Reindex(s, [k \in Keys |-> 0], 1)

\* std::lower_bound: the point where the entries that rank before e end.  When
\* the entries are not in the order asked for (the sort mode has changed), a
\* binary search ends at some point that looks like it.
LowerBounds(s, e, ascending) ==
  {p \in 1 .. Len(s) + 1 :
     /\ p = 1 \/ RanksBefore(s[p - 1], e, ascending)
     /\ p = Len(s) + 1 \/ ~RanksBefore(s[p], e, ascending)}

\* The table without k's entry, and with e at position p of that.
Without(k) ==
  LET at == lookup[k]
      s == RemoveAt(sorted, at)
  IN  IF at = 0 THEN [sorted |-> sorted, lookup |-> lookup]
      ELSE [sorted |-> s, lookup |-> Reindex(s, [lookup EXCEPT ![k] = 0], at)]

With(table, e, p, limit) ==
  LET removedAt == lookup[e.key]
      from == IF removedAt # 0 /\ removedAt < p + 1 THEN removedAt ELSE p + 1
      s == InsertAt(table.sorted, p, e)
      index == Reindex(s, [table.lookup EXCEPT ![e.key] = p], from)
  IN  IF Len(s) > limit
      THEN [sorted |-> Front(s), lookup |-> [index EXCEPT ![Last(s).key] = 0]]
      ELSE [sorted |-> s, lookup |-> index]

\* Mutant: a full board takes nobody.
Fits_NotFull(table, p, limit) == Len(table.sorted) < limit
Fits(table, p, limit) == Len(table.sorted) < limit \/ p <= limit

\* Mutant: a score that does not make the board leaves it as it is.
Inserted_Refused(e, cfg) ==
  LET table == Without(e.key)
  IN  {IF Fits(table, p, cfg.limit) THEN With(table, e, p, cfg.limit)
       ELSE [sorted |-> sorted, lookup |-> lookup] :
         p \in LowerBounds(table.sorted, e, cfg.ascending)}

\* The tables there may be after e is put in place of the player's earlier entry.
Inserted(e, cfg) ==
  LET table == Without(e.key)
  IN  {IF Fits(table, p, cfg.limit) THEN With(table, e, p, cfg.limit) ELSE table :
         p \in LowerBounds(table.sorted, e, cfg.ascending)}

\* The shared rank shown beside the rank: that of the first entry of the same score.
SharedRank(i) ==
  CHOOSE j \in 1 .. i :
    /\ \A m \in j .. i : sorted[m].score = sorted[i].score
    /\ j = 1 \/ sorted[j - 1].score # sorted[i].score

ContainsScoreWithNoData(k) == lookup[k] # 0 /\ sorted[lookup[k]].data = 0

-----------------------------------------------------------------------------
Init ==
  /\ board = NoBoard
  /\ rows = [k \in Keys |-> NoRow]
  /\ sorted = <<>>
  /\ lookup = [k \in Keys |-> 0]
  /\ files = {}
  /\ nextFile = 1
  /\ now = 1
  /\ jobs = [w \in Workers |-> Idle]
  /\ disturbed = {}
  /\ sunk = FALSE

database == <<board, rows>>
cache == <<sorted, lookup>>
disk == <<files, nextFile>>

\* Thread w begins a job; the keys another thread is busy with are disturbed.
Begin(w, job) ==
  /\ jobs[w] = Idle
  /\ Cardinality({v \in Workers : jobs[v] # Idle}) < MaxBusy
  /\ jobs' = [jobs EXCEPT ![w] = job]
  /\ disturbed' = disturbed \cup
       (job.keys \cap UNION {jobs[v].keys : v \in Workers \ {w}})

\* Thread w goes on with `job`, or is done.
Continue(w, job) ==
  /\ jobs' = [jobs EXCEPT ![w] = job]
  /\ UNCHANGED disturbed

At(w, step) == jobs[w].step = step
To(w, step) == [jobs[w] EXCEPT !.step = step]

\* Rows that are not on the cached board, k's aside.
OffBoard(keys) == \E k \in StoredKeys \ keys : lookup[k] = 0

-----------------------------------------------------------------------------
(* Posting a score. *)

\* GetBoard: the settings are read; a board that is missing is created first.
CmdRecordScore(d, k) ==
  /\ k \in KeysOf(Player[d])
  /\ Begin(d, [Idle EXCEPT !.step = IF board = NoBoard THEN "create" ELSE "record",
                           !.keys = {k},
                           !.cfg = IF board = NoBoard THEN DefaultConfig ELSE board])
  /\ UNCHANGED <<database, cache, disk, now, sunk>>

\* The insert overwrites settings that somebody else wrote meanwhile.
CreateBoard(d) ==
  /\ At(d, "create")
  /\ Continue(d, To(d, "board"))
  /\ board' = DefaultConfig
  /\ UNCHANGED <<rows, cache, disk, now, sunk>>

GetCreatedBoard(d) ==
  /\ At(d, "board")
  /\ Continue(d, [To(d, "record") EXCEPT !.cfg = board])
  /\ UNCHANGED <<database, cache, disk, now, sunk>>

\* The upsert's WHERE: a better or equal score unless the board is forced, and
\* a stored score no newer than the date of the request.
Accepts(k, cfg, score, compareDate) ==
  rows[k] # NoRow =>
    /\ cfg.force \/ IF cfg.ascending THEN score <= rows[k].score ELSE score >= rows[k].score
    /\ compareDate # 0 => rows[k].time <= compareDate

RecordScore(d) ==
  /\ At(d, "record")
  /\ \E k \in jobs[d].keys, score \in Scores, compareDate \in CompareDates,
     time \in {now, now + 1} \cap 0 .. MaxTime :
    LET entry == [key |-> k, score |-> score, time |-> time, data |-> 0]
    IN  /\ now' = time
        /\ IF Accepts(k, jobs[d].cfg, score, compareDate)
           THEN /\ rows' = [rows EXCEPT ![k] = [score |-> score, time |-> time, data |-> 0]]
                /\ Continue(d, [To(d, "insert") EXCEPT !.entry = entry])
           ELSE /\ Continue(d, Idle)
                /\ UNCHANGED rows
        /\ UNCHANGED <<board, cache, disk, sunk>>

InsertScore(d) ==
  LET e == jobs[d].entry
      cfg == jobs[d].cfg
      old == lookup[e.key]
  IN  /\ At(d, "insert")
      /\ Continue(d, Idle)
      /\ \E table \in Inserted(e, cfg) :
           sorted' = table.sorted /\ lookup' = table.lookup
      /\ sunk' = (sunk \/ /\ old # 0
                          /\ RanksBefore(sorted[old], e, cfg.ascending)
                          /\ OffBoard({e.key}))
      /\ UNCHANGED <<database, disk, now>>

-----------------------------------------------------------------------------
(* Attaching data to a score. *)

\* The score is looked up in the cache, then the file is written: nobody else
\* knows its id yet, so the two are one step.
CmdRecordScoreData(d, k) ==
  /\ k \in KeysOf(Player[d])
  /\ board # NoBoard
  /\ ContainsScoreWithNoData(k)
  /\ nextFile <= MaxFiles
  /\ Begin(d, [Idle EXCEPT !.step = "attach", !.keys = {k},
                           !.entry = [sorted[lookup[k]] EXCEPT !.data = nextFile]])
  /\ files' = files \cup {nextFile}
  /\ nextFile' = nextFile + 1
  /\ UNCHANGED <<database, cache, now, sunk>>

\* Whatever entry the player has now gets the data.
SetGameData(d) ==
  LET e == jobs[d].entry
      i == lookup[e.key]
  IN  /\ At(d, "attach")
      /\ IF i # 0
         THEN /\ sorted' = [sorted EXCEPT ![i].data = e.data]
              /\ Continue(d, To(d, "link"))
              /\ UNCHANGED files
         ELSE /\ files' = files \ {e.data}
              /\ Continue(d, Idle)
              /\ UNCHANGED sorted
      /\ UNCHANGED <<database, lookup, nextFile, now, sunk>>

SetScoreDataId(d) ==
  LET e == jobs[d].entry
  IN  /\ At(d, "link")
      /\ Continue(d, Idle)
      /\ rows' = IF rows[e.key] # NoRow /\ rows[e.key].score = e.score
                 THEN [rows EXCEPT ![e.key].data = e.data] ELSE rows
      /\ UNCHANGED <<board, cache, disk, now, sunk>>

-----------------------------------------------------------------------------
(* Removing scores: one, by an administrator, or those of an account, by   *)
(* an administrator or by its owner.                                       *)

DataIds(keys) == {rows[k].data : k \in keys \cap StoredKeys} \ {0}

DeleteScore(k) ==
  /\ rows[k] # NoRow
  /\ Begin("admin", [Idle EXCEPT !.step = "delete", !.keys = {k}, !.doomed = DataIds({k})])
  /\ UNCHANGED <<database, cache, disk, now, sunk>>

DeleteAccount(w, player) ==
  /\ w = "admin" \/ (w \in Devices /\ Player[w] = player)
  /\ Begin(w, [Idle EXCEPT !.step = "purge", !.keys = KeysOf(player),
                           !.doomed = DataIds(KeysOf(player))])
  /\ UNCHANGED <<database, cache, disk, now, sunk>>

\* A single score that is gone by now ends the request with 404.
DeleteRows(w) ==
  /\ At(w, "delete") \/ At(w, "purge")
  /\ Continue(w, IF At(w, "delete") /\ jobs[w].keys \cap StoredKeys = {}
                 THEN Idle ELSE To(w, "unlink"))
  /\ rows' = [k \in Keys |-> IF k \in jobs[w].keys THEN NoRow ELSE rows[k]]
  /\ UNCHANGED <<board, cache, disk, now, sunk>>

RemoveFiles(w) ==
  /\ At(w, "unlink")
  /\ Continue(w, To(w, "evict"))
  /\ files' = files \ jobs[w].doomed
  /\ UNCHANGED <<database, cache, nextFile, now, sunk>>

\* The entries of other keys than these, in their order.
Others(s, keys) ==
  LET stay == {i \in DOMAIN s : s[i].key \notin keys}
      n == Cardinality(stay)
  IN  {[i \in 1 .. n |-> s[at[i]]] :
         at \in {f \in [1 .. n -> stay] : \A i, j \in 1 .. n : i < j => f[i] < f[j]}}

\* Mutant: the entries below keep their old positions.
RemoveEntries_OldIndex(w) ==
  LET keys == jobs[w].keys
  IN  /\ At(w, "evict")
      /\ Continue(w, Idle)
      /\ sorted' \in Others(sorted, keys)
      /\ lookup' = [k \in Keys |-> IF k \in keys THEN 0 ELSE lookup[k]]
      /\ sunk' = (sunk \/ (sorted' # sorted /\ OffBoard(keys)))
      /\ UNCHANGED <<database, disk, now>>

\* RemoveEntry and RemoveUser.  The cache is not filled up from the table.
RemoveEntries(w) ==
  LET keys == jobs[w].keys
  IN  /\ At(w, "evict")
      /\ Continue(w, Idle)
      /\ sorted' \in Others(sorted, keys)
      /\ lookup' = IndexOf(sorted')
      /\ sunk' = (sunk \/ (sorted' # sorted /\ OffBoard(keys)))
      /\ UNCHANGED <<database, disk, now>>

-----------------------------------------------------------------------------
(* New settings, and the start of the server. *)

SetBoard(cfg) ==
  /\ Begin("service", [Idle EXCEPT !.step = "read", !.keys = Keys, !.cfg = cfg])
  /\ board' = cfg
  /\ UNCHANGED <<rows, cache, disk, now, sunk>>

ReadScores ==
  /\ At("service", "read")
  /\ \E scores \in ScoresForBoard(jobs["service"].cfg) :
       Continue("service", [To("service", "load") EXCEPT !.loaded = scores])
  /\ UNCHANGED <<database, cache, disk, now, sunk>>

LoadTable ==
  /\ At("service", "load")
  /\ Continue("service", Idle)
  /\ sorted' = jobs["service"].loaded
  /\ lookup' = IndexOf(sorted')
  /\ sunk' = FALSE
  /\ UNCHANGED <<database, disk, now>>

\* The server stops wherever it is and starts again.  The saved settings are
\* written to the board, the next file id is read off the directory, the cache
\* is loaded and files that no row names are removed, before any session exists.
Restart ==
  /\ jobs' = [w \in Workers |-> Idle]
  /\ \E cfg \in Configs \cup {board} :
       /\ board' = cfg
       /\ IF cfg = NoBoard THEN sorted' = <<>> ELSE sorted' \in ScoresForBoard(cfg)
  /\ lookup' = IndexOf(sorted')
  /\ nextFile' \in {f + 1 : f \in files \cup {0}} /\ \A f \in files : f < nextFile'
  /\ files' = files \cap AllDataIds
  /\ disturbed' = {}
  /\ sunk' = FALSE
  /\ UNCHANGED <<rows, now>>

Next ==
  \/ \E d \in Devices :
       \/ \E k \in Keys : CmdRecordScore(d, k) \/ CmdRecordScoreData(d, k)
       \/ CreateBoard(d) \/ GetCreatedBoard(d) \/ RecordScore(d) \/ InsertScore(d)
       \/ SetGameData(d) \/ SetScoreDataId(d)
  \/ \E k \in Keys : DeleteScore(k)
  \/ \E w \in Workers, k \in Keys : DeleteAccount(w, k[1])
  \/ \E w \in Workers : DeleteRows(w) \/ RemoveFiles(w) \/ RemoveEntries(w)
  \/ \E cfg \in Configs : SetBoard(cfg)
  \/ ReadScores
  \/ LoadTable
  \/ Restart

Spec == Init /\ [][Next]_vars

-----------------------------------------------------------------------------
Row == [score: Scores, time: 0 .. MaxTime, data: 0 .. MaxFiles]
Entry == [key: Keys, score: Scores, time: 0 .. MaxTime, data: 0 .. MaxFiles]

\* Every variable has its type, and no position of the index is past the end
\* of the table (ScoreCache would read beyond the vector).
TypeOK ==
  /\ board \in Config \cup {NoBoard}
  /\ rows \in [Keys -> Row \cup {NoRow}]
  /\ sorted \in Seq(Entry)
  /\ lookup \in [Keys -> 0 .. Len(sorted)]
  /\ files \subseteq 1 .. MaxFiles
  /\ nextFile \in 1 .. MaxFiles + 1
  /\ now \in 0 .. MaxTime
  /\ jobs \in [Workers ->
       [step: {"idle", "create", "board", "record", "insert", "attach", "link",
               "delete", "purge", "unlink", "evict", "read", "load"},
        keys: SUBSET Keys, cfg: Config, entry: Entry \cup {NoRow},
        loaded: Seq(Entry), doomed: SUBSET (1 .. MaxFiles)]]
  /\ disturbed \subseteq Keys
  /\ sunk \in BOOLEAN

\* Whatever threads overlap and whatever settings they carry, the index and
\* the sorted entries say the same: each key has at most one entry and the
\* index points to it (Reindex, InsertScore and the two removals keep them by hand).
LookupExact ==
  /\ \A i \in DOMAIN sorted : lookup[sorted[i].key] = i
  /\ \A k \in Keys : lookup[k] # 0 => sorted[lookup[k]].key = k

\* Uploads, deletions, crashes and restarts in any order never leave a row
\* with a data file that is gone or that another row has too
\* (CmdRecordScoreData, DeleteAccountAndArtifacts, CleanOrphans).
DataIdsSound ==
  \A k \in StoredKeys : rows[k].data # 0 =>
    /\ rows[k].data \in files
    /\ \A other \in StoredKeys \ {k} : rows[other].data # rows[k].data

Quiet(k) == k \notin disturbed /\ \A w \in Workers : k \notin jobs[w].keys

\* A player whose score no two threads have worked on at once is shown with
\* the row the database has, data included, or not at all: a refused, dropped or
\* deleted score leaves no entry behind.
CacheFollowsTable ==
  \A k \in Keys : Quiet(k) /\ lookup[k] # 0 =>
    rows[k] # NoRow /\ sorted[lookup[k]] = Stored(k)

\* Nobody is at work, nothing was disturbed, and no entry fell below a row that
\* had been dropped.
Settled == /\ \A w \in Workers : jobs[w] = Idle
           /\ disturbed = {} /\ ~sunk /\ board # NoBoard

\* Then the cached board is the top of the table: in its order, within its
\* limit, and no row left out ranks before one that is shown, although
\* every score was put in its place one by one; and the shared rank is one
\* more than the number of better scores there are.
BoardIsTop == Settled =>
  /\ Len(sorted) <= board.limit
  /\ \A i, j \in DOMAIN sorted :
       i < j => ~RanksBefore(sorted[j], sorted[i], board.ascending)
  /\ \A k \in StoredKeys : lookup[k] = 0 =>
       /\ Len(sorted) = board.limit
       /\ \A i \in DOMAIN sorted : ~RanksBefore(Stored(k), sorted[i], board.ascending)
  /\ \A i \in DOMAIN sorted :
       SharedRank(i) = 1 + Cardinality({k \in StoredKeys :
         IF board.ascending THEN rows[k].score < sorted[i].score
                            ELSE rows[k].score > sorted[i].score})

\* Data is attached to a recorded score once: until the score is replaced or
\* deleted, its data id stays (ErrorType::ScoreHasData), restarts included.
DataAttachedOnce ==
  [][\A k \in Keys \ (disturbed \cup disturbed') :
       rows[k] # NoRow /\ rows[k].data # 0 /\ rows'[k] # NoRow
         => rows'[k].data \in {0, rows[k].data}]_vars

\* A player's score is one entry with at most one data file, in the index, in the
\* table and on disk, whatever threads, administrators and restarts do to it.
ScoresAndDataSound == [](LookupExact /\ DataIdsSound) /\ DataAttachedOnce
=============================================================================
