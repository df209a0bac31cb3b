------------------------------ MODULE Trophies ------------------------------
(***************************************************************************)
(* Trophies: games report unlocks one by one or upload all they hold,      *)
(* operators import the configuration of a game and revoke unlocks, and    *)
(* three pages add up what was earned.  (cmd_trophy.cpp, trophy_config.cpp,*)
(* the trophies of database.cpp and stats_server.cpp, and the routes of    *)
(* admin_api.cpp and member_api.cpp)                                       *)
(*                                                                         *)
(* A player's commands run on the thread of its session; the admin API and *)
(* the statistics server run on the main thread.  Each thread has a        *)
(* connection of its own, and SQLite lets one of them write at a time.     *)
(***************************************************************************)
EXTENDS Integers, FiniteSets, SequencesExt

CONSTANTS
  Gamers,
  Games,      \* communication ids
  TrophyIds,        \* the trophy ids that come up, some of them out of range
  Stamps,     \* dates that games send; 0 stands for none
  Uploads,    \* Uploads[g]: what games hold of g, as sequences of [id, stamp]
  Configs,    \* TROP.XML files, as sequences of [id, grade, named]
  MainThread, NoWork, Nothing,
  MaxTrophyId, MaxTrophiesPerSync, RankingLimit, m_cacheLife,
  MaxMoments     \* bound on the clock

Grades == {"B", "S", "G", "P"}
ValidTrophyId(id) == id >= 0 /\ id < MaxTrophyId

ASSUME TrophyConstants ==
  /\ TrophyIds \subseteq Int /\ Stamps \subseteq Nat /\ MaxMoments \in Nat
  /\ MainThread \notin Gamers /\ Nothing \notin Nat
  /\ {MaxTrophyId, MaxTrophiesPerSync, RankingLimit, m_cacheLife} \subseteq Nat \ {0}
  /\ \A g \in Games : Uploads[g] \subseteq Seq([id: TrophyIds, stamp: Nat])
  /\ \A c \in Configs : \A r \in Range(c) : r.id \in TrophyIds

VARIABLES
  standing,     \* standing[p]: "open", "banned" or "deleted"
  earned,       \* user_trophies: earned[<<p, g, id>>] is the date, or Nothing
  meta,         \* trophy_meta: meta[<<g, id>>] is the grade, "" if unknown, or Nothing
  transaction,  \* the transaction that has the write lock, or NoWork
  pending,      \* pending[w]: what a thread is at, or NoWork
  cache,        \* the ranking of m_cache, by its dates only, or Nothing
  first,        \* history: the date a trophy was first recorded with since it was revoked
  outcome,      \* the answer of this step
  moment

trophyVars == <<standing, earned, meta, transaction, pending, cache, first, outcome, moment>>

Workers == Gamers \cup {MainThread}
Valid == {id \in TrophyIds : ValidTrophyId(id)}
TrophyKeys == Gamers \X Games \X Valid
MetaKeys == Games \X {id \in TrophyIds : id >= 0}
NoOutcome == [kind |-> "none"]  \* nothing, or an error

\* ShadNetTimestamp counts microseconds since the year 1, games send seconds since 1970:
\* all that matters is that the first are later than any of the second.
ShadNetTimestamp == 100 + moment
EarnedAt(stamp) == IF stamp > 0 THEN stamp ELSE ShadNetTimestamp

-----------------------------------------------------------------------------
(* The rows of user_trophies. *)

\* Mutant: INSERT OR REPLACE.
InsertRow_Replace(table, k, date) == [table EXCEPT ![k] = date]

\* INSERT OR IGNORE.
InsertRow(table, k, date) == [table EXCEPT ![k] = IF @ = Nothing THEN date ELSE @]

\* An insertion for an account that is gone violates its foreign key.
HasAccount(p) == standing[p] # "deleted"

UnlockTrophy(p, g, id, stamp) ==
  /\ pending[p] = NoWork
  /\ IF ~ValidTrophyId(id)
     THEN outcome' = NoOutcome /\ UNCHANGED <<earned, first>>
     ELSE /\ transaction = NoWork
          /\ IF ~HasAccount(p)
             THEN outcome' = NoOutcome /\ UNCHANGED <<earned, first>>
             ELSE /\ earned' = InsertRow(earned, <<p, g, id>>, EarnedAt(stamp))
                  /\ first' = [first EXCEPT ![<<p, g, id>>] =
                                 IF @ = Nothing THEN EarnedAt(stamp) ELSE @]
                  /\ outcome' = NoOutcome
  /\ UNCHANGED <<standing, meta, transaction, pending, cache, moment>>

\* Nothing is recorded unless the whole upload is in order.  An empty upload is stored
\* without a transaction.
SyncTrophies(p, g, upload) ==
  /\ pending[p] = NoWork
  /\ IF Len(upload) > MaxTrophiesPerSync \/ \E r \in Range(upload) : ~ValidTrophyId(r.id)
     THEN outcome' = NoOutcome /\ UNCHANGED pending
     ELSE /\ pending' = [pending EXCEPT ![p] =
               [game |-> g,
                rows |-> [i \in DOMAIN upload |->
                            [id |-> upload[i].id, date |-> EarnedAt(upload[i].stamp)]],
                stored |-> upload = <<>>,
                revoked |-> {}]]
          /\ outcome' = NoOutcome
  /\ UNCHANGED <<standing, earned, meta, transaction, cache, first, moment>>

\* The write lock comes with the first statement.
BeginSync(p) ==
  /\ pending[p] # NoWork /\ ~pending[p].stored /\ transaction = NoWork
  /\ transaction' = [by |-> p, left |-> pending[p].rows, table |-> earned]
  /\ outcome' = NoOutcome
  /\ UNCHANGED <<standing, earned, meta, pending, cache, first, moment>>

\* The command fails; any statement may.
RollBack(w) ==
  /\ transaction' = NoWork
  /\ pending' = [pending EXCEPT ![w] = NoWork]
  /\ outcome' = NoOutcome
  /\ UNCHANGED <<standing, earned, meta, cache, first, moment>>

InsertTrophy(p) ==
  /\ transaction # NoWork /\ transaction.by = p /\ transaction.left # <<>>
  /\ HasAccount(p)
  /\ LET k == <<p, pending[p].game, Head(transaction.left).id>> IN
     transaction' = [transaction EXCEPT !.left = Tail(@),
                                        !.table = InsertRow(@, k, Head(transaction.left).date)]
  /\ outcome' = NoOutcome
  /\ UNCHANGED <<standing, earned, meta, pending, cache, first, moment>>

\* The date of a trophy that was not there is that of its first row in the upload.
FirstDates(p) ==
  [k \in TrophyKeys |->
     LET rows == pending[p].rows
         at == {i \in DOMAIN rows : k = <<p, pending[p].game, rows[i].id>>}
     IN  IF first[k] = Nothing /\ at # {} THEN rows[Min(at)].date ELSE first[k]]

CommitSync(p) ==
  /\ transaction # NoWork /\ transaction.by = p /\ transaction.left = <<>>
  /\ earned' = transaction.table
  /\ first' = FirstDates(p)
  /\ transaction' = NoWork
  /\ pending' = [pending EXCEPT ![p].stored = TRUE]
  /\ outcome' = NoOutcome
  /\ UNCHANGED <<standing, meta, cache, moment>>

ListUserTrophiesForGame(p, g) ==
  {[id |-> id, date |-> earned[<<p, g, id>>]] : id \in {i \in Valid : earned[<<p, g, i>>] # Nothing}}

\* The reply is read after the commit, by a statement of its own.
ReplyMerged(p) ==
  /\ pending[p] # NoWork /\ pending[p].stored
  /\ outcome' = [kind |-> "synced", by |-> p, request |-> pending[p],
                trophies |-> ListUserTrophiesForGame(p, pending[p].game)]
  /\ pending' = [pending EXCEPT ![p] = NoWork]
  /\ UNCHANGED <<standing, earned, meta, transaction, cache, first, moment>>

-----------------------------------------------------------------------------
(* What operators do, on the main thread. *)

NormaliseGrade(raw) == IF raw \in Grades THEN raw ELSE ""

\* Entries without an id or a name are skipped.
ParseTrophyConfig(config) ==
  LET kept == SelectSeq(config, LAMBDA r : r.id >= 0 /\ r.named)
  IN  [i \in DOMAIN kept |-> [id |-> kept[i].id, grade |-> NormaliseGrade(kept[i].grade)]]

DeleteMeta(g) == [c \in MetaKeys |-> IF c[1] = g THEN Nothing ELSE meta[c]]

ImportConfig(g, config) ==
  /\ pending[MainThread] = NoWork
  /\ LET rows == ParseTrophyConfig(config) IN
     IF rows = <<>>
     THEN outcome' = NoOutcome /\ UNCHANGED <<transaction, pending>>
     ELSE /\ transaction = NoWork
          /\ pending' = [pending EXCEPT ![MainThread] = [kind |-> "import", game |-> g]]
          /\ transaction' = [by |-> MainThread, left |-> rows, table |-> DeleteMeta(g)]
          /\ outcome' = NoOutcome
  /\ UNCHANGED <<standing, earned, meta, cache, first, moment>>

\* The same id twice violates the primary key.
InsertMeta ==
  /\ transaction # NoWork /\ transaction.by = MainThread /\ transaction.left # <<>>
  /\ LET c == <<pending[MainThread].game, Head(transaction.left).id>> IN
     /\ transaction.table[c] = Nothing
     /\ transaction' = [transaction EXCEPT !.left = Tail(@), !.table[c] = Head(transaction.left).grade]
  /\ outcome' = NoOutcome
  /\ UNCHANGED <<standing, earned, meta, pending, cache, first, moment>>

CommitImport ==
  /\ transaction # NoWork /\ transaction.by = MainThread /\ transaction.left = <<>>
  /\ meta' = transaction.table
  /\ transaction' = NoWork
  /\ pending' = [pending EXCEPT ![MainThread] = NoWork]
  /\ outcome' = NoOutcome
  /\ UNCHANGED <<standing, earned, cache, first, moment>>

DeleteTrophyMeta(g) ==
  /\ pending[MainThread] = NoWork /\ transaction = NoWork
  /\ meta' = DeleteMeta(g)
  /\ outcome' = NoOutcome
  /\ UNCHANGED <<standing, earned, transaction, pending, cache, first, moment>>

Forget(ks) ==
  /\ earned' = [k \in TrophyKeys |-> IF k \in ks THEN Nothing ELSE earned[k]]
  /\ first' = [k \in TrophyKeys |-> IF k \in ks THEN Nothing ELSE first[k]]
  /\ pending' = [w \in Workers |->
       IF w # MainThread /\ pending[w] # NoWork
       THEN [pending[w] EXCEPT !.revoked = @ \cup ks]
       ELSE pending[w]]

DeleteUserTrophy(k) ==
  /\ pending[MainThread] = NoWork /\ transaction = NoWork /\ earned[k] # Nothing
  /\ Forget({k})
  /\ outcome' = NoOutcome
  /\ UNCHANGED <<standing, meta, transaction, cache, moment>>

PurgeUserData(p) ==
  /\ pending[MainThread] = NoWork /\ transaction = NoWork /\ HasAccount(p)
  /\ Forget({k \in TrophyKeys : k[1] = p})
  /\ outcome' = NoOutcome
  /\ UNCHANGED <<standing, meta, transaction, cache, moment>>

CloseAccount(p) ==
  /\ pending[MainThread] = NoWork /\ transaction = NoWork /\ HasAccount(p)
  /\ standing' = [standing EXCEPT ![p] = "deleted"]
  /\ Forget({k \in TrophyKeys : k[1] = p})
  /\ outcome' = NoOutcome
  /\ UNCHANGED <<meta, transaction, cache, moment>>

BanUser(p) ==
  /\ pending[MainThread] = NoWork /\ transaction = NoWork /\ HasAccount(p)
  /\ standing' = [standing EXCEPT ![p] = IF @ = "open" THEN "banned" ELSE "open"]
  /\ outcome' = NoOutcome
  /\ UNCHANGED <<earned, meta, transaction, pending, cache, first, moment>>

-----------------------------------------------------------------------------
(* The pages. *)

Points(grade) ==
  CASE grade = "B" -> 15 [] grade = "S" -> 30 [] grade = "G" -> 90 [] grade = "P" -> 180
    [] OTHER -> 0
TrophyPoints(n) == n["B"] * 15 + n["S"] * 30 + n["G"] * 90 + n["P"] * 180

Holds(p, g) == {id \in Valid : earned[<<p, g, id>>] # Nothing}
SetTotal(g) == Cardinality({c \in MetaKeys : c[1] = g /\ meta[c] # Nothing})

\* ListPlayerTrophySummary: a row for each game, which the profile page adds up.
Summary(p, g) ==
  LET rows == Holds(p, g) IN
  [trophies |-> Cardinality(rows),
   grades |-> [x \in Grades |-> Cardinality({id \in rows : meta[<<g, id>>] = x})],
   unknown |-> Cardinality({id \in rows : meta[<<g, id>>] \in {Nothing, ""}}),
   total |-> SetTotal(g)]
SummaryGames(p) == {g \in Games : Holds(p, g) # {}}

Profile(p) ==
  LET games == SummaryGames(p)
      grades == [x \in Grades |-> MapThenSumSet(LAMBDA g : Summary(p, g).grades[x], games)]
  IN  [total |-> MapThenSumSet(LAMBDA g : Summary(p, g).trophies, games),
       points |-> TrophyPoints(grades),
       unknown |-> MapThenSumSet(LAMBDA g : Summary(p, g).unknown, games),
       completed |-> Cardinality({g \in games : Summary(p, g).total > 0 /\
                                                Summary(p, g).trophies >= Summary(p, g).total}),
       games |-> Cardinality(games)]

\* The member API adds up the points of the games.
MemberPoints(p) == MapThenSumSet(LAMBDA g : TrophyPoints(Summary(p, g).grades), SummaryGames(p))

\* ListTrophyRanking: the sums of sums, in one statement.
RankRow(p) ==
  LET games == {g \in Games : Holds(p, g) # {}}
      points(g) == MapThenSumSet(LAMBDA id : Points(meta[<<g, id>>]), Holds(p, g))
      trophies(g) == Cardinality(Holds(p, g))
  IN  [npid |-> p,
       trophies |-> MapThenSumSet(trophies, games),
       games |-> Cardinality(games),
       ungraded |-> MapThenSumSet(LAMBDA g : Cardinality({id \in Holds(p, g) :
                                         meta[<<g, id>>] \in {Nothing, ""}}), games),
       points |-> MapThenSumSet(points, games),
       completed |-> Cardinality({g \in games : SetTotal(g) > 0 /\ trophies(g) >= SetTotal(g)})]
Before(r, s) ==
  \/ r.points > s.points
  \/ r.points = s.points /\ r.trophies > s.trophies
  \/ r.points = s.points /\ r.trophies = s.trophies /\ r.npid < s.npid
Ranked == {p \in Gamers : standing[p] = "open" /\ \E g \in Games : Holds(p, g) # {}}
TrophyRanking ==
  LET rows == SetToSortSeq({RankRow(p) : p \in Ranked}, Before)
  IN  SubSeq(rows, 1, Min({RankingLimit, Len(rows)}))

\* CountTrophyPlayers, and those of them the page of the game can show.
GamePlayers(g) == {p \in Gamers : Holds(p, g) # {}}
TopPlayers(g) == {p \in GamePlayers(g) : HasAccount(p)}

\* The page is dated before it is built.
RequestRanking ==
  /\ pending[MainThread] = NoWork
  /\ IF cache # Nothing /\ cache.expiry > moment
     THEN outcome' = [kind |-> "page", read |-> cache.read] /\ UNCHANGED pending
     ELSE /\ pending' = [pending EXCEPT ![MainThread] = [kind |-> "page", since |-> moment, read |-> Nothing]]
          /\ outcome' = NoOutcome
  /\ UNCHANGED <<standing, earned, meta, transaction, cache, first, moment>>

ReadRanking ==
  /\ pending[MainThread] # NoWork /\ pending[MainThread].kind = "page" /\ pending[MainThread].read = Nothing
  /\ pending' = [pending EXCEPT ![MainThread].read = moment]
  /\ outcome' = NoOutcome
  /\ UNCHANGED <<standing, earned, meta, transaction, cache, first, moment>>

KeepRanking ==
  /\ pending[MainThread] # NoWork /\ pending[MainThread].kind = "page" /\ pending[MainThread].read # Nothing
  /\ cache' = [expiry |-> pending[MainThread].since + m_cacheLife, read |-> pending[MainThread].read]
  /\ pending' = [pending EXCEPT ![MainThread] = NoWork]
  /\ outcome' = NoOutcome
  /\ UNCHANGED <<standing, earned, meta, transaction, first, moment>>

-----------------------------------------------------------------------------
\* The server stops and starts; an open transaction is not in the file.
TrophiesRestart ==
  /\ transaction' = NoWork
  /\ pending' = [w \in Workers |-> NoWork]
  /\ cache' = Nothing
  /\ outcome' = NoOutcome
  /\ UNCHANGED <<standing, earned, meta, first, moment>>

MomentPasses ==
  /\ moment < MaxMoments
  /\ moment' = moment + 1
  /\ outcome' = NoOutcome
  /\ UNCHANGED <<standing, earned, meta, transaction, pending, cache, first>>

TrophiesInit ==
  /\ standing = [p \in Gamers |-> "open"]
  /\ earned = [k \in TrophyKeys |-> Nothing] /\ first = [k \in TrophyKeys |-> Nothing]
  /\ meta = [c \in MetaKeys |-> Nothing]
  /\ transaction = NoWork /\ pending = [w \in Workers |-> NoWork] /\ cache = Nothing
  /\ outcome = NoOutcome /\ moment = 0

TrophiesNext ==
  \/ \E p \in Gamers :
       \/ \E g \in Games, id \in TrophyIds, stamp \in Stamps : UnlockTrophy(p, g, id, stamp)
       \/ \E g \in Games : \E upload \in Uploads[g] : SyncTrophies(p, g, upload)
       \/ BeginSync(p) \/ InsertTrophy(p) \/ CommitSync(p) \/ ReplyMerged(p)
       \/ PurgeUserData(p) \/ CloseAccount(p) \/ BanUser(p)
  \/ \E g \in Games :
       DeleteTrophyMeta(g) \/ \E config \in Configs : ImportConfig(g, config)
  \/ InsertMeta \/ CommitImport
  \/ \E w \in Workers : transaction # NoWork /\ transaction.by = w /\ RollBack(w)
  \/ \E k \in TrophyKeys : DeleteUserTrophy(k)
  \/ RequestRanking \/ ReadRanking \/ KeepRanking
  \/ TrophiesRestart \/ MomentPasses

TrophiesSpec == TrophiesInit /\ [][TrophiesNext]_trophyVars

-----------------------------------------------------------------------------
TrophiesTyped ==
  /\ \A k \in TrophyKeys : earned[k] # Nothing => earned[k] \in Nat
  /\ \A c \in MetaKeys : meta[c] \in Grades \cup {"", Nothing}
  /\ transaction # NoWork => pending[transaction.by] # NoWork
  /\ moment \in 0 .. MaxMoments

\* However often a trophy is sent again, it keeps the date it was first recorded with
\* until it is revoked.  Rows belong to accounts, whoever was inserting when the account
\* went.  A sync that is answered has recorded all of its rows, and the answer has them
\* unless they were revoked since; one that fails has recorded none (cmd_trophy.cpp:54,
\* database.cpp:1426).
TrophiesKept ==
  /\ earned = first
  /\ \A k \in TrophyKeys : earned[k] # Nothing => HasAccount(k[1])
  /\ outcome.kind = "synced" =>
       LET r == outcome.request IN
       \A row \in Range(r.rows) :
         <<outcome.by, r.game, row.id>> \in r.revoked
           \/ [id |-> row.id, date |-> first[<<outcome.by, r.game, row.id>>]] \in outcome.trophies

\* The pages agree: a player's row of the ranking with the profile and with the member's
\* own page; who is left out of the ranking is banned, has nothing, or has no more points
\* than its last row; and who counts as a player of a game has an account to show
\* (database.cpp:1646, stats_server.cpp:452).
PagesAgree ==
  /\ \A i \in DOMAIN TrophyRanking :
       LET r == TrophyRanking[i]
           f == Profile(r.npid)
       IN  /\ r.trophies = f.total /\ r.points = f.points /\ r.games = f.games
           /\ r.ungraded = f.unknown /\ r.completed = f.completed
           /\ r.points = MemberPoints(r.npid)
  /\ \A p \in Gamers :
       standing[p] = "open" /\ Profile(p).total > 0 =>
         \/ \E i \in DOMAIN TrophyRanking : TrophyRanking[i].npid = p
         \/ Len(TrophyRanking) = RankingLimit
              /\ Profile(p).points <= TrophyRanking[RankingLimit].points
  /\ \A g \in Games : TopPlayers(g) = GamePlayers(g)

\* No page shows what was read m_cacheLife ago or earlier (stats_server.cpp:203).
PageCurrent == outcome.kind = "page" => moment - outcome.read < m_cacheLife
=============================================================================
