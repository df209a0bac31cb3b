# A TLA+ model of shadNet

shadNet is the game server behind shadPS4: players sign in over a framed TCP
protocol, meet in matchmaking rooms, keep friend lists, post scores and use an
HTTP API, all against one SQLite database. This directory models the parts of it
in which several threads change shared state and checks them with TLC. What
matters most about them is proved with TLAPS, for any number of players and any
interleaving: matchmaking rooms and their searches, game sessions, friends and
presence, score boards, WebAPI sessions, accounts and their sessions, throttled
sign-ins, authorization codes, title user storage, entitlements, game custom data,
configuration files and trophies.

Paths below are relative to the repository root (`src/` is its C++ source
directory, `documentation/` its documents).

## The system

### Threads and shared state

`server.cpp` accepts game connections and gives each one a `ClientSession` on a
`QThread` of its own (`SpawnSession`). One session handles its packets one after
another; different sessions, the WebAPI server, the admin API, the member API,
the statistics server and the STUN socket run at the same time. They meet in

| shared state | protected by | kept by |
|---|---|---|
| `clients`, `npidToUserId`, `pendingVersionLogins` | `clientsLock` | sessions, admin and member API |
| `matching`: rooms, world and lobby indexes | `roomsLock` | sessions |
| matchmaking slots | `matching2SlotsMutex` | sessions, admin API |
| version cooldowns | `versionCooldownMutex` | sessions, rules service |
| usage counters | `usageLock` | sessions |
| WebAPI sessions and invitations | `sessionsLock` | WebAPI, sessions' cleanup |
| score cache | `ScoreCache::m_lock` | sessions, WebAPI, services |
| authorization codes | the store's mutex | WebAPI |
| SQLite file | SQLite; one connection per thread | everybody |

Locks are taken for short sections. Almost every handler is several sections
long, so what it read in one may have changed in the next; that is what the
modules are about. A message for another session is posted to that session's
event loop (`Qt::QueuedConnection`) and written when its thread gets there.

### Components

| component | state | operations | what makes it correct |
|---|---|---|---|
| game sessions (`cmd_account.cpp`, `client_session.cpp`) | login, version hold, registration | Login, SetClientVersion, timers, disconnect, Delete | one entry per session, nothing outlives it, held logins resolve |
| matchmaking rooms (`cmd_matching.cpp`, `matching_types.h`) | rooms, members, slots, flags, indexes; the session's own room state | context, create, join, leave, kick, set data, search, relay | seats, ownership, FULL flag, slot counts, indexes, blocks |
| friends and presence (`cmd_friend.cpp`, `admin_api.cpp`, `member_api.cpp`) | relationship rows, friend lists of `clients`, what clients show | add, remove, block, unblock, login and logout announcements | the copies agree; presence goes to friends only |
| client versions (`clientversions_service.cpp`) | rules, cooldowns | apply, recheck | rejected sessions stay out |
| score boards (`score_cache.cpp`, `cmd_score.cpp`, `score_db.cpp`, `scoreboards_service.cpp`) | ranked cache, table, score data files | record, attach data, read ranges, delete, new limits | cache and table agree, ranks are those of the order |
| WebAPI sessions (`webapi/webapi_routes_session.cpp`) | sessions, members, invitations | create, join, leave, invite, purge on disconnect | owners are members, no offline members |
| accounts (`database.cpp`, `admin_api.cpp`, `member_api.cpp`) | rows, sessions of both APIs, throttle records | register, sign in, rights, bans, passwords, mail, delete | unique names; no session outlives the right to it |
| authorization codes (`auth_code_store.cpp`) | codes, access tokens | issue, redeem, expire | once, in time, bounded |
| title user storage (`cmd_tus.cpp`, `tus_db.cpp`) | slots, variables | conditional set, add, delete | no lost update |
| worlds and other configuration files (`worlds_service.cpp`, `worldsstore.cpp`) | files, revisions, settings in force | read, save, reload, start | no lost edit, no room hidden by a reload |
| entitlements (`entitlement_db.cpp`) | grants per title and label | grant, revoke, use, list | uses accounted for; every way of asking shows the same row |
| game custom data (`game_custom_data_db.cpp`) | items, inboxes | send, prune, list, mark used, expire | nothing is lost but for newer items |
| trophies (`cmd_trophy.cpp`, `trophy_config.cpp`, `stats_server.cpp`) | unlocks, configurations, cached pages | unlock, upload, import, revoke, rank | dates stay; the pages agree |
| STUN, TSS, commerce catalogue, usage statistics | rows and files | single reads or writes | little to interleave |

`PROJECT.json` lists every component with its files and what is or is not
modelled, and the hazards: the places in the code where an order of steps
matters that a test would hardly reach, each with the properties that watch it.

## The modules

### MatchingRooms, RoomMembership

`MatchingRooms` has one action per section of `roomsLock` of every command that
changes rooms. `rooms`, `worldRooms` and `lobbyRooms` are `MatchingSharedState`;
`sess[u]` is the `MatchingSessionState` of u's session plus whether it is signed
in; `nextRoomId` is the atomic id counter. Creating a room is two actions
(`CmdCreateRoom`, `PublishRoom`) because the id is drawn before the lock is
taken; all others are one: `CmdContextStart`, `CmdContextStop`, `CmdJoinRoom`,
`CmdLeaveRoom`, `CmdKickoutRoomMember`, `CmdSetRoomDataInternal`,
`CmdSetRoomMemberDataInternal`, `CleanupMatchingOnDisconnect`. A 16-bit member
id is the record of its slot and its counter, a flag word the set of its bits.

`RoomMembership` is what the rooms promise to an outsider: a room has members
and one of them leads it; players come one at a time while there is room, the
leader's departure hands the room on or ends it, and an ended room never
returns. `MatchingRooms` implements it
(`ImplementsMembership`, run `rooms_two`).

`SearchRoom` is the search of a world or of a lobby: the candidates an index
lists, the filter by flags, and a page of them. `RoomsFound` says, in one
invariant, that the two indexes have exactly the rooms they should
(`IndexAgrees`), that a session claims no seat but its own
(`SessionClaimsSound`), and what follows for a searcher: all pages together show
every room of the place that has a seat to offer, once, and no full one (a room
of a single slot may go without its bit and is excepted). The run has a room that
is hidden.

| run | instance | shows |
|---|---|---|
| rooms_one | 3 players, one room of 1-3 slots, three families of requests | seats, owner, FULL flag, slot counts, refusals, handover, kick blocks |
| rooms_two | 2 players, 2 room ids, 2 keys, worlds and lobbies, a hidden room | what searches find, the session's claims, indexes, ids never reused, refinement |
| rooms_disconnect | 2 players, 2 rooms | violation: a disconnect leaves one room only |

`rooms_one` would have too many requests at once, so `InFamily` (an action
constraint of `MCRoomFamilies`) lets the matching key decide what the room is
like: plain with flag updates, with slot masks and password groups, or with
allow, block and kick lists. Within a family every interleaving is explored.

Bounds. `SlotLimit` stands for the 64 slots of a mask, `CounterMod` for the 16
values of the member-id counter, `WidthMod` for 2^16; each is small enough to be
passed in the run that is about it. `MaxRooms` bounds the ids drawn. Three
players fill, free and refill a room of three and leave one player over to be
refused; two rooms are what a player can confuse.

Left out: attribute data and the filters by attribute,
`GetRoomDataExternalList`, QoS and signaling relays; notifications; the
matchmaking-slot gate in front of each command
(it is in `SessionLifecycle`, and here every command simply may be refused by
not happening); a second session of the same player. `ownerSuccession` is read
by the code and never filled, so the heir is any member the hash table yields.
A shift by 64 or more in `GroupPasswordSlotMask` is undefined; here a group's
mask is any set of slots. `resetMatchingRoomState` is registered and never
called, so no action calls it.

### SessionLifecycle

One record `conn[c]` per connection with a program counter `step`: a command of
several lock sections is several actions, and other threads act in between.
`Connect`; `CmdLogin`, `LoginCheckFree`, `LoginAuthenticate`, `RegisterOnline`,
`UsageOnLogin`; `CmdSetClientVersion`, `VersionTimeout`, `RecheckVersion`,
`CheckClientVersion`, `RejectClient`; `CheckMatching2Access`,
`TryTakeMatching2Slot`, `CmdContextStop`; `CmdDelete`; `OnDisconnected`,
`CleanupSlot`, `CleanupEntry`, `UsageOnLogout`. The admin API's change of
matchmaking access is three actions (database, entry, slot), and so is the
application of new rules (rules, cooldowns, rechecks).

| run | instance | shows |
|---|---|---|
| lifecycle_main | 2 connections, 1 slot, held logins, cooldowns, deletion | tables, slots, counts, accesses and verdicts follow the sessions |
| lifecycle_live | 2 devices of one account, fair scheduling | a held login is always resolved |

`lifecycle_main` has two families: two players under changing version rules that
always accept the good version, and two devices of one account whose
matchmaking access an administrator changes. Two connections are enough for
every race here because each race is between two handlers; a third party is the
administrator or the rules service, which has its own actions. Only one admin
request and one rules application run at a time. `AccessCurrent` speaks of the
moments when no access change waits for its entry, and of accounts that are still
there.

Login is not refused on a session that is signed in, or that has deleted its
account. Neither Login nor Delete resets `m_registered`, and the cleanup knows one
account only. After a second Login on a live session the first account's entry
outlives the connection; a Login that follows Delete in the same burst of packets
leaves a held login that nothing will resolve, and every later one is answered
with LoginAlreadyLoggedIn. `EverythingGivenBack` and `NobodyLockedOut` are false
then. `Relogins` allows the first of the two and is off in every run; the proofs
have a hypothesis that excludes both (`OneSignIn`, below).

Fairness (`lifecycle_live`): a handler that began goes on (weak fairness: it is
a running thread); an armed timer fires and a socket that was asked to close
closes even though packets keep coming (strong fairness: the event loop serves
expired timers and queued calls between packets). Nothing is assumed of players.

Left out: bans, account creation and deletion by an administrator (they are in
`Accounts`), the tally per game, `npidToUserId`, the version shown in the entry, switching matchmaking off
as a whole, and the raw `this` in `entry.send`, which another thread may call
after the session object is gone.

### FriendPresence

`rel[a][b]` is a's column of the relationship row, `clients[u]` the table of
connected clients with its friend lists, `view[u]` the list a game client shows,
built from the login reply and the notifications (the client is external),
`queue[u]` the packets posted to u's event loop. Every change of a friendship is
four actions of the thread that runs it: the read of the row (`SessionReads`,
`MemberAdds`, `MemberRemoves`, `AdminBefriends`, `AdminUnfriends`: the game
session's commands and the routes of the two APIs, which differ in what they
refuse and whom they tell what), then `WriteRelStatus`, `ApplyToClients`,
`NotifyBoth`. Signing in is `CmdLogin`,
`RegisterRead`, `RegisterOnline`, `AnnounceOnline`; leaving is
`CleanupOnDisconnect`, `AnnounceOffline`. `met` is a history variable. The threads
are the players' sessions and those of the two APIs' requests (`Members`,
`Admins`), which are other threads (`FriendConstants`).

| run | instance | shows |
|---|---|---|
| friends_settled | 3 players who may hide, member and admin API, one handler at a time | the client table follows the database; clients' lists are exact while things are plain |
| friends_overlap | 2 players, admin API, everything overlaps | rows stay consistent, no presence to strangers |
| friends_block | 2 players | violation: a block is written over |

`Overlap` says whether handlers of different threads may overlap. `FriendListsSound` has two parts. `CacheAgrees`
needs one handler at a time, because the client table is written in a section of
its own after the row. `FriendListCurrent` also needs things to be `plain`, a
history variable that `Starts` keeps: a session whose login is held is in the
table and is shown online by AddFriend; a friend that arrives during a held
login is not announced; a player who starts to appear offline sends no
FriendStatus; and the member API tells both sides that the other is online
without looking. `MaxQueue` only delays the start of new handlers;
`friends_settled` lets nothing else happen while a login is held
(`NobodyMeetsLogin`), `friends_overlap` lets at most two threads have a handler in
hand at a time (`TwoAtOnce`).

### ScoreBoards

One board. `board` and `rows` are its rows of the database, `sorted` and `lookup`
the cached table and its index, `files` and `nextFile` the score data files.
`jobs[w]` is what thread w has in hand; each SQL statement, each section of
`m_lock` and each file operation is an action, and other threads act in between:

- a score: `CmdRecordScore` (settings read), `CreateBoard`, `GetCreatedBoard`,
  `RecordScore` (the upsert with its WHERE), `InsertScore` (cache);
- its data: `CmdRecordScoreData` (looked up in the cache, file written),
  `SetGameData`, `SetScoreDataId`;
- removal by an administrator or with the account: `DeleteScore` or
  `DeleteAccount`, then `DeleteRows`, `RemoveFiles`, `RemoveEntries`;
- new settings: `SetBoard`, `ReadScores`, `LoadTable`; and `Restart`, at any
  point of all this.

`Reindex`, `LowerBounds`, `With`, `Without` are the vector arithmetic of
`ScoreCache::InsertScore`, positions counted from 1. When a board's sort mode
changes under a thread that still holds the old one, the binary search runs over
a table in the wrong order and may end at any point that looks like a bound;
`LowerBounds` is the set of those points. Rows that rank alike come from the
database in no particular order: `ScoresForBoard` is the set of orders in which a
load may see one player's characters that have the same score and date.

`LookupExact`, `DataIdsSound` and `DataAttachedOnce`, the parts of
`ScoresAndDataSound`, hold through every overlap. That the cache
equals the table does not, and the two history variables say exactly where:

- `disturbed` has the keys that two threads worked on at once since the last
  start. An administrator's DeleteScore between a player's RecordScore and
  InsertScore leaves an entry without a row ("Drop it from the live board too, or
  it keeps being served", `admin_api.cpp`), and two posts may reach the cache in the
  other order than the table. `CacheFollowsTable` holds for all other keys.
- `sunk` is set when an entry falls or goes while rows wait that are not on the
  board. A dropped row comes back only when the table is loaded again, so a forced
  worse score, or a deletion, leaves a better row of the database unshown.
  `BoardIsTop` holds until then.

The run `scores` has two players, the second with two characters, boards of one or
two places, two scores, both sort orders, a clock of two dates, two uploads and
at most two threads at work (`MaxBusy`; every hazard here is between two). Two
families: with all overlaps but the third row unused (and, while threads overlap
on a row, either new settings or an upload), or with three rows but threads on
different ones. Left out: ranges and friend reads, upload sizes,
revisions of scoreboards.cfg (`ConfigFiles` has them), several boards (they share nothing).

### WebSessions

`sessions[id]` is the hash of sessions with their members in order of joining,
`invitations` the invitations, `presence[u]` u's entry in `clients` ("leaving"
between the purge and the end of the entry), `request` the one request the web
server has in hand. Creating and joining are two actions, the look into `clients`
(`HandleSessionCreate`, `HandleSessionJoin`) and the section of `sessionsLock`
(`InsertSession`, `JoinSession` or `JoinRefused`); every other request is one. The
disconnect is `CleanupOnDisconnect` (with `PurgeUserFromSessions`) and
`EraseClient`; a held login that ends purges too (`CleanupHeldLogin`).

| run | instance | shows |
|---|---|---|
| web_sessions | 3 players, 2 public sessions of 2 with 2 indices; or 1 session with updates and an invitation | owners, indices, successions, access; offline members only by a late request |
| web_offline | the same | violation: a purged player enters a session |

`late` is a history variable: the players who entered a session after their
purge. `OfflineOnlyIfLate` says that this is the only way to be an offline
member; nothing but the player's own next disconnect removes such a member of
an owner-bind session. Two sessions show every exchange between an index left
and an index taken; one invitation suffices because each is a record of its
own. `MembersSound` says who is in which session with which index, whose owner
is who, and that an invitation is used when it is taken up (`SeatsSound`,
`JoiningUsesInvitations`). `OwnerSuccession` says that a session changes hands only
when its owner leaves an owner-migration session, and that the first member after
him takes over. Session data, lock flags, platforms, priorities, lists and push events are
left out.

### TitleStorage

`store` is the committed rows of one title's variables and data, by owner (a
player or a virtual user) and slot; `writer` the connection that holds SQLite's
write lock and `draft` the rows as it sees them; `job[u]` the request that u's
session has in hand. `CmdTusSetMultiSlotVariable`, `CmdTusDeleteMultiSlotData`,
`CmdTusDeleteMultiSlotVariable`, `CmdTusAddAndGetVariable`,
`CmdTusTryAndSetVariable` and `CmdTusSetData` are the handlers up to their first
statement that matters; then come the statements: `BeginWriteTxn`,
`ReadVariable`, `WriteVariable`; or `WriteSlot` for each slot and `Commit`; or
`SetData` alone. `StatementFails` and `BeginWriteTxnFails` (the busy timeout) may
happen instead of any of them.

`AddAndGetVariableEx` and `TryAndSetVariableEx` do not look at the result of
`BEGIN IMMEDIATE`. When it has timed out, what follows runs statement by statement.
The model then relies on one rule of SQLite in WAL mode: a write on a connection
whose open SELECT has been overtaken by another commit fails (BUSY_SNAPSHOT). A
SELECT that found no row is not open, so an addition to a slot that was seen
unset may be lost; `AddCounts` and `GuardHolds` hold in every other case
(`Unprotected` names this one), and for data guards of a player's own slots.

In the run `services`: two players, one virtual user, two slots, one value and one
amount, conditions EQUAL and NOT_EQUAL, guards on author or date, a clock of two
dates, requests of up to two slots in any order (the same one twice and none at all
included), pages of one. Four families: one variable with every command; the data of
one slot; requests over both slots; and the players' own variables for the pages of
friends. `WritesSound` is `AddCounts`, `GuardHolds` and `AllAtOnce`, which compares
the rows before and after a commit. `PagesCover` says for every sort type that the
list of friends has each of them once and in order, and that pages of every size show
every entry in its place. Left out: reads but those, data sizes, several titles (rows
of different titles never meet), the purge with an account, errors at a commit or a
plain read.

### Services that keep to themselves

`MCServices` extends eight modules and checks them in one run: a behaviour of
`services` follows one of them from its first state to its last (`service` never
changes), so that the run is the sum of eight small ones, not their product, and
what is proved of a service alone holds in it. Each module has variables and names of
its own, and its properties are checked as they stand there; `TypesOK` and
`PagesWhole` collect those of several. `ServicesInFamily` applies the families each
MC module defines.

**Accounts.** `accounts[id]` are the rows, `members` and `admins` the sessions of
the two APIs, `client[id]` the account's game session, `request` what the request
in hand on the main thread has left to do, `game` the same for a creation or a
deletion over a game session. A creation looks (`AdminCreates`, `MemberRegisters`,
`CmdCreate`) and inserts later (`FinishCreate`, `CmdCreateInserts`), where the
table's UNIQUE decides; ids are drawn from AUTOINCREMENT. `Ban`, `SetAdmin`,
`AdminDeletes`, `AdminKicks`, `AdminResetsPassword`, `ChangesPassword`,
`ResetsPassword`, `ChangesEmail`, `MemberDeletes`, `CmdDelete` each end the sessions
their code ends, and `Restart` ends all and promotes AdminsList. `SessionsSound` has four parts
(administrators' sessions are rightful; nobody inherits a deleted account's session;
a new password signs out; who is banned is offline), `StaysAdministrable` the guards
that leave an administrator. Two exceptions are the code's: a ban, a kick or a
deletion that falls between the check of a login and its registration closes
nothing (`missed`), and one's own deletion is not guarded (`deserted`). Three ids,
two passwords, two sessions of each API, three families.

**LoginThrottle.** One peer at the sign-in of the member API (failures within a
window) or of the admin API (failures since the last success). `GuessesBounded`
counts what a peer can try; for the member API the bound is nearly two windows'
worth, because a window starts anew with the first failure after its end. It is
assumed, and true of the source (900 and 300 seconds), that a block outlasts a window.

**AuthCodes.** The store's two tables under its mutex, the request that takes a
code out and puts its token in under two sections (`PostToken`, `IssueAccessToken`),
expiry, the limit per player, and codes that are drawn again. A wrong backend
spends a code, which is what the code does. `CodesSound` says that no grant is traded
for two tokens (`CodesSpentOnce`) and that who is told to wait, or shown a token, is
told the truth (`AnswersCurrent`).

**Entitlements.** `entitlements[<<title, label>>]`, and the use of one as its read
(`Consume`) and its conditional UPDATE (`ConsumeUpdate`), which `usage` connects, with
grants, revocations, title changes and time in between. `VisibleAgrees` compares the
two ways a title's row is preferred to the row of all titles, in every order the
database may return them, and pages with the list they are cut from.

**GameCustomData.** `CreateItem` commits an item for all addressees; then, for each,
`PruneReceived` cuts the inbox, and `SendGameCustomDataEvent` tells those who are
online. `GetReceived` and `MarkUsed` check scope, expiry and account. `InboxKept`
holds over every step; an addressee who is deleted between the check and the
transaction keeps a row nobody reads.

**ConfigFiles.** One of worlds.cfg, scoreboards.cfg and clientversions.cfg: `file`
and `bak` on disk, `active` what the service last took over, `inUse` the settings in
force, `txn` the save or reload in hand (`Decide`, `Backup`, `Recheck`, `ReplaceFile`,
`Apply...`, or `Fail` at any of them), a text editor that knows no lock
(`TextEditor`), the toolbox on a stopped server, and the start, which reads the
settings twice (`LoadScoreboardsCfg` and `LoadRules`, then `StartAfterLoad`). A text is what its lines
say, its revision the text. Between the last comparison and the rename another
editor's text is lost; `ReplacesWhatWasRead`, a part of `ConfigSound`, says `~edited`
for that. Every room
carries server id 1 (`matching_types.h:75` is never assigned), so a world that is
configured with another SERVER_ID and has a room makes every reload fail.

**Trophies.** `earned` and `meta` are the two tables; `transaction` the one with
SQLite's write lock, an upload (`SyncTrophies`, `BeginSync`, `InsertTrophy`,
`CommitSync`, `ReplyMerged`) or an import (`ImportConfig`, `InsertMeta`,
`CommitImport`), which may be rolled back at any statement (`RollBack`) or cut off by
a `TrophiesRestart`.
`TrophiesKept` says that a date stays until its trophy is revoked, that no rows are
left of a deleted account, and that an upload that is answered is in, whole. `PagesAgree` compares the ranking (sums of sums in
one statement), the profile (a loop over games) and the member's own page, and
`PageCurrent` bounds the age of a cached page. Two players, two games, two trophies
in range and two out of it, four configurations (one with a grade and an id that are
not valid, one with a nameless entry, one with the same id twice, one with nothing usable), three
families: uploads, configurations, the cache. Seen on the way: a trophy sent
without a date gets ShadNetTimestamp, microseconds since the year 1, where
`shadnet.proto:808` says "seconds since epoch"; a game counts as completed by the
number of trophies, whichever they are; players who are banned are in the list of a
game and not in the ranking.

| run | shows |
|---|---|
| services | the above, and that each service keeps its types (`TypesOK`) |

Bounds. Each service has two actors that can meet (two players, two sessions, two
titles), one more row than is needed to go wrong, limits of one to four and clocks of
one to six ticks that pass them.

## The proofs

| module | theorems | hypotheses beside the constants' assumptions |
|---|---|---|
| MatchingRoomsProofs | `TypeCorrect`, `SeatingAlwaysSound`, `OwnerAlwaysSound`, `FullFlagAlwaysAgrees`, `HandoverOrderly`, `RefusalsHold`, `SlotCountsAlwaysExact`, `SearchesAlwaysComplete` | none |
| | `MembershipCarriedOut` | `SmallRequests` |
| SessionLifecycleProofs | `LifecycleTypes`, `AccessAlwaysCurrent` | none |
| | `NobodyEverLockedOut`, `EverythingAlwaysGivenBack`, `RejectedAlwaysStaysOut` | `[][OneSignIn]_vars` |
| FriendPresenceProofs | `FriendTypes`, `BlockAlwaysExcludes`, `PresenceStaysAmongFriends` | none |
| | `ListsAgreeWhenSettled` | `~Overlap` |
| WebSessionsProofs | `WebTypes`, `MembersAlwaysSound`, `OnlyLatecomersStay`, `OwnersSucceed`, `AccessOnlyGranted` | none |
| ScoreBoardsProofs | `ScoreTypes`, `CacheAlwaysFollowsTable`, `ScoresAndDataAlwaysSound`, `BoardAlwaysTop` | none |
| AccountsProofs | `AccountTypes`, `SessionsAlwaysSound`, `AlwaysAdministrable`; `ThrottleTypes`, `GuessesAlwaysBounded` | none |
| TitleStorageProofs | `StorageTypes`, `WritesAlwaysSound`, `PagesAlwaysCover` | none |
| ServicesProofs | codes: `CodeTypes`, `CodesAlwaysSound`; entitlements: `EntitlementTypes`, `UsesAlwaysAccounted`; custom data: `CustomDataTypes`, `InboxAlwaysKept`; configuration: `ConfigTypes`, `ConfigAlwaysSound`; trophies: `TrophiesAlwaysKept`, `PagesNeverStale` | none |

The assumptions on constants are named (`MatchingConstants`, `LifecycleConstants`,
`FriendConstants`, `SessionConstants`, `ScoreConstants`, `AccountConstants`,
`ThrottleConstants`, `StorageConstants`, `CodeConstants`, `EntitlementConstants`,
`CustomDataConstants`, `ConfigConstants`, `TrophyConstants`) and TLC evaluates them in
the runs. They say that sets of players, connections and keys are finite, that
limits are numbers, that a block outlasts a window, and that the values that stand for
"none" are none of the others; nothing in them bounds how many players, rooms, rows or
threads there are.

### Rooms

`MatchingRoomsProofs` first proves, for any players, keys, room sizes, slot limit and
requests that satisfy `MatchingConstants`: `TypeCorrect`, `SeatingAlwaysSound`,
`OwnerAlwaysSound`, `FullFlagAlwaysAgrees`.

None of the three safety properties is inductive alone. The invariant is
`IInv == TypeOK /\ RoomsOK`, where `RoomOK` says of every live room that no
player sits twice, that seats within the limit lie within the room's size and in
distinct slots, that the owner is seated with the OWNER bit and alone has it,
and that FULL means full. The step that needs an argument is a join: `allocMemberId`
takes the lowest free slot of the mask and never looks at the room's size, while
`isFull` counts members and never looks at slots. `AllocatedSlotFits` relates
the two by the pigeonhole principle: as long as there are fewer members than
`maxSlot`, all in distinct slots, some slot up to `maxSlot` is free. Each
operation on a room has a lemma that it leaves the room sound (`NewRoomSound`,
`JoinSound`, `DepartureSound`, `KickSound`, `RoomDataSound`, `MemberDataSound`),
and `InvStep` has one case per action.

From there it goes on to what steps may do: `HandoverOrderly`
(`OwnershipHandover`), `RefusalsHold` (`BlocksHold`), `SlotCountsAlwaysExact`
(`SlotCountsExact`) and `MembershipCarriedOut` (`ImplementsMembership`, the
refinement). The last assumes `SmallRequests`, that no request asks for more slots
than a mask can name: in a larger room a member id may be handed out twice, and a
join then evicts whoever had it. The first two hold of rooms of any size.

These properties need one more fact, `IdsOK`: a room id that a session has drawn
belongs to no live room and to no other session, and every id in use was drawn
before. Without it `PublishRoom` could replace a living room, and none of the
properties would be inductive. `SInv` adds to it that every live room's counts are
those a fresh computation would give and that no two members refuse each other. The
argument goes through `StepKinds`: every command draws an id (`Draws`), opens a room
under one (`Publishes`), changes one live room (`Affects`) or leaves both alone, and
a change is one of four: nobody moves (`Keeps`), somebody joins (`Joins`), somebody
departs (`Departs`), the last one closes the room (`Closes`). An effect lemma puts
each operation into its class (`NewRoomEffect`, `JoinEffect`, `DepartureEffect`,
`KickEffect`, `RoomDataEffect`, `MemberDataEffect`); the theorems then have one case
per class, and the refinement one abstract action per class (`PublishOpens`,
`JoinEnters`, `DepartLeaves`, `CloseCloses`; `Keeps` and drawing an id stutter).
`SlotCountsAlwaysExact` counts: public and private slots partition the valid ones,
and in a sound room seats and taken slots are in bijection.

Last comes `RoomsFound`. Its invariant adds to `SInv` that the
indexes list the live rooms of a place and no others (`IndexAgrees`) and that a
session seated in the room it remembers remembers its seat, and one that believes it
is the owner is seated as such (`ClaimsOK`). That pages leave nothing
out is an argument about ranks: the page that starts at k begins with the room of
rank k among those that match, and ranks are distinct and reach every number up to
how many match (`RankEnumerates`, `PageOf`, `SearchFindsAll`).

### Sessions

The invariant `LInv` of `SessionLifecycleProofs` says of every connection what it may
hold where it stands (`ConnectionOK`: before it has signed in, nothing; after it has
deleted its account, no authentication), that an entry of the client table is that of
a registered session that has still to remove it (`EntriesOK`), that a held login has
a session that will register it or take it back (`HeldOK`) and, as long as no account
has been deleted, that slots and the live count have theirs (`SlotsOK`, `CountOK`).
Each is needed: `NobodyLockedOut` alone allows an entry whose session has passed the
point at which it would remove it. `ConnSteps` reduces all actions of a connection to
a handful of effects (it moves, drops, registers, takes, gives back), and
the invariant is shown for the effects, not for each action over again.

`OneSignIn` is the hypothesis of three of the theorems: nobody sends Login over a
connection that has signed in before. The code does not enforce it, and without it
`NobodyLockedOut` and `EverythingGivenBack` are false (see SessionLifecycle above); a client that signs in once per
connection meets it. Types and `AccessCurrent` are proved without it.

### Friends and presence

Types, blocks and audiences are proved for any overlap. `Sound` says which rows a
handler may be about to write, and `Acquainted` that whoever is told of a player's
coming and going, or is about to be, has been friends with him: lists, farewells and
logins under way included. The bound on queues counts what can still be posted
(`QueueOK`: a queue's length, the threads at work and the players parting together
stay within `Bound`).

`ListsAgreeWhenSettled` assumes `~Overlap`, as the run `friends_settled` does:
with two handlers at once the client table and the rows do differ for good (the write
of the row and that of the lists are two sections). One handler at a time still
means several steps, messages that have not arrived and sessions that start and
end. `SeqInv` names the phases (`Resting`, `Registering`, `Announcing`,
`Parted`, `Writing`, `Applying`, `Notifying`) and says for each which client shows
what it should and which still waits for a message; every action goes from one phase
to another.

### WebAPI sessions

`WInv` is the conjunction of the invariants the run checks and `RequestOK`: the
request in hand is that of a player, for an id that was drawn and, while the session
is being created, names nothing. With it `OfflineOnlyIfLate` is inductive, because
the purge of a disconnect visits every session and the only entry after it is that
of a request that looked at `clients` before. `OwnerSuccession` and `AccessGranted`
follow from what a step may do to a session: some leave, one joins, settings change.

### Score boards

`ScoreInv` has five parts: types, with the index `lookup` exact; the board's row is
there while somebody works with it (`BoardThere`); the data files (`FilesOK`: no
thread carries an id that another is about to remove); two threads with a key in
common have disturbed it (`Alone`); and, for every key that is not disturbed, either
nobody works on it and the entry shown is the stored row, or the thread that does is
where the difference between the two says (`KeysOK`). `CacheFollowsTable` and
`ScoresAndDataSound` follow.

For `BoardIsTop` the invariant `TopOK` adds the order: while nothing is disturbed
the cached table is in the board's order, within its limit, and every stored row is
shown, on its way into the cache, or left out because a full board ranks before it
(until `sunk`). The step that needs an argument is `InsertScore`: the new entry goes
in at its lower bound, the player's old one is taken out, everything behind it moves
by one, and the table is cut to the limit. `PlacedOnBoard` and `InsertedOnBoard` show
that what comes out is in order and that what was cut ranks before nothing that
stays. `ScoresTable` does the same for a load, and `SharedRankCounts` shows by a
bijection that the shared rank is one more than the number of better scores stored.

### Accounts and sign-ins

The invariant `AInv` has, beside the types with names and addresses apart,
`IdsDrawn` (every row's id was drawn, so that a new account has an id that no session
names), `SessionsOwned` (a session of the member API has the name of its account and, if
the owner chose it, its password; one of the admin API belongs to an administrator
who is there and not banned), `VictimsOK` (who is about to be deleted by an
administrator has no rights), `BansOK` (who is banned and has a game session is about
to be kicked, but for `missed`) and `StaysAdministrable` itself. `VictimsOK` is what
makes the last inductive: a deletion looks at the rights in one step and removes the row
in a later one.

For sign-ins (`TInv`) the history `failed` lists when a throttled request failed since
the last success, and the invariant says how far apart entries of the list are in time:
of the admin API two that are `kMaxLoginFailures` apart in the list are a block apart
(`AdminSpaced`), of the member API two that are `2 * MaxFailuresPerPeer - 2` apart are
more than a window apart (`MemberSpaced`). For the latter it must be known which
failures the record in hand counts and how the earlier ones lie before its window
(`WindowFrom`). `GuessesAlwaysBounded` then counts: indices of failures within one
period are pairwise closer than the bound, so there are no more than the bound of them
(`CloseTogether`).

### Title user storage

`SInv` says of the writer's draft that it is the store with the writes this writer has
done (`DraftOK`), and of each request in hand where it may stand (`JobOK`), that what it
has read meets its conditions and is still stored, unless another commit has overtaken it
or it had found nothing (`SeenOK`), and that the guard of a data write to a slot of
one's own still holds (`DataOK`). `WritesAlwaysSound` needs all of them: an addition
counts because the value it adds to is protected by the write lock or the write is
refused as overtaken. `StorageTypes` includes that the lock is given back whichever way a
request ended.

`PagesAlwaysCover` is about ranks: `Precedes` is a strict total order for each sort type,
so the number of friends before an entry tells entries apart and reaches every position
of the list, and each page starts where division says it starts.

### Services

**Codes.** `CInv` adds `Numbered` to the types and `CodesSound`: the grants in the store
and in a request's hand have numbers that were issued, and the one in hand has not been
spent. Without it a grant taken out of the store could come to a second token.

**Entitlements.** `EInv` adds `UseSound`: the row that a waiting use was found in may
still be used up at the date of the look, or it is gone with the account. Hence an
UPDATE that matches nothing means too few uses or a deleted account.

**Game custom data.** `DInv` says that receipts are of items that are there
(`ReceiptsSound`), that an item about to be created has an id to come (`CreateSound`)
and that every addressee who is still to be pruned for has the last item, unless
accounts have gone (`PruneSound`). That a row is pruned only when as many newer
ones stay is an argument about the newest row that goes: every newer row stays, and
there are `kMaxReceivedPerUser` of them.

**Configuration files.** `FInv` is the types, `RoomsOfWorlds` (rooms exist while a
server runs worlds.cfg) and `TransactionSound`: the backup is of the text the editor had
read, the file is that text until a text editor writes, and from the decision of a
reload on, while rooms are locked, every room is visible in the text to come.

**Trophies.** `HInv` says of an upload in hand that the rows it has left are the end of
those it was sent and that the transaction's table is the committed one with the
beginning entered (`SyncingSound`, by `Progress` and `Entered`); the write lock keeps the
committed rows as they were meanwhile. A commit therefore enters all rows, each trophy
with the date of its first row (`EnteredAll`, `FirstDatesEntered`), and
`StoredSound` carries this to the reply, minus what was revoked in between. For the
cached page (`PageInv`) it matters that it is dated by the request and read afterwards.

### What is only model-checked

- `PagesWhole`, but for `PageCurrent`: that sums over the same rows agree, and what a
  fold over them comes to, are inductions over data, which the installed provers cannot
  do.
- `TypesOK` is the types of the eight services together; seven of them are theorems.
  `TrophiesTyped` is not: what a configuration is parsed to is a `SelectSeq`, of which
  the prover knows nothing.
- Liveness: `HeldLoginsResolve`. Fairness and ENABLED are outside the prover's reach.
- That the violation runs' sentences are false: a counterexample is all there is to
  find.

## Where code and documents disagree

The runs with `"expect": "violation"` each refute one sentence of a document or
comment; `findings` in `PROJECT.json` quotes it. The counterexample of the run
is the schedule that shows it.

Met on the way, and visible in the guards and history variables that keep the
properties true rather than in a run of its own: two devices that sign in to one
account at once both pass the already-connected check and both come online
(`cmd_account.cpp:102`; `NobodyLockedOut` covers what they leave behind); a kicked player's session
still names the room; an heir's session does not know that it owns its room; a
room of more than 64 slots gives the same slot twice (properties about slots speak of smaller rooms only); a rejection decided under old rules may start its cooldown after
the new rules cleared them all; the usage count is off, and the matchmaking slot taken, after a
self-deletion; a change of
matchmaking access to "never" between the gate's check and the slot's acquisition
leaves a slot with a refused session; and the score boards' ghost entries and
unshown rows described above.

## Not modelled

- Matchmaking notifications: they are built under `roomsLock` and posted to each
  member's event loop; nothing in the server depends on their order, and games are
  not in the repository.
- Attributes of rooms and members, session data, profile texts, avatars, names and
  groups of trophies, title small storage, the commerce catalogue: each is copied in
  or out under one lock or by one statement.
- The STUN server, the presence, profile and identity routes, the usage statistics:
  single reads of tables that other modules have.
- Packet framing and the syntax of the configuration files: the modules work on
  decoded requests and parsed texts.
- The logger, the main program, the desktop tools (but for what an editor does to a
  file) and the sample client.

## Plan

1. `RoomEvents`: who is told what when handlers overlap after `roomsLock`, once a
   client is at hand to say what depends on it.
2. Database errors in `FriendPresence` (AddBlock takes a failed read for an empty
   row), and at the reads and commits of `TitleStorage`.
3. A second sign-in over one connection in `SessionLifecycle`, once the code says what
   it should do; three theorems assume it away.
4. The types of parsed trophy configurations, when the prover has facts about
   `SelectSeq`; the sums of the trophy pages, when it has induction.
