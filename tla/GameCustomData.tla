--------------------------- MODULE GameCustomData ---------------------------
(***************************************************************************)
(* Game custom data: items a player sends to others through the WebAPI,    *)
(* which each of them lists, reads and uses once.                          *)
(* (game_custom_data_db.cpp, webapi_routes_game_custom_data.cpp)           *)
(*                                                                         *)
(* The routes run on the main thread, one request at a time; `inHand` is   *)
(* what is left of the one in hand.  Meanwhile the threads of game sessions*)
(* block players and delete accounts.  The checks of a message's form, the *)
(* attachments themselves and the fields of the answers are left out.      *)
(***************************************************************************)
EXTENDS Integers, FiniteSets, SequencesExt

CONSTANTS
  People,
  Scopes,      \* [communicationId, titleId] of a caller, "" for unknown
  Attachments, \* [url, lifetime] of what is sent; lifetime Forever for none
  Forever, NoItem, NothingInHand,
  kMaxReceivedPerUser,
  MaxItems, MaxHours  \* bounds on the items and on the clock

\* A row of game_custom_data.
ItemRow ==
  [from: People, communicationId: STRING, titleId: STRING, url: BOOLEAN,
   expires: Nat \cup {Forever}]

ASSUME CustomDataConstants ==
  /\ IsFiniteSet(People)
  /\ Scopes \subseteq [communicationId: STRING, titleId: STRING]
  /\ Attachments \subseteq [url: BOOLEAN, lifetime: Nat \cup {Forever}] /\ Forever \notin Nat
  /\ NoItem \notin ItemRow
  /\ kMaxReceivedPerUser \in Nat \ {0} /\ MaxItems \in Nat /\ MaxHours \in Nat

VARIABLES
  registered, \* users whose account exists
  blocked,    \* blocked pairs: <<who, whom>>
  items,      \* items[id]: game_custom_data
  lastItem,   \* the last id drawn (sqlite_sequence)
  received,   \* game_custom_data_recipient: [item, user, used]
  inHand,     \* what is left of the request in hand
  told,       \* the players this step has told of an item, with the item
  hour

customDataVars == <<registered, blocked, items, lastItem, received, inHand, told, hour>>

Ids == 1 .. MaxItems
Receipt(id, u, used) == [item |-> id, user |-> u, used |-> used]
RowsOf(rows, u) == {r \in rows : r.user = u}

IsBlockedBetween(a, b) == <<a, b>> \in blocked \/ <<b, a>> \in blocked
IsExpired(item) == item.expires # Forever /\ hour >= item.expires

\* A caller whose game is not known sees what came from any game.
InScope(item, scope) ==
  \/ scope.communicationId = "" /\ scope.titleId = ""
  \/ item.communicationId # "" /\ item.communicationId = scope.communicationId
  \/ item.titleId # "" /\ item.titleId = scope.titleId

\* The items without a row go, with the rows of other users.
Orphans(rows) == {id \in Ids : items[id] # NoItem /\ ~\E r \in rows : r.item = id}
Remaining(gone) == [id \in Ids |-> IF id \in gone THEN NoItem ELSE items[id]]

-----------------------------------------------------------------------------
(* POST /v1/gameCustomData/items *)

\* The addressees exist and nobody is blocked.  What the rest of the message says
\* is not looked at again.
HandleSend(u, to, attachment, scope) ==
  /\ inHand = NothingInHand /\ u \in registered /\ to \subseteq registered /\ lastItem < MaxItems
  /\ \A v \in to : ~IsBlockedBetween(u, v)
  /\ inHand' = [op |-> "create", to |-> to,
       item |-> [from |-> u, communicationId |-> scope.communicationId, titleId |-> scope.titleId,
                 url |-> attachment.url,
                 expires |-> IF attachment.lifetime = Forever THEN Forever ELSE hour + attachment.lifetime]]
  /\ told' = <<>>
  /\ UNCHANGED <<registered, blocked, items, lastItem, received, hour>>

\* The transaction: the item and a row for everybody it is for.
CreateItem ==
  /\ inHand # NothingInHand /\ inHand.op = "create"
  /\ lastItem' = lastItem + 1
  /\ items' = [items EXCEPT ![lastItem + 1] = inHand.item]
  /\ received' = received \cup {Receipt(lastItem + 1, u, FALSE) : u \in inHand.to}
  /\ inHand' = [op |-> "prune", left |-> inHand.to, to |-> inHand.to, from |-> inHand.item.from]
  /\ told' = <<>>
  /\ UNCHANGED <<registered, blocked, hour>>

\* Mutant: the rows of everybody count.
KeptRows_OfAll(rows, u) ==
  {r \in RowsOf(rows, u) :
     Cardinality({newer \in rows : newer.item > r.item}) < kMaxReceivedPerUser}

KeptRows(rows, u) ==
  {r \in RowsOf(rows, u) :
     Cardinality({newer \in RowsOf(rows, u) : newer.item > r.item}) < kMaxReceivedPerUser}

\* One addressee after the other, each a statement of its own; items nobody has a row
\* of go if a row went.
PruneReceived(u) ==
  /\ inHand # NothingInHand /\ inHand.op = "prune" /\ u \in inHand.left
  /\ LET kept == (received \ RowsOf(received, u)) \cup KeptRows(received, u) IN
     /\ received' = kept
     /\ items' = IF kept = received THEN items ELSE Remaining(Orphans(kept))
  /\ inHand' = [inHand EXCEPT !.left = @ \ {u}]
  /\ told' = <<>>
  /\ UNCHANGED <<registered, blocked, lastItem, hour>>

\* Whoever of the addressees is online, in the sender's game or one that is not
\* known, gets an event.
SendGameCustomDataEvent(online) ==
  /\ inHand # NothingInHand /\ inHand.op = "prune" /\ inHand.left = {}
  /\ told' = <<lastItem, inHand.to \cap online>>
  /\ inHand' = NothingInHand
  /\ UNCHANGED <<registered, blocked, items, lastItem, received, hour>>

-----------------------------------------------------------------------------
(* Items a player has received. *)

GetReceived(u, id, scope) ==
  \E r \in RowsOf(received, u) : r.item = id /\ InScope(items[id], scope)

\* PUT .../items/<id>: looked at, then marked.
MarkUsed(u, id, scope) ==
  /\ inHand = NothingInHand /\ u \in registered
  /\ GetReceived(u, id, scope) /\ ~items[id].url /\ ~IsExpired(items[id])
  /\ Receipt(id, u, FALSE) \in received
  /\ inHand' = [op |-> "use", user |-> u, item |-> id]
  /\ told' = <<>>
  /\ UNCHANGED <<registered, blocked, items, lastItem, received, hour>>
Marked ==
  /\ inHand # NothingInHand /\ inHand.op = "use"
  /\ LET row == Receipt(inHand.item, inHand.user, FALSE) IN
     received' = IF row \in received
                 THEN (received \ {row}) \cup {Receipt(inHand.item, inHand.user, TRUE)}
                 ELSE received
  /\ inHand' = NothingInHand
  /\ told' = <<>>
  /\ UNCHANGED <<registered, blocked, items, lastItem, hour>>

-----------------------------------------------------------------------------
(* The threads of game sessions. *)

\* The rows of the account and the items it sent go; the rows of those with them.
DeleteUser(u) ==
  /\ u \in registered
  /\ registered' = registered \ {u}
  /\ LET sent == {id \in Ids : items[id] # NoItem /\ items[id].from = u} IN
     /\ items' = Remaining(sent)
     /\ received' = {r \in received : r.user # u /\ r.item \notin sent}
  /\ told' = <<>>
  /\ UNCHANGED <<blocked, lastItem, inHand, hour>>

Block(a, b) ==
  /\ blocked' \in {blocked \cup {<<a, b>>}, blocked \ {<<a, b>>}}
  /\ told' = <<>>
  /\ UNCHANGED <<registered, items, lastItem, received, inHand, hour>>

HourPasses ==
  /\ hour < MaxHours
  /\ hour' = hour + 1
  /\ told' = <<>>
  /\ UNCHANGED <<registered, blocked, items, lastItem, received, inHand>>

CustomDataInit ==
  /\ registered = People /\ blocked = {}
  /\ items = [id \in Ids |-> NoItem] /\ lastItem = 0 /\ received = {}
  /\ inHand = NothingInHand /\ told = <<>> /\ hour = 0

CustomDataNext ==
  \/ \E u \in People, to \in SUBSET People \ {{}}, a \in Attachments, scope \in Scopes :
       HandleSend(u, to, a, scope)
  \/ CreateItem
  \/ \E u \in People :
       \/ PruneReceived(u)
       \/ \E id \in Ids, scope \in Scopes : MarkUsed(u, id, scope)
       \/ DeleteUser(u)
       \/ \E v \in People \ {u} : Block(u, v)
  \/ \E online \in SUBSET People : SendGameCustomDataEvent(online)
  \/ Marked
  \/ HourPasses

CustomDataSpec == CustomDataInit /\ [][CustomDataNext]_customDataVars

-----------------------------------------------------------------------------
\* Types, every row is of an item that is there, and nobody has an item twice.
CustomDataTyped ==
  /\ registered \subseteq People /\ blocked \subseteq People \X People
  /\ lastItem \in 0 .. MaxItems /\ hour \in 0 .. MaxHours
  /\ \A r \in received : items[r.item] # NoItem /\ Receipt(r.item, r.user, ~r.used) \notin received

\* What a player has received goes only when they have as many newer items as are
\* kept, or with an account, theirs or the sender's; what was used stays used; and
\* whoever is told of an item still has it.
InboxSound ==
  /\ \A r \in received :
       \/ \E used \in BOOLEAN : Receipt(r.item, r.user, used) \in received' /\ (r.used => used)
       \/ r.user \notin registered' \/ items[r.item].from \notin registered'
       \/ Cardinality({n \in RowsOf(received', r.user) : n.item > r.item}) >= kMaxReceivedPerUser
  /\ told' # <<>> => \A u \in told'[2] :
       \/ \E r \in RowsOf(received', u) : r.item = told'[1]
       \/ u \notin registered' \/ inHand.from \notin registered'
InboxKept == [][InboxSound]_customDataVars
=============================================================================
