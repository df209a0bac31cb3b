---------------------------- MODULE Entitlements ----------------------------
(***************************************************************************)
(* The entitlements of one player under one service label: operators grant *)
(* and revoke them through the admin API, games list, show and use them up *)
(* through the WebAPI.  (entitlement_db.cpp, webapi_routes_entitlements.cpp*)
(* and the entitlement routes of admin_api.cpp)                            *)
(*                                                                         *)
(* All routes run on the main thread.  Threads of game sessions change the *)
(* title the player is in, and may delete the account between what a       *)
(* request reads and what it writes.                                       *)
(***************************************************************************)
EXTENDS Integers, FiniteSets, SequencesExt

CONSTANTS
  Titles,    \* title serials, "" for every title or none
  Labels,    \* entitlement labels, in the order of their names
  Grants,    \* what operators grant, once EntitlementFromAdminJson has accepted it
  Counts,    \* numbers of uses asked for
  Pages,     \* page sizes asked for
  NoDate,    \* no inactive_date
  NotGranted, NoUse,
  MaxDays    \* bound on the clock

AllTitles == ""

GrantRow ==
  [active: Int, inactive: Int \cup {NoDate}, type: STRING, consumable: BOOLEAN,
   count: Int, limit: Int]

\* What EntitlementFromAdminJson lets through.
Grantable(g) ==
  IF g.consumable
  THEN g.type = "service" /\ g.inactive = NoDate /\ g.limit >= 0 /\ g.count >= 0
  ELSE /\ g.type \in {"service", "unified"}
       /\ g.inactive # NoDate => g.inactive > g.active
       /\ g.limit = 0 /\ g.count = 0

ASSUME EntitlementConstants ==
  /\ AllTitles \in Titles /\ Labels \subseteq Nat /\ Counts \subseteq Nat \ {0}
  /\ Pages \subseteq Nat \ {0} /\ MaxDays \in Nat
  /\ Grants \subseteq GrantRow /\ \A g \in Grants : Grantable(g)
  /\ NotGranted \notin GrantRow
  /\ NoUse \notin [key: Titles \X Labels, count: Counts, at: 0 .. MaxDays]

VARIABLES
  entitlements,  \* entitlements[<<title, label>>]
  granted,       \* history: the uses, left and used, of the grant a row goes back to
  title,         \* CallerTitleId
  usage,         \* a use whose row has been read, or NoUse
  useAnswer,     \* the answer of this step
  today

entitlementVars == <<entitlements, granted, title, usage, useAnswer, today>>

Unanswered == <<>>
EntitlementKeys == Titles \X Labels
IsActive(row, at) == row.active <= at /\ (row.inactive # NoDate => at < row.inactive)

-----------------------------------------------------------------------------
(* Which row of a label a title sees. *)

Candidates(label) == {t \in {title, AllTitles} : entitlements[<<t, label>>] # NotGranted}

\* The rows come in no particular order; `seen` is the title of the row that was met
\* first, and NotGranted if there was none.
\* Mutant: whatever comes later wins.
Shadowing_Last(seen, t) == t

Shadowing(seen, t) == IF seen = NotGranted \/ (seen = AllTitles /\ t # AllTitles) THEN t ELSE seen

\* The titles of the rows ListVisible may come to for a label.
ListVisible(label) ==
  {FoldLeft(Shadowing, NotGranted, order) : order \in SetToSeqs(Candidates(label))}

\* Ordered by title, "" first: the last row.
GetVisible(label) ==
  IF Candidates(label) = {} THEN NotGranted
  ELSE IF title \in Candidates(label) THEN title ELSE AllTitles

\* The filter comes after the shadowing.
Shown(label) == entitlements[<<CHOOSE t \in ListVisible(label) : TRUE, label>>]
Listed(types, ids) == {l \in ids : Candidates(l) # {} /\ Shown(l).type \in types}

SortedByActiveDate(labels, descending) ==
  LET before(a, b) ==
        \/ Shown(a).active < Shown(b).active
        \/ Shown(a).active = Shown(b).active /\ a < b
      order == SetToSortSeq(labels, before)
  IN  IF descending THEN Reverse(order) ELSE order

\* `start` counts pages.
Page(order, start, size) ==
  LET from == Min({start * size, Len(order)})
      last == Min({from + size, Len(order)})
  IN  SubSeq(order, from + 1, last)

-----------------------------------------------------------------------------
NoneInHand == usage = NoUse

Upsert(k, g) == entitlements' = [entitlements EXCEPT ![k] = g]

AdminGrants(k, g) ==
  /\ NoneInHand
  /\ Upsert(k, g)
  /\ granted' = [granted EXCEPT ![k] = g.count + g.limit]
  /\ useAnswer' = Unanswered
  /\ UNCHANGED <<title, usage, today>>

AdminRevokes(k) ==
  /\ NoneInHand /\ entitlements[k] # NotGranted
  /\ entitlements' = [entitlements EXCEPT ![k] = NotGranted]
  /\ useAnswer' = Unanswered
  /\ UNCHANGED <<granted, title, usage, today>>

\* PUT /v1/users/me/entitlements/<label>: the row the title sees is looked at first.
Consume(label, count) ==
  /\ NoneInHand
  /\ LET t == GetVisible(label) IN
     IF t = NotGranted THEN useAnswer' = <<"NotFound">> /\ UNCHANGED usage
     ELSE LET row == entitlements[<<t, label>>] IN
       IF ~row.consumable THEN useAnswer' = <<"NotConsumable">> /\ UNCHANGED usage
       ELSE IF ~IsActive(row, today) THEN useAnswer' = <<"Inactive">> /\ UNCHANGED usage
       ELSE /\ usage' = [key |-> <<t, label>>, count |-> count, at |-> today]
            /\ useAnswer' = Unanswered
  /\ UNCHANGED <<entitlements, granted, title, today>>

\* Mutant: the limit is not part of the condition of the UPDATE.
Matches_AnyLimit(row, r) == row # NotGranted /\ row.consumable /\ IsActive(row, r.at)

Matches(row, r) ==
  row # NotGranted /\ row.consumable /\ row.limit >= r.count /\ IsActive(row, r.at)

\* The transaction: UPDATE, and the limit read back.
ConsumeUpdate ==
  /\ usage # NoUse
  /\ LET row == entitlements[usage.key] IN
     IF Matches(row, usage)
     THEN /\ entitlements' = [entitlements EXCEPT ![usage.key].count = @ + usage.count,
                                                  ![usage.key].limit = @ - usage.count]
          /\ useAnswer' = <<"Used", row.limit - usage.count>>
     ELSE /\ useAnswer' = <<"InsufficientUses", usage>>
          /\ UNCHANGED entitlements
  /\ usage' = NoUse
  /\ UNCHANGED <<granted, title, today>>

\* A game starts, or the title it was last seen in is forgotten with a restart.
Login(t) ==
  /\ title' = t
  /\ useAnswer' = Unanswered
  /\ UNCHANGED <<entitlements, granted, usage, today>>

AccountDeleted ==
  /\ entitlements' = [k \in EntitlementKeys |-> NotGranted]
  /\ useAnswer' = Unanswered
  /\ UNCHANGED <<granted, title, usage, today>>

DayPasses ==
  /\ today < MaxDays
  /\ today' = today + 1
  /\ useAnswer' = Unanswered
  /\ UNCHANGED <<entitlements, granted, title, usage>>

EntitlementsInit ==
  /\ entitlements = [k \in EntitlementKeys |-> NotGranted] /\ granted = [k \in EntitlementKeys |-> 0]
  /\ title = AllTitles /\ usage = NoUse /\ useAnswer = Unanswered /\ today = 0

EntitlementsNext ==
  \/ \E k \in EntitlementKeys : AdminRevokes(k) \/ \E g \in Grants : AdminGrants(k, g)
  \/ \E label \in Labels, count \in Counts : Consume(label, count)
  \/ \E t \in Titles : Login(t)
  \/ ConsumeUpdate
  \/ AccountDeleted
  \/ DayPasses

EntitlementsSpec == EntitlementsInit /\ [][EntitlementsNext]_entitlementVars

-----------------------------------------------------------------------------
EntitlementsTyped ==
  /\ \A k \in EntitlementKeys : entitlements[k] = NotGranted \/ Grantable(entitlements[k])
  /\ title \in Titles /\ today \in 0 .. MaxDays

\* What was granted is used or left, never less than nothing is left, and a use is
\* refused for want of uses only if the row it was for has fewer, or is gone with the
\* account (entitlement_db.cpp, Consume).
UsesAccounted ==
  /\ \A k \in EntitlementKeys : entitlements[k] # NotGranted =>
       /\ entitlements[k].limit >= 0
       /\ entitlements[k].count + entitlements[k].limit = granted[k]
  /\ useAnswer # Unanswered /\ useAnswer[1] = "InsufficientUses" =>
       LET row == entitlements[useAnswer[2].key] IN row = NotGranted \/ row.limit < useAnswer[2].count

\* A title sees one row of a label, however it asks: in whatever order the rows come,
\* the list has the row that is shown and used; and the pages of the list, put
\* together, are the list.
VisibleAgrees ==
  /\ \A l \in Labels : ListVisible(l) = {GetVisible(l)}
  /\ \A types \in {{"service"}, {"unified"}, {"service", "unified"}}, descending \in BOOLEAN :
       LET order == SortedByActiveDate(Listed(types, Labels), descending) IN
       \A size \in Pages :
         FlattenSeq([i \in 1 .. Len(order) + 1 |-> Page(order, i - 1, size)]) = order
=============================================================================
