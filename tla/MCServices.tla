----------------------------- MODULE MCServices -----------------------------
(***************************************************************************)
(* The services that keep to themselves, one after the other in one run: a *)
(* behaviour follows one of them, and what the others keep does not move.  *)
(* Each keeps its own names and variables here.                            *)
(***************************************************************************)
EXTENDS MCAccounts, MCAuthCodes, MCTitleStorage, LoginThrottle, Entitlements,
        MCGameCustomData, MCConfigFiles, MCTrophies, TLC

VARIABLE service

Both == {1, 2}
Ones == {1}

Granted(from, to, type, consumable, count, limit) ==
  [active |-> from, inactive |-> to, type |-> type, consumable |-> consumable,
   count |-> count, limit |-> limit]
TwoTitles == {"", "A"}
ThreeGrants ==
  {Granted(0, NoDate, "service", TRUE, 0, 2), Granted(1, NoDate, "service", TRUE, 1, 1),
   Granted(0, 1, "unified", FALSE, 0, 0)}

Scope(communicationId, titleId) == [communicationId |-> communicationId, titleId |-> titleId]
Attachment(url, lifetime) == [url |-> url, lifetime |-> lifetime]
TwoScopes == {Scope("", ""), Scope("c", "t")}
ThreeAttachments ==
  {Attachment(FALSE, Forever), Attachment(FALSE, 1), Attachment(TRUE, Forever)}

ThreeServices == {"worlds", "scoreboards", "clientversions"}
One == <<"g", 1>>
Two == <<"g", 2>>
FourTexts == {<<>>, One :> 1, One :> 2, (One :> 1) @@ (Two :> 2)}
OneWorld == One :> 1

TwoGames == {"a", "b"}
FourIds == {-1, 0, 1, 9}
Uploaded(id, stamp) == [id |-> id, stamp |-> stamp]
UploadsOf ==
  [a |-> {<<>>, <<Uploaded(0, 2), Uploaded(0, 1), Uploaded(1, 0)>>, <<Uploaded(1, 2), Uploaded(9, 2)>>},
   b |-> {<<Uploaded(1, 1)>>}]
Entry(id, grade, named) == [id |-> id, grade |-> grade, named |-> named]
FourConfigs ==
  {<<Entry(1, "P", TRUE), Entry(-1, "B", TRUE), Entry(0, "X", TRUE)>>,
   <<Entry(0, "S", TRUE), Entry(1, "B", FALSE)>>,
   <<Entry(0, "S", TRUE), Entry(0, "S", TRUE)>>,
   <<Entry(0, "S", FALSE)>>}
AllServices ==
  {"accounts", "codes", "storage", "throttle", "entitlements", "custom data",
   "configuration", "trophies"}

\* What has several initial states has them only if it is followed.
ServicesInit ==
  /\ service \in AllServices
  /\ AccountsInit /\ CodesInit /\ StorageInit /\ ThrottleInit
  /\ EntitlementsInit /\ CustomDataInit /\ ConfigInit /\ TrophiesInit
  /\ service # "throttle" => api = "member"
  /\ service # "configuration" => config = "worlds" /\ file = NoFile

ServicesNext ==
  /\ service' = service
  /\ \/ /\ service = "accounts" /\ AccountsNext
        /\ UNCHANGED <<codesVars, storageVars, throttleVars, entitlementVars,
                       customDataVars, configVars, trophyVars>>
     \/ /\ service = "codes" /\ CodesNext
        /\ UNCHANGED <<accountsVars, storageVars, throttleVars, entitlementVars,
                       customDataVars, configVars, trophyVars>>
     \/ /\ service = "storage" /\ StorageNext
        /\ UNCHANGED <<accountsVars, codesVars, throttleVars, entitlementVars,
                       customDataVars, configVars, trophyVars>>
     \/ /\ service = "throttle" /\ ThrottleNext
        /\ UNCHANGED <<accountsVars, codesVars, storageVars, entitlementVars,
                       customDataVars, configVars, trophyVars>>
     \/ /\ service = "entitlements" /\ EntitlementsNext
        /\ UNCHANGED <<accountsVars, codesVars, storageVars, throttleVars,
                       customDataVars, configVars, trophyVars>>
     \/ /\ service = "custom data" /\ CustomDataNext
        /\ UNCHANGED <<accountsVars, codesVars, storageVars, throttleVars,
                       entitlementVars, configVars, trophyVars>>
     \/ /\ service = "configuration" /\ ConfigNext
        /\ UNCHANGED <<accountsVars, codesVars, storageVars, throttleVars,
                       entitlementVars, customDataVars, trophyVars>>
     \/ /\ service = "trophies" /\ TrophiesNext
        /\ UNCHANGED <<accountsVars, codesVars, storageVars, throttleVars,
                       entitlementVars, customDataVars, configVars>>

servicesVars ==
  <<service, accountsVars, codesVars, storageVars, throttleVars, entitlementVars,
    customDataVars, configVars, trophyVars>>
ServicesSpec == ServicesInit /\ [][ServicesNext]_servicesVars

\* The families that bound the larger ones.
ServicesInFamily ==
  CASE service = "accounts" -> AccountsInFamily
    [] service = "codes" -> CodesInFamily
    [] service = "storage" -> StorageInFamily
    [] service = "trophies" -> TrophiesInFamily
    [] service = "custom data" -> CustomDataInFamily
    [] service = "configuration" -> ConfigInFamily
    [] OTHER -> TRUE

-----------------------------------------------------------------------------
(* Each service's properties hold while it is at work; those of the extended *)
(* modules are checked as they stand.                                        *)

\* Every service keeps to its types, and to the invariants that come with them.
TypesOK ==
  CASE service = "accounts" -> AccountsTyped
    [] service = "codes" -> CodesTyped
    [] service = "storage" -> StorageTyped
    [] service = "throttle" -> ThrottleTyped
    [] service = "entitlements" -> EntitlementsTyped
    [] service = "trophies" -> TrophiesTyped
    [] service = "custom data" -> CustomDataTyped
    [] service = "configuration" -> ConfigTyped

\* A list that is asked for page by page comes whole, each entry once: the entitlements
\* of a title, which also shows one row of a label however it is asked for
\* (entitlement_db.cpp:66).  The pages that add up trophies agree (database.cpp:1646), and
\* none is older than it may be (stats_server.cpp:203).  It is enough to look where the
\* tables a page is made of come to rest: they are found again in a state in which nothing
\* is under way.
PagesWhole ==
  /\ service = "entitlements" /\ usage = NoUse /\ useAnswer = Unanswered =>
       VisibleAgrees
  /\ service = "trophies" =>
       /\ (\A w \in Workers : pending[w] = NoWork) => PagesAgree
       /\ PageCurrent
=============================================================================
