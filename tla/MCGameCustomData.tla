--------------------------- MODULE MCGameCustomData ---------------------------
(***************************************************************************)
(* GameCustomData with two users, in two families: one item of any kind,   *)
(* with blocks and expiry; and three plain ones, so that the third pushes  *)
(* the first out.                                                          *)
(***************************************************************************)
EXTENDS GameCustomData

Plain(item) == ~item.url /\ item.expires = Forever /\ item.titleId = ""

Sending == inHand' # NothingInHand /\ inHand'.op = "create"

CustomDataInFamily ==
  \/ lastItem' <= 1 /\ (Sending => lastItem' < 1)
  \/ /\ blocked' = {} /\ hour' = 0
     /\ \A id \in Ids : items'[id] = NoItem \/ Plain(items'[id])
     /\ Sending => Plain(inHand'.item)
==============================================================================
