---------------------------- MODULE MCWebSessions ----------------------------
(***************************************************************************)
(* An instance of WebSessions for TLC in two families: two public sessions *)
(* of two members with two indices, and one session that may be private,   *)
(* updated and invited to.  The first and third player are friends.        *)
(***************************************************************************)
EXTENDS WebSessions, TLC

CONSTANTS u1, u2, u3

SomeFriends == (u1 :> {u3}) @@ (u2 :> {}) @@ (u3 :> {u1})

Kind(type, privacy) == [type |-> type, privacy |-> privacy, maxUser |-> 2]
AllKinds == {Kind(t, p) : t \in {"owner-bind", "owner-migration"}, p \in {"public", "private"}}

\* An update that makes a session public or private, and its size 1 or unlimited.
SomeUpdates == {[privacy |-> "public", maxUser |-> 1], [privacy |-> "private", maxUser |-> 0]}

FriendSymmetry == Permutations({u1, u3})

InFamily ==
  \/ /\ invitations' = <<>>
     /\ \A id \in SessionId : Live(id)' => sessions'[id].privacy = "public" /\ sessions'[id].maxUser = 2
  \/ created' <= 1 /\ request'.index = 0
=============================================================================
