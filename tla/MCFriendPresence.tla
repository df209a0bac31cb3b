-------------------------- MODULE MCFriendPresence --------------------------
(* Instances of FriendPresence for TLC. *)
EXTENDS FriendPresence, TLC

UserSymmetry == Permutations(Users)

\* Bounds of the runs: nothing else happens between the reply to a login and its
\* registration; at most two threads have something in hand at a time.
NobodyMeetsLogin ==
  \A u \in Users : sess[u] = "held" => sess'[u] # "held" \/ job'[u].op = "login"
TwoAtOnce == Cardinality(Busy') <= 2
=============================================================================
