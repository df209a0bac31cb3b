------------------------- MODULE MCSessionLifecycle -------------------------
(* Instances of SessionLifecycle for TLC. *)
EXTENDS SessionLifecycle, TLC

CONSTANTS c1, c2, a1, a2, good, bad

\* One device per account.
OwnDevices == (c1 :> {a1}) @@ (c2 :> {a2})
\* Two devices that sign in to the same account.
SharedDevices == (c1 :> Accounts) @@ (c2 :> Accounts)

OnlyGood == {{good}}
AllRules == {{good}, {good, bad}, {bad}}
=============================================================================
