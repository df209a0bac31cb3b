---------------------------- MODULE MCAuthCodes ----------------------------
(* AuthCodes, the first code asked for by the first player for the first   *)
(* backend.                                                                *)
EXTENDS AuthCodes

CONSTANT firstPlayer

CodesInFamily ==
  \A c \in Codes : grants'[c] # NoGrant /\ grants'[c].number = 1 =>
    grants'[c].user = firstPlayer /\ grants'[c].client = firstPlayer
=============================================================================
