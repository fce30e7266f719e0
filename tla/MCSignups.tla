----------------------------- MODULE MCSignups -----------------------------
(* Two handlers; addresses whose local parts make the same nickname.       *)
EXTENDS Signups, TLC

CONSTANTS e1, e2, player

MCBase == e1 :> player @@ e2 :> player
=============================================================================
