------------------------------ MODULE MCBackoff ------------------------------
(***************************************************************************)
(* Backoff with durations of Width bits in place of 64: the shift of the   *)
(* positive bases overflows within MaxAttempts, as that of 2 s does in 64  *)
(* bits after 33 attempts.                                                 *)
(***************************************************************************)
EXTENDS Backoff

MCBases == {-1, 0, 1, 2, 3}

MCCaps == {-5, 0, 5, 60}
=============================================================================
