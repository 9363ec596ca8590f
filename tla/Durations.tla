------------------------------ MODULE Durations ------------------------------
(***************************************************************************)
(* Arithmetic on time.Duration, a signed integer of Width bits (64 in Go): *)
(* what a product and a shift leave of a value that does not fit.          *)
(***************************************************************************)
EXTENDS Integers

CONSTANT Width          \* bits of a duration

ASSUME WidthAssumption == Width \in Nat \ {0, 1}

(* 2^n, in a form the proofs can unfold. *)
Pow2[n \in Nat] == IF n = 0 THEN 1 ELSE 2 * Pow2[n - 1]

MaxDuration == Pow2[Width - 1] - 1

(* What is left of an integer in a duration. *)
Wrap(n) == ((n + Pow2[Width - 1]) % Pow2[Width]) - Pow2[Width - 1]

(* d << k: Go shifts everything out once k reaches the width. *)
Shl(d, k) == IF k >= Width THEN 0 ELSE Wrap(d * Pow2[k])

(* if d > max { d = max } *)
Clamp(d, max) == IF d > max THEN max ELSE d
=============================================================================
