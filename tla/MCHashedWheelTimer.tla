------------------------- MODULE MCHashedWheelTimer -------------------------
(* Small instance of HashedWheelTimer for TLC. *)
EXTENDS HashedWheelTimer, TLC

Symmetry == Permutations(Timeouts)
=============================================================================
