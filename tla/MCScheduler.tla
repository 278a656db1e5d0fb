---------------------------- MODULE MCScheduler -----------------------------
(* Small instance of Scheduler for TLC. *)
EXTENDS Scheduler, TLC

CONSTANTS cyc, once, t1, t2, t3, t4

Symmetry == Permutations(Timeouts)

\* Every job is added and removed once, or cyc alone is, twice.
OnceEach == {[ops |-> [j \in Jobs |-> 1], timeouts |-> 3]}
OnceEachOrTwice ==
  OnceEach \cup {[ops |-> [j \in Jobs |-> IF j = cyc THEN 2 ELSE 0], timeouts |-> 4]}
=============================================================================
