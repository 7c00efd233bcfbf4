---------------------------- MODULE MCYashdSession ----------------------------
(* Instances of YashdSession for TLC. *)
EXTENDS YashdSession, TLC

Symmetry == Permutations(Pids) \cup Permutations(Sessions)

===============================================================================
