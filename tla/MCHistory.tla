------------------------------- MODULE MCHistory -------------------------------
(* Instances of History for TLC. *)
EXTENDS History, TLC

Symmetry == Permutations(Shell) \cup Permutations(Session) \cup Permutations(Command)
=============================================================================
