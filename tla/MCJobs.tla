--------------------------------- MODULE MCJobs ---------------------------------
(* Jobs for TLC: what the user starts and the commands typed. *)
EXTENDS Jobs

AllKinds == KindNames
AllBuiltins == BuiltinNames
=============================================================================
