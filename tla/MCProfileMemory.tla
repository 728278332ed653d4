---------------------------- MODULE MCProfileMemory ----------------------------
(* A small instance of ProfileMemory for TLC.                               *)
EXTENDS ProfileMemory, TLC

\* Nothing in the module orders the values.
AnyValues == Permutations(Values)
=============================================================================
