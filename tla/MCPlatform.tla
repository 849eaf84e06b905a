----------------------------- MODULE MCPlatform -----------------------------
(* An administrator and an analyst; the calls are interchangeable. *)
EXTENDS Platform, TLC

CallSymmetry == Permutations(Calls)
=============================================================================
