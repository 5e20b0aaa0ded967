------------------------------ MODULE MCBridge -------------------------------
(* Instances of Bridge, with its interchangeable values.                   *)
EXTENDS Bridge, TLC
MCSymmetry == Permutations(Calls) \cup Permutations(Queries) \cup Permutations(Msgs)
=============================================================================
