----------------------------- MODULE MCNativeApp ------------------------------
(* Instances of NativeApp: an ephemeral child and one with a history, each *)
(* with a request for its result.                                          *)
EXTENDS NativeApp
CONSTANTS c1, c2, r1, r2
MCOf == [r \in Reads |-> IF r = r1 THEN c1 ELSE c2]
=============================================================================
