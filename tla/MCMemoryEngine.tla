--------------------------- MODULE MCMemoryEngine ---------------------------
(* Instances of MemoryEngine for TLC.                                      *)
EXTENDS MemoryEngine

CONSTANTS t1, t2

NoEdges == {}

(* The host's threads are interchangeable.                                 *)
ThreadSymmetry == Permutations({t1, t2})
=============================================================================
