-------------------------- MODULE MCParsePipeline --------------------------
(* Instance of ParsePipeline for TLC.                                       *)
EXTENDS ParsePipeline, TLC

CONSTANTS w1, w2, c1, c2

MCWorkers == {w1, w2}
MCCallers == {c1, c2}
MCSymmetry == Permutations(MCWorkers) \cup Permutations(MCCallers)
=============================================================================
