------------------------- MODULE MCOrderedScheduler -------------------------
(* Instance of OrderedScheduler for TLC.                                    *)
EXTENDS OrderedScheduler, TLC

CONSTANTS a, b

MCTwo == {a, b}
MCNone == {}
MCFaults == {"repeat", "throw"}
MCSymmetry == Permutations(Devices)
=============================================================================
