----------------------------- MODULE MCChecker -----------------------------
(* Instance of Checker for TLC: sets that a cfg cannot write as sets of     *)
(* numbers of a range are given here.                                       *)
EXTENDS Checker

MCNoDbi == {2}
MCDbiKernels == {2}
MCNone == {}
=============================================================================
