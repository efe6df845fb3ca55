---------------------------- MODULE VectorClock ----------------------------
(***************************************************************************)
(* Vector times (core/framework/vector_clock.cpp, vector_time.h).  A time  *)
(* is a function from pipes to numbers; an entry the sparse VectorTime     *)
(* does not hold is 1.                                                     *)
(***************************************************************************)
EXTENDS Integers

(* UpdateVectorTime: in is merged into out. *)
Merge(in, out) == [p \in DOMAIN out |-> IF in[p] > out[p] THEN in[p] ELSE out[p]]
(* UpdateLogicTime. *)
Tick(t, p) == [t EXCEPT ![p] = @ + 1]
(* IsNotHappensBefore: t1 is the time of an event on pipe p1, t2 of one on *)
(* pipe p2.                                                                *)
Concurrent(t1, t2, p1, p2) ==
  \/ t1[p1] < t2[p1] /\ t1[p2] > t2[p2]
  \/ t1[p1] > t2[p1] /\ t1[p2] < t2[p2]
=============================================================================
