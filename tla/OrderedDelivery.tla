-------------------------- MODULE OrderedDelivery --------------------------
(***************************************************************************)
(* What OrderedParsePipeline promises its owner, without its threads: the  *)
(* tasks accepted so far are numbered, they are settled one after the      *)
(* other in that order, each is handed over at most once on the way, at    *)
(* most Window + 1 of them are outstanding, and nothing is accepted after  *)
(* the close.                                                              *)
(***************************************************************************)
EXTENDS Naturals, Sequences

CONSTANT Window

VARIABLES accepted,  \* tasks 1..accepted were accepted
          settled,   \* tasks 1..settled are done with
          log,       \* tasks handed over, in order
          error,     \* earliest settled task that failed, 0 if none
          closed

vars == <<accepted, settled, log, error, closed>>

Init == /\ accepted = 0 /\ settled = 0
        /\ log = <<>> /\ error = 0 /\ closed = FALSE

Accept == /\ ~closed
          /\ accepted - settled <= Window
          /\ accepted' = accepted + 1
          /\ UNCHANGED <<settled, log, error, closed>>

\* Hand the next task over, unless that has happened already.
Deliver == /\ settled < accepted
           /\ \A i \in DOMAIN log : log[i] <= settled
           /\ log' = Append(log, settled + 1)
           /\ UNCHANGED <<accepted, settled, error, closed>>

\* The next task is done with; it succeeded only if it was handed over.
Settle == /\ settled < accepted
          /\ settled' = settled + 1
          /\ \/ /\ \E i \in DOMAIN log : log[i] = settled + 1
                /\ error' = error
             \/ error' = IF error = 0 THEN settled + 1 ELSE error
          /\ UNCHANGED <<accepted, log, closed>>

Close == ~closed /\ closed' = TRUE /\ UNCHANGED <<accepted, settled, log, error>>

Next == Accept \/ Deliver \/ Settle \/ Close

Spec == Init /\ [][Next]_vars
=============================================================================
