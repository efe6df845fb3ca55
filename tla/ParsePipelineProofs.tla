------------------------ MODULE ParsePipelineProofs ------------------------
(***************************************************************************)
(* Proofs about ParsePipeline: its type invariant, its safety properties   *)
(* and that it implements OrderedDelivery, for any pool of workers, any    *)
(* set of callers, any window and any number of tasks.                     *)
(***************************************************************************)
EXTENDS ParsePipeline, SequenceTheorems, TLAPS

----------------------------------------------------------------------------
(* The inductive invariant.                                                *)

Holding  == cpc \in {"get", "commit", "count"}
Finished == parsed \cup threw

\* ordered_ holds the last Len(ordered_) submissions, in order, and the
\* committer has the one before them or has counted it.
OrderedInv == /\ \A i \in 1..Len(ordered_) : ordered_[i] + Len(ordered_) = submitted_ + i
              /\ ~Holding => committed_ + Len(ordered_) = submitted_
              /\ Holding => /\ committed_ + 1 + Len(ordered_) = submitted_
                            /\ cjob = committed_ + 1
              /\ cpc = "exit" => stop_ /\ ordered_ = <<>>
              /\ (\E c \in Callers : pc[c] = "closed") => cpc = "exit"

\* jobs_ holds the last Len(jobs_) submissions; tasks taken from it are being
\* parsed by exactly one worker or have a result.
JobsInv == /\ Len(jobs_) <= submitted_
           /\ \A i \in 1..Len(jobs_) : jobs_[i] + Len(jobs_) = submitted_ + i
           /\ \A t \in Finished : t + Len(jobs_) <= submitted_
           /\ \A w \in Workers : wpc[w] = "run" =>
                 /\ wjob[w] \in Nat \ {0}
                 /\ wjob[w] + Len(jobs_) <= submitted_
                 /\ wjob[w] \notin Finished
                 /\ \A v \in Workers : wpc[v] = "run" /\ wjob[v] = wjob[w] => v = w
           /\ \A t \in 1..committed_ : t \in Finished
           /\ cpc \in {"commit", "count"} => cjob \in Finished

\* What commit_ has seen and what has failed.
DeliveredInv == /\ CommitOrder
                /\ \A i \in 1..Len(delivered) :
                      /\ delivered[i] <= committed_ + 1
                      /\ cpc \notin {"commit", "count"} => delivered[i] <= committed_
                /\ cpc = "commit" => \E i \in 1..Len(delivered) : delivered[i] = cjob
                /\ cpc = "count" => \/ cjob \in failures
                                    \/ \E i \in 1..Len(delivered) : delivered[i] = cjob
                /\ \A t \in 1..committed_ : \/ t \in failures
                                            \/ \E i \in 1..Len(delivered) : delivered[i] = t

FailuresInv == /\ \A t \in failures : /\ t # 0 /\ t <= committed_ + 1
                                      /\ cpc # "count" => t <= committed_
               /\ failures = {} => firstError_ = 0
               /\ failures # {} => firstError_ \in failures
               /\ \A t \in failures : firstError_ <= t

IndInv == TypeOK /\ OrderedInv /\ JobsInv /\ DeliveredInv /\ FailuresInv

----------------------------------------------------------------------------
(* Lemmas about queues.                                                    *)

\* What popping the head of a queue leaves.
LEMMA TailFacts ==
    ASSUME NEW s \in Seq(Nat), s # <<>>
    PROVE  /\ Tail(s) \in Seq(Nat) /\ Head(s) \in Nat /\ Head(s) = s[1]
           /\ Len(s) \in Nat /\ Len(s) > 0 /\ Len(Tail(s)) = Len(s) - 1
           /\ \A i \in 1..Len(Tail(s)) : Tail(s)[i] = s[i + 1]
  BY EmptySeq, HeadTailProperties

\* What pushing on a queue leaves.
LEMMA AppendFacts ==
    ASSUME NEW s \in Seq(Nat), NEW e \in Nat
    PROVE  /\ Append(s, e) \in Seq(Nat)
           /\ Len(s) \in Nat /\ Len(Append(s, e)) = Len(s) + 1
           /\ \A i \in 1..Len(s) : Append(s, e)[i] = s[i]
           /\ Append(s, e)[Len(s) + 1] = e
  BY AppendProperties

----------------------------------------------------------------------------
(* Steps, sorted by the part of the state they touch.                      *)

\* A step that leaves queues, results and counts alone and moves threads only
\* between places at which they hold no task.
Quiet == \/ \E c \in Callers : \/ CallSubmit(c) \/ CallDrain(c) \/ Shutdown(c)
                               \/ SubmitBlocks(c) \/ SubmitDrops(c)
                               \/ DrainBlocks(c) \/ DrainReturns(c) \/ ShutdownJoins(c)
         \/ \E w \in Workers : WorkerSleeps(w) \/ WorkerExits(w)
         \/ CommitSleeps \/ CommitExits
         \/ SpuriousWakeup
         \/ UNCHANGED vars

\* What every quiet step guarantees.
QuietEffect == /\ UNCHANGED <<queues, futures, wjob, cjob, committed_, firstError_, delivered, failures>>
               /\ \A w \in Workers : wpc'[w] = "run" <=> wpc[w] = "run"
               /\ \A q \in {"get", "commit", "count"} : cpc' = q <=> cpc = q
               /\ cpc = "exit" => cpc' = "exit"
               /\ stop_ => stop_'
               /\ cpc' = "exit" => cpc = "exit" \/ (stop_' /\ ordered_ = <<>>)
               /\ (\E c \in Callers : pc'[c] = "closed") =>
                        cpc = "exit" \/ \E c \in Callers : pc[c] = "closed"

LEMMA NextCases ==
    ASSUME [Next]_vars
    PROVE  \/ Quiet
           \/ \E c \in Callers : SubmitAccepts(c)
           \/ \E w \in Workers : WorkerTakes(w) \/ WorkerRuns(w)
           \/ CommitTakes \/ CommitCalls \/ CommitReturns \/ CommitCatches \/ CommitCounts
  BY Zenon DEF Next, Quiet, CallerStep, WorkerStep, CommitStep

\* Type correctness is inductive by itself.
LEMMA TypeStep ==
    ASSUME TypeOK, [Next]_vars
    PROVE  TypeOK'
<1> USE PipelineAssumption
<1>1. ASSUME NEW c \in Callers,
             CallSubmit(c) \/ CallDrain(c) \/ SubmitBlocks(c) \/ SubmitDrops(c) \/ DrainBlocks(c)
             \/ DrainReturns(c) \/ ShutdownJoins(c)
      PROVE  TypeOK'
  BY ZenonT(60), <1>1 DEF TypeOK, CallSubmit, CallDrain, SubmitBlocks, SubmitDrops, DrainBlocks, DrainReturns,
              ShutdownJoins, queues, futures, worker, commit
<1>2. ASSUME NEW c \in Callers, Shutdown(c)
      PROVE  TypeOK'
  <2>1. CASE UNCHANGED vars
    BY Zenon, <2>1 DEF TypeOK, vars, queues, futures, worker, commit, caller
  <2>2. CASE ~stop_
    <3>1. pc' \in [Callers -> {"idle", "submit", "submit_sleep", "drain", "drain_sleep",
                               "join", "closed"}]
      BY <1>2, <2>2 DEF TypeOK, Shutdown
    <3>2. wpc' \in [Workers -> {"loop", "sleep", "run", "exit"}]
      BY <1>2, <2>2 DEF TypeOK, Shutdown, NotifyAllWorkers
    <3>3. cpc' \in {"loop", "sleep", "get", "commit", "count", "exit"} /\ stop_' \in BOOLEAN
      BY Zenon, <1>2, <2>2 DEF TypeOK, Shutdown, NotifyCommitter
    <3>4. UNCHANGED <<jobs_, ordered_, submitted_, parsed, threw, wjob, cjob, committed_, firstError_,
                      delivered, failures, outcome>>
      BY Zenon, <1>2, <2>2 DEF Shutdown, queues, futures
    <3> QED
      BY Zenon, <3>1, <3>2, <3>3, <3>4 DEF TypeOK
  <2> QED
    BY Zenon, <1>2, <2>1, <2>2 DEF Shutdown
<1>3. ASSUME NEW c \in Callers, SubmitAccepts(c)
      PROVE  TypeOK'
  <2>1. /\ ordered_' \in Seq(Nat) /\ Len(ordered_') <= InflightCap
        /\ jobs_' \in Seq(Nat) /\ submitted_' \in Nat
    BY <1>3, AppendFacts DEF TypeOK, SubmitAccepts, Push, WindowFull
  <2>2. wpc' \in [Workers -> {"loop", "sleep", "run", "exit"}]
    BY Zenon, <1>3 DEF TypeOK, SubmitAccepts, NotifyOneWorker
  <2> QED
    BY Zenon, <1>3, <2>1, <2>2 DEF TypeOK, SubmitAccepts, NotifyCommitter, futures
<1>4. ASSUME NEW w \in Workers, WorkerSleeps(w) \/ WorkerExits(w) \/ WorkerTakes(w) \/ WorkerRuns(w)
      PROVE  TypeOK'
  <2>1. CASE WorkerTakes(w)
    BY Zenon, <2>1, TailFacts DEF TypeOK, WorkerTakes, futures, commit, caller
  <2>2. CASE WorkerSleeps(w) \/ WorkerExits(w) \/ WorkerRuns(w)
    BY ZenonT(60), <2>2 DEF TypeOK, WorkerSleeps, WorkerExits, WorkerRuns, queues, futures, commit, caller
  <2> QED
    BY Zenon, <1>4, <2>1, <2>2
<1>5. ASSUME CommitTakes
      PROVE  TypeOK'
  BY SMTT(30), <1>5, TailFacts DEF TypeOK, CommitTakes, Popped, futures, worker, caller
<1>6. ASSUME CommitCalls
      PROVE  TypeOK'
  BY Zenon, <1>6, AppendFacts DEF TypeOK, CommitCalls, queues, futures, worker, caller
<1>7. ASSUME CommitSleeps \/ CommitExits \/ CommitReturns \/ CommitCatches
      PROVE  TypeOK'
  BY Zenon, <1>7 DEF TypeOK, CommitSleeps, CommitExits, CommitReturns, CommitCatches, KeepFirst, queues,
              futures, worker, caller
<1>8. ASSUME CommitCounts
      PROVE  TypeOK'
  BY SMTT(30), <1>8 DEF TypeOK, CommitCounts, NotifyCallers, Awake, queues, futures, worker
<1>9. ASSUME SpuriousWakeup
      PROVE  TypeOK'
  BY ZenonT(60), <1>9 DEF TypeOK, SpuriousWakeup, Awake, queues, futures, worker, commit, caller
<1>10. ASSUME UNCHANGED vars
       PROVE  TypeOK'
  BY Zenon, <1>10 DEF TypeOK, vars, queues, futures, worker, commit, caller
<1> QED
  BY Zenon, <1>1, <1>2, <1>3, <1>4, <1>5, <1>6, <1>7, <1>8, <1>9, <1>10
     DEF Next, CallerStep, WorkerStep, CommitStep

\* What a quiet step leaves alone.
LEMMA QuietFacts ==
    ASSUME TypeOK, Quiet
    PROVE  QuietEffect
<1>1. ASSUME NEW c \in Callers,
             CallSubmit(c) \/ CallDrain(c) \/ SubmitBlocks(c) \/ SubmitDrops(c) \/ DrainBlocks(c)
             \/ DrainReturns(c) \/ ShutdownJoins(c)
      PROVE  QuietEffect
  BY SMTT(30), <1>1 DEF TypeOK, QuietEffect, CallSubmit, CallDrain, SubmitBlocks, SubmitDrops,
     DrainBlocks,
              DrainReturns, ShutdownJoins, queues, futures, worker, commit
<1>2. ASSUME NEW c \in Callers, Shutdown(c)
      PROVE  QuietEffect
  <2>1. CASE UNCHANGED vars
    BY Zenon, <2>1 DEF TypeOK, QuietEffect, vars, queues, futures, worker, commit, caller
  <2>2. CASE ~stop_
    <3>1. (\E d \in Callers : pc'[d] = "closed") => \E d \in Callers : pc[d] = "closed"
      BY ZenonT(30), <1>2, <2>2 DEF TypeOK, Shutdown
    <3> QED
      BY <1>2, <2>2, <3>1 DEF TypeOK, QuietEffect, Shutdown, NotifyAllWorkers, NotifyCommitter,
                              queues, futures
  <2> QED
    BY Zenon, <1>2, <2>1, <2>2 DEF Shutdown
<1>3. ASSUME NEW w \in Workers, WorkerSleeps(w) \/ WorkerExits(w)
      PROVE  QuietEffect
  BY Zenon, <1>3 DEF TypeOK, QuietEffect, WorkerSleeps, WorkerExits, queues, futures, commit, caller
<1>4. ASSUME CommitSleeps \/ CommitExits
      PROVE  QuietEffect
  BY Zenon, <1>4 DEF TypeOK, QuietEffect, CommitSleeps, CommitExits, MayExit, queues, futures, worker, caller
<1>5. ASSUME SpuriousWakeup
      PROVE  QuietEffect
  BY SMTT(30), <1>5 DEF TypeOK, QuietEffect, SpuriousWakeup, Awake, queues, futures, worker,
     commit, caller
<1>6. ASSUME UNCHANGED vars
      PROVE  QuietEffect
  BY Zenon, <1>6 DEF QuietEffect, vars, queues, futures, worker, commit, caller
<1> QED
  BY Zenon, <1>1, <1>2, <1>3, <1>4, <1>5, <1>6 DEF Quiet

\* ordered_ and the committer's position stay in step.
LEMMA OrderedStep ==
    ASSUME IndInv, [Next]_vars
    PROVE  OrderedInv'
<1> USE DEF IndInv
<1>1. CASE Quiet
  <2>1. QuietEffect
    BY Zenon, <1>1, QuietFacts
  <2> QED
    BY Zenon, <2>1 DEF TypeOK, OrderedInv, QuietEffect, Holding, queues
<1>2. ASSUME NEW c \in Callers, SubmitAccepts(c)
      PROVE  OrderedInv'
  <2>1. /\ Len(ordered_') = Len(ordered_) + 1
        /\ \A i \in 1..Len(ordered_) : ordered_'[i] = ordered_[i]
        /\ ordered_'[Len(ordered_) + 1] = submitted_ + 1
        /\ Len(ordered_) \in Nat
    BY <1>2, AppendFacts DEF TypeOK, SubmitAccepts, Push
  <2>2. ASSUME NEW i \in 1..Len(ordered_')
        PROVE  ordered_'[i] + Len(ordered_') = submitted_' + i
    <3>1. submitted_' = submitted_ + 1 /\ submitted_ \in Nat
      BY Zenon, <1>2 DEF TypeOK, SubmitAccepts
    <3>2. CASE i = Len(ordered_) + 1
      BY Zenon, <2>1, <3>1, <3>2
    <3>3. CASE i \in 1..Len(ordered_)
      <4>1. ordered_[i] + Len(ordered_) = submitted_ + i /\ ordered_[i] \in Nat
        BY SMTT(30), <3>3, <2>1 DEF TypeOK, OrderedInv
      <4>2. ordered_'[i] = ordered_[i]
        BY Zenon, <2>1, <3>3
      <4>3. Len(ordered_') = Len(ordered_) + 1 /\ Len(ordered_) \in Nat /\ i \in Nat
        BY <2>1, <3>3
      <4> QED
        BY <3>1, <4>1, <4>2, <4>3
    <3> QED
      BY <2>1, <3>2, <3>3
  <2>3. (\E d \in Callers : pc'[d] = "closed") => \E d \in Callers : pc[d] = "closed"
    BY Zenon, <1>2 DEF TypeOK, SubmitAccepts
  <2>4. cpc # "exit"
    BY Zenon, <1>2 DEF OrderedInv, SubmitAccepts
  <2>5. cpc' # "exit" /\ (Holding' <=> Holding)
    BY Zenon, <1>2, <2>4 DEF TypeOK, SubmitAccepts, NotifyCommitter, Holding
  <2>6. /\ Len(ordered_') = Len(ordered_) + 1 /\ Len(ordered_) \in Nat /\ committed_ \in Nat
        /\ submitted_' = submitted_ + 1 /\ submitted_ \in Nat /\ UNCHANGED <<committed_, cjob>>
    BY Zenon, <1>2, <2>1 DEF TypeOK, SubmitAccepts
  <2>7. /\ ~Holding => committed_ + Len(ordered_') = submitted_'
        /\ Holding => committed_ + 1 + Len(ordered_') = submitted_' /\ cjob = committed_ + 1
    BY <2>6 DEF OrderedInv
  <2> QED
    BY Zenon, <2>2, <2>3, <2>4, <2>5, <2>6, <2>7 DEF OrderedInv
<1>3. ASSUME NEW w \in Workers, WorkerTakes(w) \/ WorkerRuns(w)
      PROVE  OrderedInv'
  BY Zenon, <1>3 DEF TypeOK, OrderedInv, WorkerTakes, WorkerRuns, Holding, queues, commit, caller
<1>4. CASE CommitTakes
  <2>1. /\ Len(ordered_') = Len(ordered_) - 1 /\ Len(ordered_) \in Nat /\ Len(ordered_) > 0
        /\ \A i \in 1..Len(ordered_') : ordered_'[i] = ordered_[i + 1]
        /\ cjob' = ordered_[1]
    BY Zenon, <1>4, TailFacts DEF TypeOK, CommitTakes, Popped
  <2>2. ASSUME NEW i \in 1..Len(ordered_')
        PROVE  ordered_'[i] + Len(ordered_') = submitted_' + i
    <3>1. i + 1 \in 1..Len(ordered_) /\ submitted_' = submitted_
      BY <1>4, <2>1 DEF CommitTakes, Popped
    <3>2. ordered_[i + 1] + Len(ordered_) = submitted_ + (i + 1) /\ ordered_[i + 1] \in Nat
      BY SMTT(30), <2>1, <3>1 DEF TypeOK, OrderedInv
    <3>3. ordered_'[i] = ordered_[i + 1] /\ submitted_ \in Nat /\ i \in Nat
      BY <2>1, TypeStep DEF TypeOK
    <3>4. Len(ordered_') = Len(ordered_) - 1 /\ Len(ordered_) \in Nat
      BY Zenon, <2>1
    <3> QED
      BY SMTT(30), <3>1, <3>2, <3>3, <3>4
  <2>3. ~Holding /\ Holding' /\ cpc' # "exit" /\ cpc # "exit" /\ UNCHANGED <<pc, committed_, submitted_>>
    BY Zenon, <1>4 DEF CommitTakes, Holding, caller
  <2>4. cjob' + Len(ordered_) = submitted_ + 1 /\ cjob' \in Nat
    BY <1>4, <2>1, TypeStep DEF TypeOK, OrderedInv
  <2> QED
    BY SMTT(30), <2>1, <2>2, <2>3, <2>4 DEF TypeOK, OrderedInv
<1>5. CASE CommitCalls \/ CommitReturns \/ CommitCatches
  BY Zenon, <1>5 DEF TypeOK, OrderedInv, CommitCalls, CommitReturns, CommitCatches, Holding, queues, caller
<1>6. CASE CommitCounts
  <2>1. ~\E c \in Callers : pc'[c] = "closed"
    BY Zenon, <1>6 DEF TypeOK, OrderedInv, CommitCounts, NotifyCallers, Awake
  <2> QED
    BY Zenon, <1>6, <2>1 DEF TypeOK, OrderedInv, CommitCounts, Holding, queues
<1> QED
  BY Zenon, <1>1, <1>2, <1>3, <1>4, <1>5, <1>6, NextCases

\* jobs_, the workers and the results stay in step.
LEMMA JobsStep ==
    ASSUME IndInv, [Next]_vars
    PROVE  JobsInv'
<1> USE DEF IndInv
<1>1. CASE Quiet
  <2>1. QuietEffect
    BY Zenon, <1>1, QuietFacts
  <2> QED
    BY SMTT(30), <2>1 DEF TypeOK, JobsInv, QuietEffect, Finished, queues, futures
<1>2. ASSUME NEW c \in Callers, SubmitAccepts(c)
      PROVE  JobsInv'
  <2>1. /\ Len(jobs_') = Len(jobs_) + 1
        /\ \A i \in 1..Len(jobs_) : jobs_'[i] = jobs_[i]
        /\ jobs_'[Len(jobs_) + 1] = submitted_ + 1
        /\ Len(jobs_) \in Nat
    BY <1>2, AppendFacts DEF TypeOK, SubmitAccepts, Push
  <2>2. submitted_' = submitted_ + 1 /\ submitted_ \in Nat
    BY Zenon, <1>2 DEF TypeOK, SubmitAccepts
  <2>3. ASSUME NEW i \in 1..Len(jobs_')
        PROVE  jobs_'[i] + Len(jobs_') = submitted_' + i
    <3>1. CASE i = Len(jobs_) + 1
      BY Zenon, <2>1, <2>2, <3>1
    <3>2. CASE i \in 1..Len(jobs_)
      <4>1. jobs_[i] + Len(jobs_) = submitted_ + i /\ jobs_[i] \in Nat
        BY SMTT(30), <3>2, <2>1 DEF TypeOK, JobsInv
      <4>2. jobs_'[i] = jobs_[i]
        BY Zenon, <2>1, <3>2
      <4>3. Len(jobs_') = Len(jobs_) + 1 /\ Len(jobs_) \in Nat /\ i \in Nat
        BY <2>1, <3>2
      <4> QED
        BY <2>2, <4>1, <4>2, <4>3
    <3> QED
      BY <2>1, <3>1, <3>2
  <2>4. \A w \in Workers : wpc'[w] = "run" <=> wpc[w] = "run"
    BY Zenon, <1>2 DEF TypeOK, SubmitAccepts, NotifyOneWorker
  <2>5. /\ UNCHANGED <<parsed, threw, wjob, cjob, committed_>>
        /\ cpc' \in {"commit", "count"} => cpc \in {"commit", "count"}
    BY Zenon, <1>2 DEF TypeOK, SubmitAccepts, NotifyCommitter, futures
  <2>6. \A t \in Finished' : t + Len(jobs_') <= submitted_'
    BY <2>1, <2>2, <2>5 DEF TypeOK, JobsInv, Finished
  <2> QED
    BY SMTT(30), <2>1, <2>2, <2>3, <2>4, <2>5, <2>6 DEF TypeOK, JobsInv, Finished
<1>3. ASSUME NEW w \in Workers, WorkerTakes(w)
      PROVE  JobsInv'
  <2>1. /\ Len(jobs_') = Len(jobs_) - 1 /\ Len(jobs_) \in Nat /\ Len(jobs_) > 0
        /\ \A i \in 1..Len(jobs_') : jobs_'[i] = jobs_[i + 1]
        /\ wjob' = [wjob EXCEPT ![w] = jobs_[1]]
        /\ jobs_[1] \in Nat
    BY Zenon, <1>3, TailFacts DEF TypeOK, WorkerTakes
  <2>2. ASSUME NEW i \in 1..Len(jobs_')
        PROVE  jobs_'[i] + Len(jobs_') = submitted_' + i
    <3>1. i + 1 \in 1..Len(jobs_) /\ submitted_' = submitted_
      BY <1>3, <2>1 DEF WorkerTakes
    <3>2. jobs_[i + 1] + Len(jobs_) = submitted_ + (i + 1)
      BY Zenon, <3>1 DEF JobsInv
    <3>5. jobs_[i + 1] \in Nat
      BY SMTT(30), <3>1 DEF TypeOK
    <3>3. jobs_'[i] = jobs_[i + 1]
      BY Zenon, <2>1
    <3>4. Len(jobs_') = Len(jobs_) - 1 /\ Len(jobs_) \in Nat /\ i \in Nat /\ submitted_ \in Nat
      BY <2>1 DEF TypeOK
    <3> QED
      BY SMTT(30), <3>1, <3>2, <3>3, <3>4, <3>5
  <2>3. jobs_[1] + Len(jobs_) = submitted_ + 1
    BY <2>1 DEF TypeOK, JobsInv
  <2>4. wpc' = [wpc EXCEPT ![w] = "run"] /\ UNCHANGED <<submitted_, parsed, threw, cpc, cjob, committed_>>
    BY Zenon, <1>3 DEF WorkerTakes, futures, commit
  <2>5. \A t \in Finished' : t + Len(jobs_') <= submitted_'
    BY SMTT(30), <2>1, <2>4 DEF TypeOK, JobsInv, Finished
  <2>6. jobs_[1] # 0 /\ jobs_[1] + Len(jobs_') <= submitted_ /\ Len(jobs_') <= submitted_
    BY SMTT(30), <2>1, <2>3 DEF TypeOK, JobsInv
  <2>7. jobs_[1] \notin Finished
    BY SMTT(30), <2>1, <2>3 DEF TypeOK, JobsInv, Finished
  <2>8. \A v \in Workers : wpc[v] = "run" => wjob[v] # jobs_[1] /\ wjob[v] + Len(jobs_') <= submitted_
    BY SMTT(30), <2>1, <2>3 DEF TypeOK, JobsInv
  <2>9. \A v \in Workers : wpc'[v] = "run" =>
           /\ wjob'[v] \in Nat \ {0}
           /\ wjob'[v] + Len(jobs_') <= submitted_'
           /\ wjob'[v] \notin Finished'
           /\ \A u \in Workers : wpc'[u] = "run" /\ wjob'[u] = wjob'[v] => u = v
    BY SMTT(30), <2>1, <2>4, <2>6, <2>7, <2>8 DEF TypeOK, JobsInv, Finished
  <2> QED
    BY Zenon, <2>2, <2>4, <2>5, <2>6, <2>9 DEF TypeOK, JobsInv, Finished
<1>4. ASSUME NEW w \in Workers, WorkerRuns(w)
      PROVE  JobsInv'
  <2>1. /\ Finished' = Finished \cup {wjob[w]} /\ wpc[w] = "run" /\ wpc' = [wpc EXCEPT ![w] = "loop"]
        /\ UNCHANGED <<jobs_, submitted_, wjob, cpc, cjob, committed_>>
    BY Zenon, <1>4 DEF WorkerRuns, Finished, queues, commit
  <2> QED
    BY Zenon, <2>1 DEF TypeOK, JobsInv
<1>5. CASE CommitTakes \/ CommitCalls \/ CommitReturns \/ CommitCatches
  <2>1. CASE CommitTakes
    <3>1. /\ UNCHANGED <<jobs_, submitted_, parsed, threw, wpc, wjob, committed_>>
          /\ cpc' = "get"
      BY Zenon, <2>1 DEF CommitTakes, Popped, futures, worker
    <3> QED
      BY Zenon, <3>1 DEF JobsInv, Finished
  <2>2. CASE CommitCalls \/ CommitReturns \/ CommitCatches
    <3>1. /\ UNCHANGED <<jobs_, submitted_, parsed, threw, wpc, wjob, committed_, cjob>>
          /\ cjob \in Finished
      BY Zenon, <2>2 DEF CommitCalls, CommitReturns, CommitCatches, JobsInv, Finished, queues, futures, worker
    <3> QED
      BY Zenon, <3>1 DEF JobsInv, Finished
  <2> QED
    BY Zenon, <1>5, <2>1, <2>2
<1>6. CASE CommitCounts
  <2>1. cjob = committed_ + 1 /\ cjob \in Finished /\ committed_' = committed_ + 1 /\ cpc' = "loop"
    BY Zenon, <1>6 DEF CommitCounts, OrderedInv, Holding, JobsInv
  <2>2. UNCHANGED <<jobs_, submitted_, parsed, threw, wpc, wjob>>
    BY Zenon, <1>6 DEF CommitCounts, queues, futures, worker
  <2>3. \A t \in 1..committed_' : t \in Finished'
    <3>1. committed_ \in Nat /\ \A t \in 1..committed_ : t \in Finished
      BY Zenon DEF TypeOK, JobsInv
    <3>2. \A t \in 1..(committed_ + 1) : t \in 1..committed_ \/ t = committed_ + 1
      BY <3>1
    <3>3. Finished' = Finished
      BY Zenon, <2>2 DEF Finished
    <3> QED
      BY Zenon, <2>1, <3>1, <3>2, <3>3
  <2> QED
    BY Zenon, <2>1, <2>2, <2>3 DEF JobsInv, Finished
<1> QED
  BY Zenon, <1>1, <1>2, <1>3, <1>4, <1>5, <1>6, NextCases

\* What commit_ has seen stays in order, and what is counted was seen or failed.
LEMMA DeliveredStep ==
    ASSUME IndInv, [Next]_vars
    PROVE  DeliveredInv'
<1> USE DEF IndInv
<1>1. CASE Quiet
  <2>1. QuietEffect
    BY Zenon, <1>1, QuietFacts
  <2> QED
    BY Zenon, <2>1 DEF DeliveredInv, QuietEffect, CommitOrder
<1>2. ASSUME NEW c \in Callers, SubmitAccepts(c)
      PROVE  DeliveredInv'
  <2>1. /\ UNCHANGED <<cjob, committed_, delivered, failures>>
        /\ \A q \in {"commit", "count"} : cpc' = q <=> cpc = q
    BY Zenon, <1>2 DEF TypeOK, SubmitAccepts, NotifyCommitter
  <2> QED
    BY Zenon, <2>1 DEF DeliveredInv, CommitOrder
<1>3. ASSUME NEW w \in Workers, WorkerTakes(w) \/ WorkerRuns(w)
      PROVE  DeliveredInv'
  BY Zenon, <1>3 DEF DeliveredInv, CommitOrder, WorkerTakes, WorkerRuns, commit
<1>4. CASE CommitTakes
  BY Zenon, <1>4 DEF DeliveredInv, CommitOrder, CommitTakes
<1>5. CASE CommitCalls
  <2>1. /\ cjob = committed_ + 1 /\ committed_ \in Nat /\ delivered \in Seq(Nat) /\ cjob \in Nat
        /\ cpc = "get" /\ cpc' = "commit" /\ UNCHANGED <<committed_, cjob, failures>>
        /\ delivered' = Append(delivered, cjob)
    BY Zenon, <1>5 DEF CommitCalls, OrderedInv, Holding, TypeOK
  <2>2. /\ Len(delivered) \in Nat /\ Len(delivered') = Len(delivered) + 1
        /\ \A i \in 1..Len(delivered) : delivered'[i] = delivered[i]
        /\ delivered'[Len(delivered) + 1] = committed_ + 1
    BY Zenon, <2>1, AppendFacts
  <2>3. \A i \in 1..Len(delivered) : delivered[i] \in Nat /\ delivered[i] <= committed_
    BY SMTT(30), <2>1 DEF DeliveredInv
  <2>4. CommitOrder'
    <3>1. SUFFICES ASSUME NEW i \in 1..Len(delivered'), NEW j \in 1..Len(delivered'), i < j
                   PROVE  delivered'[i] < delivered'[j]
      BY SMTT(30), <2>1, AppendFacts DEF CommitOrder
    <3>2. i \in 1..Len(delivered) /\ i \in DOMAIN delivered
      BY <2>1, <2>2, <3>1
    <3>3. CASE j = Len(delivered) + 1
      BY SMTT(30), <2>1, <2>2, <2>3, <3>2, <3>3
    <3>4. CASE j \in 1..Len(delivered)
      BY SMTT(30), <2>1, <2>2, <3>1, <3>2, <3>4 DEF DeliveredInv, CommitOrder
    <3> QED
      BY <2>2, <3>3, <3>4
  <2>5. \A i \in 1..Len(delivered') : delivered'[i] <= committed_ + 1
    BY <2>1, <2>2, <2>3
  <2>6. \E i \in 1..Len(delivered') : delivered'[i] = cjob
    BY <2>1, <2>2
  <2>7. \A t \in 1..committed_ : t \in failures \/ \E i \in 1..Len(delivered') : delivered'[i] = t
    BY <2>1, <2>2 DEF DeliveredInv
  <2> QED
    BY Zenon, <2>1, <2>4, <2>5, <2>6, <2>7 DEF DeliveredInv
<1>6. CASE CommitReturns \/ CommitCatches
  BY Zenon, <1>6 DEF DeliveredInv, CommitOrder, CommitReturns, CommitCatches
<1>7. CASE CommitCounts
  <2>1. /\ cjob = committed_ + 1 /\ committed_ \in Nat /\ committed_' = committed_ + 1
        /\ cpc = "count" /\ cpc' = "loop" /\ UNCHANGED <<delivered, failures>>
    BY Zenon, <1>7 DEF CommitCounts, OrderedInv, Holding, TypeOK
  <2>2. \A t \in 1..committed_' : t \in failures \/ \E i \in 1..Len(delivered) : delivered[i] = t
    BY <2>1 DEF DeliveredInv
  <2>3. \A i \in 1..Len(delivered) : delivered[i] \in Nat /\ delivered[i] <= committed_ + 1
    BY SMTT(30) DEF DeliveredInv, TypeOK
  <2>4. \A i \in 1..Len(delivered) : delivered[i] <= committed_' + 1 /\ delivered[i] <= committed_'
    BY <2>1, <2>3
  <2>5. CommitOrder'
    BY Zenon, <2>1 DEF DeliveredInv, CommitOrder
  <2> QED
    BY Zenon, <2>1, <2>2, <2>4, <2>5 DEF DeliveredInv
<1> QED
  BY Zenon, <1>1, <1>2, <1>3, <1>4, <1>5, <1>6, <1>7, NextCases

\* The kept exception stays that of the earliest failure.
LEMMA FailuresStep ==
    ASSUME IndInv, [Next]_vars
    PROVE  FailuresInv'
<1> USE DEF IndInv
<1>1. CASE Quiet
  <2>1. QuietEffect
    BY Zenon, <1>1, QuietFacts
  <2> QED
    BY Zenon, <2>1 DEF FailuresInv, QuietEffect
<1>2. ASSUME NEW c \in Callers, SubmitAccepts(c)
      PROVE  FailuresInv'
  <2>1. /\ UNCHANGED <<firstError_, committed_, failures>>
        /\ cpc' = "count" <=> cpc = "count"
    BY Zenon, <1>2 DEF TypeOK, SubmitAccepts, NotifyCommitter
  <2> QED
    BY Zenon, <2>1 DEF FailuresInv
<1>3. ASSUME NEW w \in Workers, WorkerTakes(w) \/ WorkerRuns(w)
      PROVE  FailuresInv'
  BY Zenon, <1>3 DEF FailuresInv, WorkerTakes, WorkerRuns, commit
<1>4. CASE CommitTakes \/ CommitCalls \/ CommitReturns
  BY Zenon, <1>4 DEF FailuresInv, CommitTakes, CommitCalls, CommitReturns
<1>5. CASE CommitCatches
  <2>1. /\ cjob = committed_ + 1 /\ committed_ \in Nat /\ committed_' = committed_
        /\ cpc # "count" /\ cpc' = "count" /\ failures' = failures \cup {cjob}
        /\ firstError_' = IF firstError_ = 0 THEN cjob ELSE firstError_
    BY Zenon, <1>5 DEF CommitCatches, KeepFirst, OrderedInv, Holding, TypeOK
  <2> QED
    BY <2>1 DEF FailuresInv, TypeOK
<1>6. CASE CommitCounts
  BY <1>6 DEF FailuresInv, TypeOK, CommitCounts
<1> QED
  BY Zenon, <1>1, <1>2, <1>3, <1>4, <1>5, <1>6, NextCases

\* Only DrainReturns ends a Drain.
LEMMA DrainLeaves ==
    ASSUME TypeOK, [Next]_vars, NEW c \in Callers, pc[c] = "drain", pc'[c] = "idle"
    PROVE  DrainReturns(c)
<1>1. ASSUME NEW d \in Callers,
             \/ CallSubmit(d) \/ CallDrain(d) \/ SubmitBlocks(d) \/ SubmitDrops(d) \/ SubmitAccepts(d)
             \/ DrainBlocks(d) \/ ShutdownJoins(d)
      PROVE  FALSE
  BY Zenon, <1>1 DEF TypeOK, CallSubmit, CallDrain, SubmitBlocks, SubmitDrops, SubmitAccepts, DrainBlocks,
              ShutdownJoins
<1>2. ASSUME NEW d \in Callers, Shutdown(d)
      PROVE  FALSE
  <2>1. pc' = pc \/ pc'[c] = "drain"
    BY ZenonT(60), <1>2 DEF TypeOK, Shutdown, vars, caller
  <2> QED
    BY Zenon, <2>1
<1>3. ASSUME NEW d \in Callers, DrainReturns(d)
      PROVE  DrainReturns(c)
  <2>1. d = c
    BY Zenon, <1>3 DEF TypeOK, DrainReturns
  <2> QED
    BY Zenon, <1>3, <2>1
<1>4. ASSUME NEW w \in Workers, WorkerStep(w)
      PROVE  FALSE
  BY Zenon, <1>4 DEF WorkerStep, WorkerSleeps, WorkerExits, WorkerTakes, WorkerRuns, caller
<1>5. ASSUME CommitStep
      PROVE  FALSE
  <2>1. CASE CommitCounts
    BY Zenon, <2>1 DEF TypeOK, CommitCounts, NotifyCallers, Awake
  <2>2. CASE ~CommitCounts
    BY Zenon, <1>5, <2>2 DEF CommitStep, CommitSleeps, CommitExits, CommitTakes, CommitCalls, CommitReturns,
                      CommitCatches, caller
  <2> QED
    BY Zenon, <2>1, <2>2
<1>6. ASSUME SpuriousWakeup
      PROVE  FALSE
  BY Zenon, <1>6 DEF TypeOK, SpuriousWakeup, Awake, caller
<1>7. ASSUME UNCHANGED vars
      PROVE  FALSE
  BY Zenon, <1>7 DEF vars, caller
<1> QED
  BY Zenon, <1>1, <1>2, <1>3, <1>4, <1>5, <1>6, <1>7 DEF Next, CallerStep

----------------------------------------------------------------------------
(* The theorems.                                                           *)

\* Every reachable state satisfies the inductive invariant.
THEOREM Inductive == Spec => []IndInv
<1>1. Init => IndInv
  <2> SUFFICES ASSUME Init
               PROVE  IndInv
    BY Zenon
  <2>1. TypeOK
    <3>1. ordered_ \in Seq(Nat) /\ Len(ordered_) <= InflightCap
      BY PipelineAssumption DEF Init
    <3> QED
      BY Zenon, <3>1 DEF Init, TypeOK
  <2>2. OrderedInv
    BY DEF Init, OrderedInv, Holding
  <2>3. JobsInv
    BY DEF Init, JobsInv, Finished
  <2>4. DeliveredInv
    BY DEF Init, DeliveredInv, CommitOrder
  <2>5. FailuresInv
    BY Zenon DEF Init, FailuresInv
  <2> QED
    BY Zenon, <2>1, <2>2, <2>3, <2>4, <2>5 DEF IndInv
<1>2. IndInv /\ [Next]_vars => IndInv'
  BY Zenon, TypeStep, OrderedStep, JobsStep, DeliveredStep, FailuresStep DEF IndInv
<1> QED
  BY <1>1, <1>2, PTL DEF Spec

\* The state keeps its shape and ordered_ its bound.
THEOREM TypeCorrect == Spec => []TypeOK
  BY Inductive, PTL DEF IndInv

\* commit_ is called at most once per task and in submission order.
THEOREM CommitsInOrder == Spec => []CommitOrder
  BY Inductive, PTL DEF IndInv, DeliveredInv

\* Drain's exception is the earliest task's.
THEOREM KeepsEarliestError == Spec => []FirstErrorIsEarliest
<1>1. IndInv => FirstErrorIsEarliest
  BY Zenon DEF IndInv, FailuresInv, FirstErrorIsEarliest
<1> QED
  BY <1>1, Inductive, PTL

\* No more than the window and one task are outstanding.
THEOREM Backpressure == Spec => []InflightBounded
<1>1. IndInv => InflightBounded
  BY SMTT(30), PipelineAssumption DEF IndInv, TypeOK, OrderedInv, Holding, InflightBounded
<1> QED
  BY <1>1, Inductive, PTL

\* Shutdown joins only after everything accepted was delivered or failed.
THEOREM ShutdownFlushes == Spec => []ShutdownLosesNothing
<1>1. IndInv => ShutdownLosesNothing
  <2>1. SUFFICES ASSUME IndInv, \E c \in Callers : pc[c] = "closed"
                 PROVE  /\ committed_ = submitted_
                        /\ \A t \in 1..submitted_ :
                              t \in failures \/ \E i \in DOMAIN delivered : delivered[i] = t
    BY Zenon DEF ShutdownLosesNothing
  <2>2. cpc = "exit" /\ ordered_ = <<>>
    BY Zenon, <2>1 DEF IndInv, OrderedInv
  <2>3. committed_ = submitted_
    BY <2>1, <2>2 DEF IndInv, OrderedInv, TypeOK, Holding
  <2>4. DOMAIN delivered = 1..Len(delivered)
    BY <2>1 DEF IndInv, TypeOK
  <2> QED
    BY Zenon, <2>1, <2>3, <2>4 DEF IndInv, DeliveredInv
<1> QED
  BY <1>1, Inductive, PTL

\* A Drain that returns leaves a pipeline without a task in it.
THEOREM DrainQuiesces == Spec => DrainMeansQuiet
<1>1. IndInv /\ [Next]_vars =>
        (\A c \in Callers : pc[c] = "drain" /\ pc'[c] = "idle" => ~InHand)
  <2>1. SUFFICES ASSUME IndInv, [Next]_vars, NEW c \in Callers, pc[c] = "drain", pc'[c] = "idle"
                 PROVE  ~InHand
    BY Zenon
  <2>2. committed_ = submitted_
    <3>1. DrainReturns(c)
      BY Zenon, <2>1, DrainLeaves DEF IndInv
    <3> QED
      BY Zenon, <3>1 DEF DrainReturns, Drained
  <2>3. ordered_ = <<>> /\ ~Holding
    BY <2>1, <2>2 DEF IndInv, OrderedInv, TypeOK
  <2>4. \A t \in 1..submitted_ : t \in Finished
    BY Zenon, <2>1, <2>2 DEF IndInv, JobsInv
  <2>5. jobs_ = <<>>
    <3>1. SUFFICES ASSUME jobs_ # <<>>
                   PROVE  FALSE
      BY Zenon
    <3>2. Len(jobs_) \in Nat /\ Len(jobs_) > 0 /\ submitted_ \in Nat /\ Len(jobs_) <= submitted_
      BY Zenon, <2>1, <3>1, TailFacts DEF IndInv, TypeOK, JobsInv
    <3>3. submitted_ \in Finished
      BY <2>4, <3>2
    <3> QED
      BY <2>1, <3>2, <3>3 DEF IndInv, JobsInv
  <2>6. \A w \in Workers : wpc[w] # "run"
    <3>1. SUFFICES ASSUME NEW w \in Workers, wpc[w] = "run"
                   PROVE  FALSE
      BY Zenon
    <3>2. wjob[w] \in 1..submitted_
      BY <2>1, <2>5, <3>1 DEF IndInv, JobsInv, TypeOK
    <3> QED
      BY Zenon, <2>1, <2>4, <3>1, <3>2 DEF IndInv, JobsInv
  <2> QED
    BY Zenon, <2>3, <2>5, <2>6 DEF InHand, Holding
<1> QED
  BY <1>1, Inductive, PTL DEF DrainMeansQuiet, Spec

\* A Drain throws exactly if a task has failed.
THEOREM DrainReports == Spec => DrainReportsFailure
<1>1. IndInv /\ [Next]_vars =>
        (\A c \in Callers : pc[c] = "drain" /\ pc'[c] = "idle" =>
                                (outcome' = "threw" <=> failures # {}))
  <2>1. SUFFICES ASSUME IndInv, [Next]_vars, NEW c \in Callers, pc[c] = "drain", pc'[c] = "idle"
                 PROVE  outcome' = "threw" <=> failures # {}
    BY Zenon
  <2>2. DrainReturns(c)
    BY Zenon, <2>1, DrainLeaves DEF IndInv
  <2>3. outcome' = "threw" <=> firstError_ # 0
    BY Zenon, <2>1, <2>2 DEF IndInv, TypeOK, DrainReturns, Reported
  <2>4. firstError_ # 0 <=> failures # {}
    BY Zenon, <2>1 DEF IndInv, FailuresInv
  <2> QED
    BY Zenon, <2>3, <2>4
<1> QED
  BY <1>1, Inductive, PTL DEF DrainReportsFailure, Spec

\* The pipeline implements OrderedDelivery: its steps are the abstract ones or
\* leave the abstract state alone.
THEOREM Refinement == Spec => ImplementsOrderedDelivery
<1>1. Init => Abstract!Init
  BY Zenon DEF Init, Abstract!Init
<1>2. IndInv /\ [Next]_vars => [Abstract!Next]_(Abstract!vars)
  <2> SUFFICES ASSUME IndInv, [Next]_vars
               PROVE  [Abstract!Next]_(Abstract!vars)
    BY Zenon
  <2> USE DEF IndInv
  <2>1. CASE Quiet
    <3>1. QuietEffect
      BY Zenon, <2>1, QuietFacts
    <3>2. CASE stop_' = stop_
      BY Zenon, <3>1, <3>2 DEF QuietEffect, Abstract!vars, queues
    <3>3. CASE stop_' # stop_
      <4>1. ~stop_ /\ stop_'
        BY Zenon, <3>1, <3>3, TypeStep DEF QuietEffect, TypeOK
      <4> QED
        BY Zenon, <3>1, <4>1, TypeStep DEF TypeOK, QuietEffect, Abstract!Next, Abstract!Close, queues
    <3> QED
      BY Zenon, <3>2, <3>3
  <2>2. ASSUME NEW c \in Callers, SubmitAccepts(c)
        PROVE  Abstract!Accept
    <3>1. submitted_ - committed_ <= InflightCap
      BY <2>2, PipelineAssumption DEF SubmitAccepts, WindowFull, TypeOK, OrderedInv, Holding
    <3> QED
      BY Zenon, <2>2, <3>1 DEF SubmitAccepts, Abstract!Accept
  <2>3. ASSUME NEW w \in Workers, WorkerTakes(w) \/ WorkerRuns(w)
        PROVE  UNCHANGED Abstract!vars
    BY Zenon, <2>3 DEF WorkerTakes, WorkerRuns, Abstract!vars, queues, commit
  <2>4. CASE CommitTakes \/ CommitReturns
    BY Zenon, <2>4 DEF CommitTakes, CommitReturns, Abstract!vars, queues
  <2>5. CASE CommitCalls
    <3>1. /\ committed_ < submitted_ /\ cjob = committed_ + 1
          /\ \A i \in DOMAIN delivered : delivered[i] <= committed_
      BY <2>5 DEF CommitCalls, TypeOK, OrderedInv, DeliveredInv, Holding
    <3> QED
      BY Zenon, <2>5, <3>1 DEF CommitCalls, Abstract!Next, Abstract!Deliver, queues
  <2>6. CASE CommitCatches
    <3>1. cjob = committed_ + 1 /\ committed_ \in Nat /\ (firstError_ # 0 => firstError_ <= committed_)
      BY Zenon, <2>6 DEF CommitCatches, TypeOK, OrderedInv, FailuresInv, Holding
    <3>2. (IF firstError_' <= committed_ THEN firstError_' ELSE 0)
            = (IF firstError_ <= committed_ THEN firstError_ ELSE 0)
      BY <2>6, <3>1 DEF CommitCatches, KeepFirst
    <3> QED
      BY Zenon, <2>6, <3>2 DEF CommitCatches, Abstract!vars, queues
  <2>7. CASE CommitCounts
    <3>1. /\ committed_ < submitted_ /\ cjob = committed_ + 1 /\ committed_ \in Nat
          /\ committed_' = committed_ + 1 /\ firstError_ \in Nat
          /\ UNCHANGED <<submitted_, stop_, delivered, firstError_>>
      BY <2>7 DEF CommitCounts, TypeOK, OrderedInv, Holding, queues
    <3>2. firstError_ <= committed_ + 1
      BY <3>1 DEF FailuresInv
    <3>3. CASE firstError_ = committed_ + 1
      BY <3>1, <3>3 DEF Abstract!Next, Abstract!Settle
    <3>4. CASE firstError_ <= committed_
      <4>1. (IF firstError_' <= committed_' THEN firstError_' ELSE 0) = firstError_
        BY <3>1, <3>4
      <4>2. CASE cjob \in failures
        <5>1. firstError_ # 0
          BY Zenon, <4>2 DEF FailuresInv
        <5> QED
          BY Zenon, <3>1, <3>4, <4>1, <5>1 DEF Abstract!Next, Abstract!Settle
      <4>3. CASE \E i \in DOMAIN delivered : delivered[i] = cjob
        BY Zenon, <3>1, <3>4, <4>1, <4>3 DEF Abstract!Next, Abstract!Settle
      <4>4. cjob \in failures \/ \E i \in DOMAIN delivered : delivered[i] = cjob
        BY <2>7 DEF CommitCounts, DeliveredInv, TypeOK
      <4> QED
        BY Zenon, <4>2, <4>3, <4>4
    <3> QED
      BY <3>1, <3>2, <3>3, <3>4
  <2> QED
    BY Zenon, <2>1, <2>2, <2>3, <2>4, <2>5, <2>6, <2>7, NextCases DEF Abstract!Next
<1> QED
  BY <1>1, <1>2, Inductive, PTL DEF Spec, ImplementsOrderedDelivery, Abstract!Spec
=============================================================================
