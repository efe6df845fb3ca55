--------------------------- MODULE ParsePipeline ---------------------------
(***************************************************************************)
(* OrderedParsePipeline (core/framework/parse_pipeline.{h,cpp}): callers   *)
(* submit tasks, a pool of workers parses them in parallel, one committer  *)
(* thread hands the results over in submission order, Drain waits until    *)
(* everything submitted has been handed over, Shutdown stops the threads.  *)
(*                                                                         *)
(* A task is its submission number.  One action is one critical section    *)
(* of mtx_ (or one stretch of code outside it); the notifications that     *)
(* follow a critical section belong to it.  A thread blocked on a          *)
(* condition variable is in a "sleep" state of its own and leaves it only  *)
(* when it is notified or wakes spuriously; it then tests its predicate    *)
(* again.                                                                  *)
(***************************************************************************)
EXTENDS Naturals, Sequences, FiniteSets

CONSTANTS Workers,      \* threads running WorkerLoop
          Callers,      \* threads that call Submit, Drain and Shutdown
          InflightCap,  \* inflightCap_, after the constructor mapped 0 to 1
          MaxTasks      \* bound on the calls of Submit that get a task through

ASSUME PipelineAssumption == /\ Workers # {}
                             /\ InflightCap \in Nat \ {0}
                             /\ MaxTasks \in Nat

VARIABLES jobs_, ordered_,        \* queues of task numbers
          submitted_, committed_, stop_,
          firstError_,            \* task whose exception was kept, 0 if none
          parsed, threw,          \* futures holding a value / an exception
          wpc, wjob,              \* per worker: where it is, what it runs
          cpc, cjob,              \* the committer
          pc,                     \* per caller
          outcome,                \* how the last Drain to return ended
          delivered,              \* history: tasks commit_ was called with, in order
          failures                \* history: tasks whose parse_ or commit_ threw

queues  == <<jobs_, ordered_, submitted_>>
futures == <<parsed, threw>>
worker  == <<wpc, wjob>>
commit  == <<cpc, cjob, committed_, firstError_, delivered, failures>>
caller  == <<pc, outcome>>
vars    == <<queues, stop_, futures, worker, commit, caller>>

Init == /\ jobs_ = <<>> /\ ordered_ = <<>>
        /\ submitted_ = 0 /\ committed_ = 0
        /\ stop_ = FALSE /\ firstError_ = 0
        /\ parsed = {} /\ threw = {}
        /\ wpc = [w \in Workers |-> "loop"] /\ wjob = [w \in Workers |-> 0]
        /\ cpc = "loop" /\ cjob = 0
        /\ pc = [c \in Callers |-> "idle"]
        /\ outcome = "none"
        /\ delivered = <<>> /\ failures = {}

----------------------------------------------------------------------------
(* The conditions the loops and the calls test under mtx_.                 *)

WindowFull_late == Len(ordered_) > InflightCap
WindowFull == Len(ordered_) >= InflightCap

Drained_early == ordered_ = <<>>
Drained == committed_ = submitted_

Push(queue, task) == Append(queue, task)

Popped(queue) == Tail(queue)

MayExit_eager(queue) == stop_
MayExit(queue) == stop_ /\ queue = <<>>

KeepFirst(task) == IF firstError_ = 0 THEN task ELSE firstError_

\* Drain rethrows whenever an exception was ever kept.
Reported_latest == firstError_ = committed_ /\ firstError_ # 0
Reported == firstError_ # 0

----------------------------------------------------------------------------
(* Condition variables.                                                    *)

\* jobCv_.notify_one(): some sleeping worker, if there is one, becomes runnable.
NotifyOneWorker ==
    IF \E w \in Workers : wpc[w] = "sleep"
    THEN \E w \in Workers : wpc[w] = "sleep" /\ wpc' = [wpc EXCEPT ![w] = "loop"]
    ELSE wpc' = wpc

NotifyAllWorkers == wpc' = [w \in Workers |-> IF wpc[w] = "sleep" THEN "loop" ELSE wpc[w]]

\* commitCv_ has one possible waiter, so notify_one and notify_all agree.
NotifyCommitter_lost == cpc' = cpc
NotifyCommitter == cpc' = IF cpc = "sleep" THEN "loop" ELSE cpc

\* What a caller blocked on backpressureCv_ or drainCv_ resumes with.
Awake(state) == CASE state = "submit_sleep" -> "submit"
                  [] state = "drain_sleep"  -> "drain"
                  [] OTHER                  -> state

\* drainCv_.notify_all() and backpressureCv_.notify_all().
NotifyCallers_drain == pc' = [c \in Callers |-> IF pc[c] = "drain_sleep" THEN "drain" ELSE pc[c]]
NotifyCallers == pc' = [c \in Callers |-> Awake(pc[c])]

\* Any blocked thread may wake without having been notified.
SpuriousWakeup ==
    \/ /\ \E w \in Workers : wpc[w] = "sleep" /\ wpc' = [wpc EXCEPT ![w] = "loop"]
       /\ UNCHANGED <<queues, stop_, futures, wjob, commit, caller>>
    \/ /\ cpc = "sleep" /\ cpc' = "loop"
       /\ UNCHANGED <<queues, stop_, futures, worker, cjob, committed_, firstError_,
                      delivered, failures, caller>>
    \/ /\ \E c \in Callers : /\ pc[c] \in {"submit_sleep", "drain_sleep"}
                             /\ pc' = [pc EXCEPT ![c] = Awake(@)]
       /\ UNCHANGED <<queues, stop_, futures, worker, commit, outcome>>

----------------------------------------------------------------------------
(* Submit, Drain and Shutdown.                                             *)

Submitting == {c \in Callers : pc[c] \in {"submit", "submit_sleep"}}

CallSubmit(c) == /\ pc[c] = "idle"
                 /\ submitted_ + Cardinality(Submitting) < MaxTasks
                 /\ pc' = [pc EXCEPT ![c] = "submit"]
                 /\ UNCHANGED <<queues, stop_, futures, worker, commit, outcome>>

\* The critical section of Submit: wait while the window is full, give the
\* task up once stop_ is set, else queue its future and its job.
SubmitBlocks(c) == /\ pc[c] = "submit"
                   /\ ~stop_ /\ WindowFull
                   /\ pc' = [pc EXCEPT ![c] = "submit_sleep"]
                   /\ UNCHANGED <<queues, stop_, futures, worker, commit, outcome>>

SubmitDrops(c) == /\ pc[c] = "submit"
                  /\ stop_
                  /\ pc' = [pc EXCEPT ![c] = "idle"]
                  /\ UNCHANGED <<queues, stop_, futures, worker, commit, outcome>>

SubmitAccepts(c) == /\ pc[c] = "submit"
                    /\ ~stop_ /\ ~WindowFull
                    /\ submitted_' = submitted_ + 1
                    /\ ordered_' = Push(ordered_, submitted_ + 1)
                    /\ jobs_' = Push(jobs_, submitted_ + 1)
                    /\ NotifyOneWorker
                    /\ NotifyCommitter
                    /\ pc' = [pc EXCEPT ![c] = "idle"]
                    /\ UNCHANGED <<stop_, futures, wjob, cjob, committed_, firstError_,
                                   delivered, failures, outcome>>

CallDrain(c) == /\ pc[c] = "idle"
                /\ pc' = [pc EXCEPT ![c] = "drain"]
                /\ UNCHANGED <<queues, stop_, futures, worker, commit, outcome>>

DrainBlocks(c) == /\ pc[c] = "drain"
                  /\ ~Drained
                  /\ pc' = [pc EXCEPT ![c] = "drain_sleep"]
                  /\ UNCHANGED <<queues, stop_, futures, worker, commit, outcome>>

DrainReturns(c) == /\ pc[c] = "drain"
                   /\ Drained
                   /\ outcome' = IF Reported THEN "threw" ELSE "ok"
                   /\ pc' = [pc EXCEPT ![c] = "idle"]
                   /\ UNCHANGED <<queues, stop_, futures, worker, commit>>

\* The first Shutdown sets stop_, wakes everybody but the callers in Drain and
\* joins; a later one returns at once.
Shutdown(c) ==
    /\ pc[c] = "idle"
    /\ \/ /\ stop_
          /\ UNCHANGED vars
       \/ /\ ~stop_
          /\ stop_' = TRUE
          /\ NotifyAllWorkers
          /\ NotifyCommitter
          /\ pc' = [d \in Callers |-> IF d = c THEN "join"
                                      ELSE IF pc[d] = "submit_sleep" THEN "submit" ELSE pc[d]]
          /\ UNCHANGED <<queues, futures, wjob, cjob, committed_, firstError_, delivered, failures,
                         outcome>>

ShutdownJoins(c) == /\ pc[c] = "join"
                    /\ \A w \in Workers : wpc[w] = "exit"
                    /\ cpc = "exit"
                    /\ pc' = [pc EXCEPT ![c] = "closed"]
                    /\ UNCHANGED <<queues, stop_, futures, worker, commit, outcome>>

----------------------------------------------------------------------------
(* WorkerLoop.                                                             *)

WorkerSleeps(w) == /\ wpc[w] = "loop"
                   /\ jobs_ = <<>> /\ ~stop_
                   /\ wpc' = [wpc EXCEPT ![w] = "sleep"]
                   /\ UNCHANGED <<queues, stop_, futures, wjob, commit, caller>>

WorkerExits(w) == /\ wpc[w] = "loop"
                  /\ MayExit(jobs_)
                  /\ wpc' = [wpc EXCEPT ![w] = "exit"]
                  /\ UNCHANGED <<queues, stop_, futures, wjob, commit, caller>>

WorkerTakes(w) == /\ wpc[w] = "loop"
                  /\ jobs_ # <<>>
                  /\ jobs_' = Tail(jobs_)
                  /\ wjob' = [wjob EXCEPT ![w] = Head(jobs_)]
                  /\ wpc' = [wpc EXCEPT ![w] = "run"]
                  /\ UNCHANGED <<ordered_, submitted_, stop_, futures, commit, caller>>

\* job(): the packaged task stores parse_'s result or its exception.
WorkerRuns(w) == /\ wpc[w] = "run"
                 /\ \/ parsed' = parsed \cup {wjob[w]} /\ threw' = threw
                    \/ threw' = threw \cup {wjob[w]} /\ parsed' = parsed
                 /\ wpc' = [wpc EXCEPT ![w] = "loop"]
                 /\ UNCHANGED <<queues, stop_, wjob, commit, caller>>

----------------------------------------------------------------------------
(* CommitLoop.                                                             *)

CommitSleeps == /\ cpc = "loop"
                /\ ordered_ = <<>> /\ ~stop_
                /\ cpc' = "sleep"
                /\ UNCHANGED <<queues, stop_, futures, worker, cjob, committed_, firstError_,
                               delivered, failures, caller>>

CommitExits == /\ cpc = "loop"
               /\ MayExit(ordered_)
               /\ cpc' = "exit"
               /\ UNCHANGED <<queues, stop_, futures, worker, cjob, committed_, firstError_,
                              delivered, failures, caller>>

CommitTakes == /\ cpc = "loop"
               /\ ordered_ # <<>>
               /\ cjob' = Head(ordered_)
               /\ ordered_' = Popped(ordered_)
               /\ cpc' = "get"
               /\ UNCHANGED <<jobs_, submitted_, stop_, futures, worker, committed_, firstError_,
                              delivered, failures, caller>>

\* fut.get() returned a value: commit_ is entered, outside mtx_.
CommitCalls == /\ cpc = "get"
               /\ cjob \in parsed
               /\ delivered' = Append(delivered, cjob)
               /\ cpc' = "commit"
               /\ UNCHANGED <<queues, stop_, futures, worker, cjob, committed_, firstError_,
                              failures, caller>>

CommitReturns == /\ cpc = "commit"
                 /\ cpc' = "count"
                 /\ UNCHANGED <<queues, stop_, futures, worker, cjob, committed_, firstError_,
                                delivered, failures, caller>>

\* fut.get() or commit_ threw: the first exception is kept.
CommitCatches == /\ \/ cpc = "get" /\ cjob \in threw
                    \/ cpc = "commit"
                 /\ firstError_' = KeepFirst(cjob)
                 /\ failures' = failures \cup {cjob}
                 /\ cpc' = "count"
                 /\ UNCHANGED <<queues, stop_, futures, worker, cjob, committed_, delivered, caller>>

CommitCounts == /\ cpc = "count"
                /\ committed_' = committed_ + 1
                /\ NotifyCallers
                /\ cpc' = "loop"
                /\ UNCHANGED <<queues, stop_, futures, worker, cjob, firstError_, delivered, failures,
                               outcome>>

----------------------------------------------------------------------------
CallerStep(c) == \/ SubmitBlocks(c) \/ SubmitDrops(c) \/ SubmitAccepts(c)
                 \/ DrainBlocks(c) \/ DrainReturns(c) \/ ShutdownJoins(c)

WorkerStep(w) == WorkerSleeps(w) \/ WorkerExits(w) \/ WorkerTakes(w) \/ WorkerRuns(w)

CommitStep == \/ CommitSleeps \/ CommitExits \/ CommitTakes \/ CommitCalls
              \/ CommitReturns \/ CommitCatches \/ CommitCounts

Next == \/ \E c \in Callers : CallSubmit(c) \/ CallDrain(c) \/ Shutdown(c) \/ CallerStep(c)
        \/ \E w \in Workers : WorkerStep(w)
        \/ CommitStep
        \/ SpuriousWakeup

Spec == Init /\ [][Next]_vars

(***************************************************************************)
(* Every started thread keeps running, and parse_ and commit_ return.      *)
(* Nothing obliges a caller to call, and no wakeup is promised but those   *)
(* the code asks for.                                                      *)
(***************************************************************************)
Fairness == /\ \A c \in Callers : WF_vars(CallerStep(c))
            /\ \A w \in Workers : WF_vars(WorkerStep(w))
            /\ WF_vars(CommitStep)

FairSpec == Spec /\ Fairness

----------------------------------------------------------------------------
(***************************************************************************)
(* The pipeline implements OrderedDelivery.  An exception the committer    *)
(* has recorded counts from the moment its task is counted.                *)
(***************************************************************************)
Abstract == INSTANCE OrderedDelivery
                WITH Window   <- InflightCap,
                     accepted <- submitted_,
                     settled  <- committed_,
                     log      <- delivered,
                     error    <- IF firstError_ <= committed_ THEN firstError_ ELSE 0,
                     closed   <- stop_

(* The threads, queues and condition variables together behave like the    *)
(* one-task-at-a-time specification of what Submit, Drain and Shutdown     *)
(* promise.                                                                *)
ImplementsOrderedDelivery == Abstract!Spec

----------------------------------------------------------------------------
(* Properties.                                                             *)

(* The shape of the state: a thread is always at one of the places its     *)
(* loop or its call has, and ordered_ never outgrows inflightCap_.         *)
TypeOK == /\ jobs_ \in Seq(Nat) /\ ordered_ \in Seq(Nat)
          /\ Len(ordered_) <= InflightCap
          /\ submitted_ \in Nat /\ committed_ \in Nat /\ firstError_ \in Nat
          /\ stop_ \in BOOLEAN
          /\ parsed \subseteq Nat /\ threw \subseteq Nat /\ failures \subseteq Nat
          /\ wpc \in [Workers -> {"loop", "sleep", "run", "exit"}]
          /\ wjob \in [Workers -> Nat]
          /\ cpc \in {"loop", "sleep", "get", "commit", "count", "exit"}
          /\ cjob \in Nat
          /\ pc \in [Callers -> {"idle", "submit", "submit_sleep", "drain", "drain_sleep",
                                  "join", "closed"}]
          /\ outcome \in {"none", "ok", "threw"}
          /\ delivered \in Seq(Nat)

(* commit_ sees every task at most once and in the order of the Submit     *)
(* calls, however the parallel parses overtake one another.                *)
CommitOrder == \A i, j \in DOMAIN delivered : i < j => delivered[i] < delivered[j]

\* A task that was accepted and is somewhere between Submit and its count.
InHand == \/ jobs_ # <<>> \/ ordered_ # <<>>
          \/ cpc \in {"get", "commit", "count"}
          \/ \E w \in Workers : wpc[w] = "run"

(* When Drain returns, no task is left anywhere in the pipeline: none is   *)
(* queued, being parsed, waiting for the committer or inside commit_.      *)
DrainMeansQuiet == [][\A c \in Callers : pc[c] = "drain" /\ pc'[c] = "idle" => ~InHand]_vars

(* Drain throws exactly when some task submitted so far failed to parse or *)
(* to commit; the failure is never forgotten by a later Drain.             *)
DrainReportsFailure ==
    [][\A c \in Callers : pc[c] = "drain" /\ pc'[c] = "idle" =>
            (outcome' = "threw" <=> failures # {})]_vars

(* The exception kept for Drain is that of the earliest failed task, not   *)
(* of the first one to fail in real time.                                  *)
FirstErrorIsEarliest == /\ failures # {} => firstError_ \in failures
                        /\ \A t \in failures : firstError_ <= t

(* Backpressure bounds what the pipeline holds: the window plus the one    *)
(* task the committer has already popped from it.                          *)
InflightBounded == submitted_ - committed_ <= InflightCap + 1

(* Shutdown lets accepted tasks finish: once the threads are joined every  *)
(* task was handed to commit_ or reported as failed.                       *)
ShutdownLosesNothing ==
    (\E c \in Callers : pc[c] = "closed") =>
        /\ committed_ = submitted_
        /\ \A t \in 1..submitted_ : t \in failures \/ \E i \in DOMAIN delivered : delivered[i] = t

(* Every accepted task is eventually settled: with finitely many tasks the *)
(* pipeline comes to rest again and again.                                 *)
AcceptedSettles == []<>(committed_ = submitted_)

(* No call hangs: a Submit held back by the window, a Drain and a Shutdown *)
(* all return.                                                             *)
CallsReturn == \A c \in Callers : []<>(pc[c] \in {"idle", "closed"})
=============================================================================
