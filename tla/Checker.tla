------------------------------ MODULE Checker ------------------------------
(***************************************************************************)
(* Checker (core/framework/checker.{h,cpp}): one object per host process.  *)
(* Its dispatch thread (the client) calls SetDeviceInfo, SetKernelInfo,    *)
(* Do, CaptureMemcheckCompletion and Finish; batches of kernel records go  *)
(* through the parse pipeline, whose committer thread broadcasts them to   *)
(* one queue per enabled tool; one consumer thread per tool works its      *)
(* queue off.  A foreign dispatch thread may call Do(record) on the same   *)
(* object: the IPC clean-up of another process does.                       *)
(*                                                                         *)
(* The pipeline is the sequence of batches it has accepted and not handed  *)
(* over; ParsePipeline implements that view (OrderedDelivery).             *)
(* finishProduce_ is atomic; mtx_[t] protects queue[t] and done_[t]; one   *)
(* action is one critical section or one access of finishProduce_.         *)
(***************************************************************************)
EXTENDS Naturals, Sequences, FiniteSets

CONSTANTS ToolNum,      \* tools enabled, numbered as sanitizerArr_; 1 is memcheck
          NoDbi,        \* tools that do not support kernels without instrumentation
          DbiKernels,   \* kernels whose summary says isKernelWithDBI
          Window,       \* inflightCap_ of the pipeline
          MaxKernels,   \* bound on the calls of SetKernelInfo
          MaxWork,      \* bound on kernels, batches, records and marks together
          MaxForeign,   \* bound on the foreign calls of Do(record)
          MayFail       \* whether parsing a batch may throw

ASSUME CheckerAssumption == /\ ToolNum \in Nat \ {0}
                            /\ NoDbi \subseteq 1..ToolNum
                            /\ DbiKernels \subseteq 1..MaxKernels
                            /\ Window \in Nat \ {0}
                            /\ {MaxKernels, MaxWork, MaxForeign} \subseteq Nat
                            /\ MayFail \in BOOLEAN

Tools     == 1..ToolNum
Memcheck  == 1
Producers == {"committer", "client", "foreign"}

(* What travels: a batch of kernel records that ends without / with        *)
(* KERNEL_FINISH, a completion mark, a memory record, the two updates of   *)
(* the context, STOP.  seq numbers the client's submissions.               *)
Event(kind, k, n) == [kind |-> kind, kernel |-> k, seq |-> n]
Nothing == Event("none", 0, 0)

VARIABLES pending,          \* accepted by the pipeline, not yet with the committer
          firstError_,      \* the pipeline kept an exception: Drain rethrows it
          queue, done_,     \* workerArgs_ and done_, per tool
          finishProduce_,
          initDone_,        \* initWithDeviceInfoDone_, per tool
          errors,           \* errorCounts_[t] > 0
          sanKernel,        \* kernel the sanitizer object was last initialised for
          ctxKernel,        \* kernel of the consumer thread's RuntimeContext
          isKernelWithDBI_,
          cpc, args,        \* per tool: the consumer, and what it took
          ppc, work, tool,  \* per producer: where it is, its event, the loop index
          kernel,           \* the kernel the client is running, 0 before the first
          seq, foreignSeq,  \* submissions of the client, calls of the foreign thread
          closed,           \* kernels whose last batch was submitted
          ready,            \* marks whose future is ready
          faulty,           \* history: kernels in which a tool found an error
          verdicts          \* history: what DisplaySanitizerEnd printed, in order

pipeline == <<pending, firstError_>>
queues   == <<queue, done_>>
tooling  == <<initDone_, sanKernel, isKernelWithDBI_>>
consumer == <<cpc, args, ctxKernel>>
producer == <<ppc, work, tool>>
client   == <<kernel, seq, foreignSeq, closed>>
history  == <<ready, faulty>>
outcome  == <<errors, verdicts>>
vars     == <<pipeline, queues, finishProduce_, tooling, consumer, producer,
              client, history, outcome>>

Init == /\ pending = <<>> /\ firstError_ = FALSE
        /\ queue = [t \in Tools |-> <<>>] /\ done_ = [t \in Tools |-> TRUE]
        /\ finishProduce_ = FALSE
        /\ initDone_ = [t \in Tools |-> FALSE]
        /\ errors = [t \in Tools |-> FALSE]
        /\ sanKernel = [t \in Tools |-> 0] /\ ctxKernel = [t \in Tools |-> 0]
        /\ isKernelWithDBI_ = FALSE
        /\ cpc = [t \in Tools |-> "top"]
        /\ args = [t \in Tools |-> Nothing]
        /\ ppc = [p \in Producers |-> "idle"]
        /\ work = [p \in Producers |-> Nothing]
        /\ tool = [p \in Producers |-> 1]
        /\ kernel = 0 /\ seq = 0 /\ foreignSeq = 0 /\ closed = {}
        /\ ready = {} /\ faulty = {} /\ verdicts = <<>>

----------------------------------------------------------------------------
(* Conditions and small pieces of code shared by the actions.              *)

(* Drain returns: every accepted batch has been handed over. *)
Drained_never == TRUE
Drained == pending = <<>> /\ ppc["committer"] = "idle"

(* IsNeedFilterDbi: reads isKernelWithDBI_ when it is called. *)
NeedFilter(t, ev) == ev.kind # "record" /\ isKernelWithDBI_ /\ t \in NoDbi

(* notify_all on workerCv_: sleeping consumers test their queue again. *)
NotifyWorkers == cpc' = [t \in Tools |-> IF cpc[t] = "sleep" THEN "locked" ELSE cpc[t]]

Goto(p, label) == ppc' = [ppc EXCEPT ![p] = label]
FromTool(p, n) == tool' = [tool EXCEPT ![p] = n]

(* Producer p has finished its call, consumer t one round of its loop. *)
Return(p) == Goto(p, "idle") /\ work' = [work EXCEPT ![p] = Nothing] /\ FromTool(p, 1)
Again(t) == /\ cpc' = [cpc EXCEPT ![t] = "top"]
            /\ args' = [args EXCEPT ![t] = Nothing]

(* push onto workerArgs_[t] under mtx_[t] *)
PushTo(t, ev) == queue' = [queue EXCEPT ![t] = Append(@, ev)]

(* doMutex_: Do(record) runs in one thread at a time. *)
InDoRecord == {"record_drain", "lower", "push"}
DoMutexFree == \A p \in {"client", "foreign"} : ppc[p] \notin InDoRecord

(* The bound on kernels and submissions; a call of the foreign thread      *)
(* counts for two.                                                         *)
Budget(n) == kernel + seq + 2 * foreignSeq + n <= MaxWork

(* Finish is called when every dispatch thread has ended. *)
Finishing == ppc["client"] \in {"stop_drain", "joining", "finished", "terminated"}

Submit(ev) == Len(pending) < Window /\ pending' = Append(pending, ev)

----------------------------------------------------------------------------
(* The client's calls.                                                     *)

(* SetDeviceInfo and SetKernelInfo first drain the pipeline. *)
CallSetInfo ==
    /\ ppc["client"] = "idle"
    /\ \/ seq = 0 /\ kernel = 0 /\ ~initDone_[Memcheck] /\ Goto("client", "device_drain")
          /\ UNCHANGED kernel
       \/ kernel < MaxKernels /\ Budget(1) /\ Goto("client", "kernel_drain") /\ kernel' = kernel + 1
    /\ UNCHANGED <<pipeline, queues, finishProduce_, tooling, consumer, work, tool,
                   seq, foreignSeq, closed, history, outcome>>

(* Behind the barrier isKernelWithDBI_ is set and the loop over the tools  *)
(* begins; a sticky pipeline error makes Drain throw and the call is over. *)
SetInfoDrained ==
    /\ ppc["client"] \in {"device_drain", "kernel_drain"}
    /\ Drained
    /\ IF firstError_
       THEN Goto("client", "idle") /\ UNCHANGED <<tool, isKernelWithDBI_>>
       ELSE /\ Goto("client", IF ppc["client"] = "device_drain" THEN "device_push" ELSE "kernel_push")
            /\ FromTool("client", 1)
            /\ isKernelWithDBI_' = IF ppc["client"] = "kernel_drain" THEN kernel \in DbiKernels
                                   ELSE isKernelWithDBI_
    /\ UNCHANGED <<pipeline, queues, finishProduce_, initDone_, sanKernel, consumer, work,
                   client, history, outcome>>

(* One tool: the sanitizer is told on the calling thread, its consumer     *)
(* thread through the queue.  memcheck is usable once it knows the device, *)
(* the others once they know the kernel.                                   *)
SetInfoTool ==
    LET t == tool["client"]
        device == ppc["client"] = "device_push"
    IN  /\ ppc["client"] \in {"device_push", "kernel_push"} /\ t \in Tools
        /\ IF device
           THEN /\ initDone_' = [initDone_ EXCEPT ![t] = (t = Memcheck)]
                /\ PushTo(t, Event("device", 0, 0)) /\ UNCHANGED sanKernel
           ELSE /\ initDone_' = [initDone_ EXCEPT ![t] = @ \/ t # Memcheck]
                /\ PushTo(t, Event("kernel", kernel, 0))
                /\ sanKernel' = [sanKernel EXCEPT ![t] = kernel]
        /\ FromTool("client", t + 1)
        /\ UNCHANGED <<pipeline, done_, finishProduce_, isKernelWithDBI_, consumer, ppc, work,
                       client, history, outcome>>

SetInfoReturns ==
    /\ ppc["client"] \in {"device_push", "kernel_push"} /\ tool["client"] > ToolNum
    /\ NotifyWorkers
    /\ Return("client")
    /\ UNCHANGED <<pipeline, queues, finishProduce_, tooling, args, ctxKernel, client, history,
                   outcome>>

(* Do(records): submit the batch; when it ends with KERNEL_FINISH, drain.  *)
DoBatch(kind) ==
    /\ ppc["client"] = "idle" /\ Budget(1)
    /\ kernel > 0 /\ kernel \notin closed
    /\ Submit(Event(kind, kernel, seq + 1)) /\ seq' = seq + 1
    /\ IF kind = "finish" THEN Goto("client", "finish_drain") /\ closed' = closed \cup {kernel}
                          ELSE UNCHANGED <<ppc, closed>>
    /\ UNCHANGED <<firstError_, queues, finishProduce_, tooling, consumer, work, tool,
                   kernel, foreignSeq, history, outcome>>

DoBatchReturns ==
    /\ ppc["client"] = "finish_drain" /\ Drained
    /\ Goto("client", "idle")
    /\ UNCHANGED <<pipeline, queues, finishProduce_, tooling, consumer, work, tool, client,
                   history, outcome>>

(* CaptureMemcheckCompletion: the mark takes its place in the pipeline. *)
CaptureMemcheckCompletion_direct ==
    /\ ppc["client"] = "idle" /\ Budget(1)
    /\ PushTo(Memcheck, Event("mark", 0, seq + 1)) /\ seq' = seq + 1
    /\ NotifyWorkers
    /\ UNCHANGED <<pipeline, done_, finishProduce_, tooling, args, ctxKernel, producer,
                   kernel, foreignSeq, closed, history, outcome>>
CaptureMemcheckCompletion ==
    /\ ppc["client"] = "idle" /\ Budget(1)
    /\ Submit(Event("mark", 0, seq + 1)) /\ seq' = seq + 1
    /\ UNCHANGED <<firstError_, queues, finishProduce_, tooling, consumer, producer,
                   kernel, foreignSeq, closed, history, outcome>>

(* Do(record), by the client or by the foreign thread: take doMutex_ and   *)
(* drain.  An ONLINE_ERROR record is then handled on the spot; any other   *)
(* one (a memory record) is broadcast.                                     *)
DoRecord(p) ==
    /\ ppc[p] = "idle" /\ DoMutexFree /\ ~Finishing
    /\ \/ p = "client" /\ Budget(1) /\ seq' = seq + 1 /\ UNCHANGED foreignSeq
       \/ p = "foreign" /\ foreignSeq < MaxForeign /\ Budget(2)
          /\ foreignSeq' = foreignSeq + 1 /\ UNCHANGED seq
    /\ Goto(p, "record_drain")
    /\ work' = [work EXCEPT ![p] = Event("record", 0, IF p = "client" THEN seq + 1 ELSE 0)]
    /\ UNCHANGED <<pipeline, queues, finishProduce_, tooling, consumer, tool, kernel, closed,
                   history, outcome>>

RecordDrained(p) ==
    /\ ppc[p] = "record_drain" /\ Drained
    /\ \/ Return(p)                       \* Drain throws, or ONLINE_ERROR
       \/ ~firstError_ /\ Goto(p, "lower") /\ UNCHANGED <<work, tool>>
    /\ UNCHANGED <<pipeline, queues, finishProduce_, tooling, consumer, client,
                   history, outcome>>

----------------------------------------------------------------------------
(* The committer: batches in submission order.                             *)

(* A batch whose parse threw is dropped; the first exception is kept. *)
CommitterFails ==
    /\ ppc["committer"] = "idle" /\ pending # <<>> /\ MayFail /\ Head(pending).kind # "mark"
    /\ pending' = Tail(pending) /\ firstError_' = TRUE
    /\ UNCHANGED <<queues, finishProduce_, tooling, consumer, producer, client, history, outcome>>

(* DispatchParsed of a mark: straight into memcheck's queue. *)
DispatchMark ==
    /\ ppc["committer"] = "idle" /\ pending # <<>> /\ Head(pending).kind = "mark"
    /\ pending' = Tail(pending)
    /\ PushTo(Memcheck, Head(pending)) /\ NotifyWorkers
    /\ UNCHANGED <<firstError_, done_, finishProduce_, tooling, args, ctxKernel, producer,
                   client, history, outcome>>

CommitterTakes ==
    /\ ppc["committer"] = "idle" /\ pending # <<>> /\ Head(pending).kind # "mark"
    /\ pending' = Tail(pending)
    /\ Goto("committer", "lower") /\ work' = [work EXCEPT !["committer"] = Head(pending)]
    /\ UNCHANGED <<firstError_, queues, finishProduce_, tooling, consumer, tool, client,
                   history, outcome>>

(* DispatchParsed and Do(record) broadcast alike. *)
LowerFinishProduce(p) ==
    /\ ppc[p] = "lower"
    /\ finishProduce_' = FALSE
    /\ Goto(p, "push") /\ FromTool(p, 1)
    /\ UNCHANGED <<pipeline, queues, tooling, consumer, work, client, history, outcome>>

PushTool(p) ==
    LET t == tool[p]
    IN  /\ ppc[p] = "push" /\ t \in Tools
        /\ IF NeedFilter(t, work[p])
           THEN UNCHANGED queues
           ELSE PushTo(t, work[p]) /\ done_' = [done_ EXCEPT ![t] = FALSE]
        /\ FromTool(p, t + 1)
        /\ UNCHANGED <<pipeline, finishProduce_, tooling, consumer, ppc, work, client,
                       history, outcome>>

(* Everything is pushed: the consumers are woken; after KERNEL_FINISH      *)
(* finishProduce_ is raised first and the producer waits for every tool.   *)
Pushed(p) ==
    /\ ppc[p] = "push" /\ tool[p] > ToolNum
    /\ NotifyWorkers
    /\ IF work[p].kind = "finish"
       THEN finishProduce_' = TRUE /\ Goto(p, "await") /\ FromTool(p, 1) /\ UNCHANGED work
       ELSE Return(p) /\ UNCHANGED finishProduce_
    /\ UNCHANGED <<pipeline, queues, tooling, args, ctxKernel, client, history, outcome>>

AwaitTool_first(p) ==
    LET t == tool[p]
    IN  /\ ppc[p] = "await" /\ t \in Tools
        /\ NeedFilter(t, work[p]) \/ done_[1]
        /\ FromTool(p, t + 1)
        /\ UNCHANGED <<pipeline, queues, finishProduce_, tooling, consumer, ppc, work, client,
                       history, outcome>>
AwaitTool(p) ==
    LET t == tool[p]
    IN  /\ ppc[p] = "await" /\ t \in Tools
        /\ NeedFilter(t, work[p]) \/ done_[t]
        /\ FromTool(p, t + 1)
        /\ UNCHANGED <<pipeline, queues, finishProduce_, tooling, consumer, ppc, work, client,
                       history, outcome>>

(* All waited for: errorCounts_ is taken and reset, the verdict printed. *)
DisplaySanitizerEnd(p) ==
    /\ ppc[p] = "await" /\ tool[p] > ToolNum
    /\ verdicts' = Append(verdicts, [kernel |-> work[p].kernel,
                                     errors |-> \E t \in Tools : errors[t]])
    /\ errors' = [t \in Tools |-> FALSE]
    /\ Return(p)
    /\ UNCHANGED <<pipeline, queues, finishProduce_, tooling, consumer, client, history>>

----------------------------------------------------------------------------
(* The consumer thread of tool t (ConsumeRecordThread).                    *)

Take(t) == /\ queue[t] # <<>>
           /\ args' = [args EXCEPT ![t] = Head(queue[t])]
           /\ queue' = [queue EXCEPT ![t] = Tail(@)]
           /\ cpc' = [cpc EXCEPT ![t] = "consume"]

(* finishProduce_ and something queued: taken without the mutex. *)
TakeUnlocked(t) ==
    /\ cpc[t] = "top" /\ finishProduce_ /\ Take(t)
    /\ UNCHANGED <<pipeline, done_, finishProduce_, tooling, ctxKernel, producer, client,
                   history, outcome>>

GoForLock(t) ==
    /\ cpc[t] = "top" /\ ~(finishProduce_ /\ queue[t] # <<>>)
    /\ cpc' = [cpc EXCEPT ![t] = "locked"]
    /\ UNCHANGED <<pipeline, queues, finishProduce_, tooling, args, ctxKernel, producer, client,
                   history, outcome>>

TakeLocked(t) ==
    /\ cpc[t] = "locked" /\ Take(t)
    /\ UNCHANGED <<pipeline, done_, finishProduce_, tooling, ctxKernel, producer, client,
                   history, outcome>>

Sleep(t) ==
    /\ cpc[t] = "locked" /\ queue[t] = <<>>
    /\ cpc' = [cpc EXCEPT ![t] = "sleep"]
    /\ UNCHANGED <<pipeline, queues, finishProduce_, tooling, args, ctxKernel, producer, client,
                   history, outcome>>

SpuriousWake(t) ==
    /\ cpc[t] = "sleep" /\ queue[t] # <<>>
    /\ cpc' = [cpc EXCEPT ![t] = "locked"]
    /\ UNCHANGED <<pipeline, queues, finishProduce_, tooling, args, ctxKernel, producer, client,
                   history, outcome>>

(* The updates of the context and the mark. *)
HandleContext(t) ==
    LET ev == args[t]
    IN  /\ cpc[t] = "consume" /\ ev.kind \in {"device", "kernel", "mark"}
        /\ ctxKernel' = [ctxKernel EXCEPT ![t] = IF ev.kind = "kernel" THEN ev.kernel ELSE @]
        /\ ready' = IF ev.kind = "mark" THEN ready \cup {ev.seq} ELSE ready
        /\ Again(t)
        /\ UNCHANGED <<pipeline, queues, finishProduce_, tooling, producer, client, faulty,
                       outcome>>

(* ConsumeRecord and ConsumeKernelBlock: the sanitizer works, and reports  *)
(* what it finds, if it has been initialised.                              *)
Consume(t) ==
    LET ev == args[t]
    IN  /\ cpc[t] = "consume" /\ ev.kind \in {"record", "block", "finish"}
        /\ \/ UNCHANGED <<errors, faulty>>
           \/ /\ initDone_[t] /\ ev.kind # "record"
              /\ errors' = [errors EXCEPT ![t] = TRUE]
              /\ faulty' = faulty \cup {ev.kernel}
        /\ cpc' = [cpc EXCEPT ![t] = "check"]
        /\ UNCHANGED <<pipeline, queues, finishProduce_, tooling, args, ctxKernel, producer,
                       client, ready, verdicts>>

CheckFinishProduce(t) ==
    /\ cpc[t] = "check"
    /\ IF finishProduce_ THEN cpc' = [cpc EXCEPT ![t] = "wait"] /\ UNCHANGED args ELSE Again(t)
    /\ UNCHANGED <<pipeline, queues, finishProduce_, tooling, ctxKernel, producer, client,
                   history, outcome>>

WaitAfterConsumed_always(t) ==
    /\ cpc[t] = "wait"
    /\ done_' = [done_ EXCEPT ![t] = TRUE]
    /\ Again(t)
    /\ UNCHANGED <<pipeline, queue, finishProduce_, tooling, ctxKernel, producer, client, history,
                   outcome>>
WaitAfterConsumed(t) ==
    /\ cpc[t] = "wait"
    /\ done_' = [done_ EXCEPT ![t] = @ \/ queue[t] = <<>>]
    /\ Again(t)
    /\ UNCHANGED <<pipeline, queue, finishProduce_, tooling, ctxKernel, producer, client, history,
                   outcome>>

Stop(t) ==
    /\ cpc[t] = "consume" /\ args[t].kind = "stop"
    /\ queue' = [queue EXCEPT ![t] = <<>>]
    /\ cpc' = [cpc EXCEPT ![t] = "gone"]
    /\ UNCHANGED <<pipeline, done_, finishProduce_, tooling, args, ctxKernel, producer, client,
                   history, outcome>>

----------------------------------------------------------------------------
(* Finish, after every dispatch thread has stopped: drain, stop the        *)
(* pipeline, send STOP to every consumer, join them.  When Drain throws,   *)
(* nothing is stopped, the destructor swallows the exception and the       *)
(* joinable threads end the process (std::terminate).                      *)

CallFinish_early ==
    /\ ppc["client"] = "idle"
    /\ Goto("client", "stop_drain")
    /\ UNCHANGED <<pipeline, queues, finishProduce_, tooling, consumer, work, tool, client,
                   history, outcome>>
CallFinish ==
    /\ ppc["client"] = "idle" /\ ppc["foreign"] = "idle"
    /\ Goto("client", "stop_drain")
    /\ UNCHANGED <<pipeline, queues, finishProduce_, tooling, consumer, work, tool, client,
                   history, outcome>>

FinishDrained ==
    /\ ppc["client"] = "stop_drain" /\ Drained
    /\ IF firstError_
       THEN /\ Goto("client", "terminated") /\ UNCHANGED queue
            /\ cpc' = [t \in Tools |-> "killed"]
       ELSE /\ Goto("client", "joining")
            /\ queue' = [t \in Tools |-> Append(queue[t], Event("stop", 0, 0))]
            /\ NotifyWorkers
    /\ UNCHANGED <<pipeline, done_, finishProduce_, tooling, args, ctxKernel, work, tool, client,
                   history, outcome>>

FinishJoined ==
    /\ ppc["client"] = "joining" /\ \A t \in Tools : cpc[t] = "gone"
    /\ Goto("client", "finished")
    /\ UNCHANGED <<pipeline, queues, finishProduce_, tooling, consumer, work, tool, client,
                   history, outcome>>

ClientStep == \/ CallSetInfo \/ SetInfoDrained \/ SetInfoTool \/ SetInfoReturns
              \/ \E kind \in {"block", "finish"} : DoBatch(kind)
              \/ DoBatchReturns \/ CaptureMemcheckCompletion
              \/ CallFinish \/ FinishDrained \/ FinishJoined

ProducerStep(p) == \/ LowerFinishProduce(p) \/ PushTool(p) \/ Pushed(p)
                   \/ AwaitTool(p) \/ DisplaySanitizerEnd(p)

CommitterStep == CommitterFails \/ DispatchMark \/ CommitterTakes \/ ProducerStep("committer")

ConsumerStep(t) == \/ TakeUnlocked(t) \/ GoForLock(t) \/ TakeLocked(t) \/ Sleep(t)
                   \/ HandleContext(t) \/ Consume(t) \/ CheckFinishProduce(t)
                   \/ WaitAfterConsumed(t) \/ Stop(t)

(* Finish has returned and nothing runs any more. *)
Ended == /\ ppc["client"] \in {"finished", "terminated"} /\ UNCHANGED vars

Next == \/ ClientStep
        \/ \E p \in {"client", "foreign"} : DoRecord(p) \/ RecordDrained(p) \/ ProducerStep(p)
        \/ CommitterStep
        \/ \E t \in Tools : ConsumerStep(t) \/ SpuriousWake(t)
        \/ Ended

Spec == Init /\ [][Next]_vars

(* Threads keep running; a call in progress goes on.  Nothing makes the    *)
(* client start another call or a thread wake spuriously.                  *)
Fairness == /\ WF_vars(CommitterStep)
            /\ \A t \in Tools : WF_vars(ConsumerStep(t))
            /\ WF_vars(SetInfoDrained \/ SetInfoTool \/ SetInfoReturns \/ DoBatchReturns
                       \/ FinishDrained \/ FinishJoined)
            /\ \A p \in {"client", "foreign"} : WF_vars(RecordDrained(p) \/ ProducerStep(p))

FairSpec == Spec /\ Fairness

----------------------------------------------------------------------------
(* Properties.                                                             *)

Kinds  == {"none", "record", "block", "finish", "mark", "device", "kernel", "stop"}
Events == [kind : Kinds, kernel : 0..MaxKernels, seq : 0..MaxWork]

ProducerPcs == InDoRecord \cup {"idle", "await", "device_drain", "device_push", "kernel_drain", "kernel_push",
                               "finish_drain", "stop_drain", "joining", "finished", "terminated"}
ConsumerPcs == {"top", "locked", "sleep", "consume", "check", "wait", "gone", "killed"}

TypeOK ==
    /\ pending \in Seq(Events) /\ firstError_ \in BOOLEAN
    /\ queue \in [Tools -> Seq(Events)] /\ done_ \in [Tools -> BOOLEAN]
    /\ finishProduce_ \in BOOLEAN /\ isKernelWithDBI_ \in BOOLEAN
    /\ initDone_ \in [Tools -> BOOLEAN] /\ errors \in [Tools -> BOOLEAN]
    /\ sanKernel \in [Tools -> 0..MaxKernels] /\ ctxKernel \in [Tools -> 0..MaxKernels]
    /\ cpc \in [Tools -> ConsumerPcs]
    /\ args \in [Tools -> Events]
    /\ ppc \in [Producers -> ProducerPcs] /\ work \in [Producers -> Events]
    /\ tool \in [Producers -> 1..(ToolNum + 1)]
    /\ kernel \in 0..MaxKernels /\ seq \in 0..MaxWork /\ foreignSeq \in 0..MaxForeign
    /\ closed \subseteq 1..MaxKernels /\ faulty \subseteq 0..MaxKernels /\ ready \subseteq 0..MaxWork
    /\ verdicts \in Seq([kernel : 0..MaxKernels, errors : BOOLEAN])

(* What tool t has been given and has not processed. *)
Unprocessed(t) == {queue[t][i] : i \in DOMAIN queue[t]}
                  \cup (IF cpc[t] = "consume" THEN {args[t]} ELSE {})
IsBatch(ev) == ev.kind \in {"block", "finish"}
Filtered(t, k) == k \in DbiKernels /\ t \in NoDbi

(* DisplaySanitizerEnd: "No error detected." is never printed for a kernel *)
(* in which one of the tools found an error.                               *)
VerdictCoversErrors ==
    \A i \in DOMAIN verdicts : verdicts[i].kernel \in faulty => verdicts[i].errors

(* SetKernelInfo: a tool processes a batch under the RuntimeContext of the *)
(* kernel it belongs to, and only if it is not filtered for that kernel -  *)
(* the barrier keeps batches of the previous kernel out, as long as no     *)
(* parse has failed (Drain then throws before the context is switched).    *)
BatchUnderItsContext ==
    ~firstError_ => \A t \in Tools :
        (cpc[t] = "consume" /\ IsBatch(args[t])) =>
            ctxKernel[t] = args[t].kernel /\ ~Filtered(t, args[t].kernel)

(* SetKernelInfo re-initialises the sanitizers on the calling thread,      *)
(* without going through their queues: a batch can only meet the state of  *)
(* a later kernel if its own kernel was abandoned without KERNEL_FINISH,   *)
(* or a parse has failed.                                                  *)
SanitizerStateOfKernel ==
    ~firstError_ => \A t \in Tools :
        (cpc[t] = "consume" /\ IsBatch(args[t]) /\ args[t].kernel \in closed) =>
            sanKernel[t] = args[t].kernel

(* CaptureMemcheckCompletion: a mark becomes ready only when memcheck has  *)
(* processed everything the client handed in before it.                    *)
MarkAfterEarlierWork ==
    \A n \in ready : /\ \A ev \in Unprocessed(Memcheck) : ev.seq \notin 1..(n - 1)
                     /\ \A i \in DOMAIN pending : pending[i].seq > n
                     /\ ppc["committer"] \in {"lower", "push"} => work["committer"].seq > n

(* Finish: when a consumer reaches STOP, and after it has gone, nothing    *)
(* is queued for it or still on its way: STOP discards no work.            *)
StopDiscardsNothing ==
    \A t \in Tools : (cpc[t] = "gone" \/ (cpc[t] = "consume" /\ args[t].kind = "stop")) =>
        queue[t] = <<>> /\ pending = <<>> /\ \A p \in {"committer", "foreign"} : ppc[p] = "idle"

(* Do(records), comment at checker.cpp:570-571: a call whose batch ends    *)
(* with KERNEL_FINISH returns once the kernel has been checked.            *)
DoFinishReturns == ppc["client"] = "finish_drain" ~> ppc["client"] = "idle"
=============================================================================
