-------------------------- MODULE CheckerInvariant --------------------------
(***************************************************************************)
(* An inductive invariant of Checker, and its first parts: the types, which *)
(* calls can be in progress together, the pipeline step by step, and how   *)
(* events get from it into the queues of the tools and out of them.        *)
(* CheckerProofs proves the other parts and the theorems.                  *)
(***************************************************************************)
EXTENDS Checker, TLAPS

----------------------------------------------------------------------------
(* The inductive invariant.                                                *)

(* Batches and marks the pipeline has accepted and not handed to the tools *)
(* completely.                                                             *)
Upstream == {pending[i] : i \in DOMAIN pending}
            \cup (IF ppc["committer"] = "idle" THEN {} ELSE {work["committer"]})

(* SetKernelInfo counts the new kernel at once, but tells tool t of it     *)
(* behind the barrier, one tool after the other.                           *)
Running == IF ppc["client"] = "kernel_drain" THEN kernel - 1 ELSE kernel
NotTold(t) == \/ ppc["client"] = "kernel_drain"
              \/ ppc["client"] = "kernel_push" /\ tool["client"] <= t
Told(t) == IF NotTold(t) THEN kernel - 1 ELSE kernel

(* Producer p has an event for tool t and has not pushed it. *)
ToCome(p, t) == \/ ppc[p] \in {"record_drain", "lower"}
                \/ ppc[p] = "push" /\ tool[p] <= t

ClientQuiet == {"device_push", "kernel_push", "lower", "push", "joining", "finished", "terminated"}
ClientPcs == ClientQuiet \cup {"idle", "device_drain", "kernel_drain", "finish_drain",
                               "record_drain", "stop_drain"}

(* Where the producers can be, and with what. *)
CallInv ==
    /\ ppc["committer"] \in {"idle", "lower", "push", "await"}
    /\ ppc["foreign"] \in {"idle"} \cup InDoRecord
    /\ ppc["client"] \in ClientPcs
    /\ \A p \in {"client", "foreign"} :
         ppc[p] \in InDoRecord => work[p] = Event("record", 0, IF p = "client" THEN seq ELSE 0)
    /\ Finishing => ppc["foreign"] = "idle"
    /\ ppc["client"] \in {"kernel_drain", "kernel_push"} => kernel > 0 /\ kernel \notin closed
    /\ ppc["client"] = "finish_drain" => kernel \in closed
    /\ closed \subseteq 1..kernel

(* The pipeline: in submission order, all of one kernel, KERNEL_FINISH     *)
(* last, and empty behind a barrier.                                       *)
PendingInv ==
    /\ \A i \in DOMAIN pending : /\ pending[i].kind \in {"block", "finish", "mark"}
                                 /\ pending[i].kind = "finish" => i = Len(pending)
                                 /\ pending[i].seq \in 1..seq
    /\ \A i, j \in DOMAIN pending : i < j => pending[i].seq < pending[j].seq
    /\ ppc["committer"] # "idle" =>
         /\ IsBatch(work["committer"]) /\ work["committer"].seq \in 1..seq
         /\ work["committer"].kind = "finish" => pending = <<>>
         /\ \A i \in DOMAIN pending : work["committer"].seq < pending[i].seq
    /\ ppc["committer"] = "await" => work["committer"].kind = "finish"
    /\ \A e \in Upstream : /\ IsBatch(e) => e.kernel = Running
                           /\ e.kind = "finish" => ppc["client"] = "finish_drain"
                           /\ ppc["client"] \in InDoRecord => e.seq < seq
    /\ ppc["client"] \in ClientQuiet => pending = <<>> /\ ppc["committer"] = "idle"

(* As long as no parse has failed: the client waits in Do for the batch    *)
(* that ends its kernel, and the filter is that of the running kernel.     *)
FinishInv ==
    ~firstError_ =>
      /\ ppc["client"] = "finish_drain" /\ Upstream # {} => \E e \in Upstream : e.kind = "finish"
      /\ ppc["client"] # "finish_drain" => \A e \in Upstream : IsBatch(e) => e.kernel \notin closed
      /\ isKernelWithDBI_ <=> Running \in DbiKernels

(* a comes before b in a queue. *)
Carries(e) == e.kind \in {"kernel", "block", "finish"}
Before(a, b) ==
    /\ a.kind # "stop"
    /\ a.seq > 0 /\ b.seq > 0 => a.seq < b.seq
    /\ Carries(a) /\ Carries(b) => a.kernel <= b.kernel /\ (b.kind = "kernel" => a.kernel < b.kernel)

OrderInv ==
    \A t \in Tools :
      /\ \A i, j \in DOMAIN queue[t] : i < j => Before(queue[t][i], queue[t][j])
      /\ cpc[t] = "consume" => \A i \in DOMAIN queue[t] : Before(args[t], queue[t][i])

(* What is unprocessed was submitted before everything upstream ... *)
SeqInv ==
    \A t \in Tools : \A ev \in Unprocessed(t) :
      /\ ev.kind = "mark" => ev.seq > 0 /\ t = Memcheck
      /\ ev.seq > 0 =>
           /\ ev.seq <= seq
           /\ \A i \in DOMAIN pending : ev.seq < pending[i].seq
           /\ ppc["committer"] # "idle" =>
                ev.seq < work["committer"].seq \/ (ev = work["committer"] /\ ~ToCome("committer", t))
           /\ ppc["client"] \in InDoRecord =>
                ev.seq < seq \/ (ev = work["client"] /\ ~ToCome("client", t))

(* ... and so was every mark that is ready. *)
MarkInv ==
    \A n \in ready :
      /\ n <= seq
      /\ \A ev \in Unprocessed(Memcheck) : ev.seq > 0 => n < ev.seq
      /\ \A e \in Upstream : n < e.seq
      /\ ppc["client"] \in InDoRecord => n < seq

(* Kernels reach a tool in their order. *)
KernelInv ==
    \A t \in Tools :
      /\ ctxKernel[t] <= kernel /\ (NotTold(t) => ctxKernel[t] < kernel)
      /\ \A ev \in Unprocessed(t) :
           /\ IsBatch(ev) => /\ ev.kernel <= kernel
                             /\ ppc["client"] \in {"kernel_drain", "kernel_push"} => ev.kernel < kernel
           /\ ev.kind = "kernel" => /\ ctxKernel[t] < ev.kernel /\ ev.kernel <= kernel
                                    /\ NotTold(t) => ev.kernel < kernel

(* done_[t] is raised when t has nothing left, so that what AwaitTool has  *)
(* passed holds no batch of the kernel that ends; a tool that is filtered  *)
(* was filtered when the batches were pushed.                              *)
DoneInv ==
    \A t \in Tools : \A ev \in Unprocessed(t) : IsBatch(ev) =>
      /\ ~done_[t]
      /\ ev.kernel = kernel => ~(isKernelWithDBI_ /\ t \in NoDbi)
      /\ ppc["committer"] = "await" /\ t < tool["committer"] => ev.kernel # kernel

(* As long as no parse has failed: the context of every batch is the       *)
(* consumer's or comes before it in the queue, and a batch of a kernel     *)
(* that was closed is waited for.                                          *)
ContextInv ==
    ~firstError_ =>
      \A t \in Tools :
        /\ sanKernel[t] = Told(t)
        /\ \/ ctxKernel[t] = Told(t)
           \/ \E e \in Unprocessed(t) : e.kind = "kernel" /\ e.kernel = Told(t)
        /\ \A ev \in Unprocessed(t) : IsBatch(ev) =>
             /\ \/ ctxKernel[t] = ev.kernel
                \/ \E e \in Unprocessed(t) : e.kind = "kernel" /\ e.kernel = ev.kernel
             /\ ~Filtered(t, ev.kernel)
             /\ ev.kernel \in closed =>
                  ppc["client"] = "finish_drain" /\ ev.kernel = kernel /\ Upstream # {}

(* STOP is sent last. *)
StopInv ==
    \A t \in Tools :
      /\ cpc[t] = "gone" => queue[t] = <<>> /\ ppc["client"] \in {"joining", "finished"}
      /\ \A ev \in Unprocessed(t) : ev.kind = "stop" => ppc["client"] \in {"joining", "finished"}

(* The verdict of a kernel comes after the last of its batches; until then *)
(* an error that was found in it is counted.                               *)
VerdictInv ==
    /\ \A i \in DOMAIN verdicts :
         /\ verdicts[i].kernel \in closed
         /\ \A e \in Upstream : IsBatch(e) => e.kernel # verdicts[i].kernel
         /\ \A t \in Tools : \A ev \in Unprocessed(t) : IsBatch(ev) => ev.kernel # verdicts[i].kernel
    /\ faulty \subseteq 0..kernel
    /\ kernel \in faulty => \/ \E i \in DOMAIN verdicts : verdicts[i].kernel = kernel
                            \/ \E t \in Tools : errors[t]

IndInv == /\ TypeOK /\ CallInv /\ PendingInv /\ FinishInv /\ OrderInv /\ SeqInv /\ MarkInv
          /\ KernelInv /\ DoneInv /\ ContextInv /\ StopInv /\ VerdictInv /\ VerdictCoversErrors

----------------------------------------------------------------------------
(* Sequences.                                                              *)

(* The length and the elements of a queue after a push.                    *)
LEMMA AppendFacts ==
  ASSUME NEW S, NEW s \in Seq(S), NEW e \in S
  PROVE  /\ Append(s, e) \in Seq(S)
         /\ Len(Append(s, e)) = Len(s) + 1
         /\ DOMAIN Append(s, e) = 1..(Len(s) + 1)
         /\ \A i \in 1..Len(s) : Append(s, e)[i] = s[i]
         /\ Append(s, e)[Len(s) + 1] = e
  OBVIOUS

(* The length and the elements of a queue after its first is taken.        *)
LEMMA TailFacts ==
  ASSUME NEW S, NEW s \in Seq(S), s # <<>>
  PROVE  /\ Head(s) \in S /\ Head(s) = s[1] /\ 1 \in DOMAIN s
         /\ Tail(s) \in Seq(S)
         /\ Len(Tail(s)) = Len(s) - 1
         /\ DOMAIN Tail(s) = 1..(Len(s) - 1)
         /\ \A i \in 1..(Len(s) - 1) : Tail(s)[i] = s[i + 1]
         /\ Len(s) \in Nat \ {0} /\ DOMAIN s = 1..Len(s)
  OBVIOUS

(* A queue is empty exactly when it has no elements.                       *)
LEMMA EmptyFacts ==
  ASSUME NEW S, NEW s \in Seq(S), DOMAIN s = {}
  PROVE  s = <<>>
  <1>1. Len(s) \in Nat /\ DOMAIN s = 1..Len(s)
    OBVIOUS
  <1>2. 1 \notin 1..Len(s)
    BY Zenon, <1>1
  <1>3. Len(s) = 0
    BY <1>1, <1>2
  <1> QED
    BY <1>3

(* Whatever is submitted or pushed is an event.                            *)
LEMMA EventType ==
  ASSUME NEW kind \in Kinds, NEW k \in 0..MaxKernels, NEW n \in 0..MaxWork
  PROVE  /\ Event(kind, k, n) \in Events
         /\ Event(kind, k, n).kind = kind /\ Event(kind, k, n).kernel = k
         /\ Event(kind, k, n).seq = n
  BY Zenon DEF Event, Events

(* The fields of an event have the types they are used with.               *)
LEMMA EventFields ==
  ASSUME NEW e \in Events
  PROVE  e.kind \in Kinds /\ e.kernel \in 0..MaxKernels /\ e.seq \in 0..MaxWork
  BY Zenon DEF Events

(* Pushing an event to a tool keeps the types of queues and consumers.     *)
LEMMA PushType ==
  ASSUME queue \in [Tools -> Seq(Events)], NEW t \in Tools, NEW ev \in Events, PushTo(t, ev)
  PROVE  queue' \in [Tools -> Seq(Events)]
  <1>1. Append(queue[t], ev) \in Seq(Events)
    BY Zenon, AppendFacts
  <1> QED
    BY Zenon, <1>1 DEF PushTo

----------------------------------------------------------------------------
(* Type correctness.                                                       *)

(* The variables start with their types.                                   *)
LEMMA TypeInit == Init => TypeOK
  <1> SUFFICES ASSUME Init PROVE TypeOK
    BY Zenon
  <1> USE CheckerAssumption
  <1>1. Nothing \in Events
    BY EventType DEF Nothing, Kinds
  <1>2. pending \in Seq(Events) /\ queue \in [Tools -> Seq(Events)]
    BY DEF Init
  <1>3. args \in [Tools -> Events] /\ work \in [Producers -> Events]
    BY Zenon, <1>1 DEF Init
  <1>4. cpc \in [Tools -> ConsumerPcs] /\ ppc \in [Producers -> ProducerPcs]
    BY Zenon DEF Init, ConsumerPcs, ProducerPcs
  <1>5. tool \in [Producers -> 1..(ToolNum + 1)]
    <2>1. 1 \in 1..(ToolNum + 1)
      OBVIOUS
    <2> QED
      BY Zenon, <2>1 DEF Init
  <1>6. /\ done_ \in [Tools -> BOOLEAN] /\ initDone_ \in [Tools -> BOOLEAN]
        /\ errors \in [Tools -> BOOLEAN]
        /\ sanKernel \in [Tools -> 0..MaxKernels] /\ ctxKernel \in [Tools -> 0..MaxKernels]
    BY DEF Init
  <1>7. verdicts \in Seq([kernel : 0..MaxKernels, errors : BOOLEAN])
    BY DEF Init
  <1>8. /\ kernel \in 0..MaxKernels /\ seq \in 0..MaxWork /\ foreignSeq \in 0..MaxForeign
        /\ closed \subseteq 1..MaxKernels /\ faulty \subseteq 0..MaxKernels
        /\ ready \subseteq 0..MaxWork
    BY DEF Init
  <1>9. firstError_ \in BOOLEAN /\ finishProduce_ \in BOOLEAN /\ isKernelWithDBI_ \in BOOLEAN
    BY Zenon DEF Init
  <1> QED
    BY Zenon, <1>2, <1>3, <1>4, <1>5, <1>6, <1>7, <1>8, <1>9 DEF TypeOK

(* Every step keeps the types of the variables.                            *)
LEMMA TypeStep == TypeOK /\ [Next]_vars => TypeOK'
  <1> SUFFICES ASSUME TypeOK, [Next]_vars PROVE TypeOK'
    BY Zenon
  <1> USE CheckerAssumption
  <1>n. Nothing \in Events
    BY EventType DEF Nothing, Kinds
  <1>t. Memcheck \in Tools
    BY DEF Memcheck, Tools
  <1>1. CASE CallSetInfo
    <2>1. ppc' \in [Producers -> ProducerPcs]
      BY SMTT(30), <1>1 DEF CallSetInfo, TypeOK, Goto, Producers, ProducerPcs, InDoRecord
    <2>2. kernel' \in 0..MaxKernels
      BY SMTT(30), <1>1 DEF CallSetInfo, TypeOK
    <2>3. UNCHANGED <<pending, firstError_, queue, done_, finishProduce_, isKernelWithDBI_,
                    initDone_, errors, sanKernel, ctxKernel, cpc, args, work, tool, seq, foreignSeq,
                    closed, faulty, ready, verdicts>>
      BY Zenon, <1>1 DEF CallSetInfo, pipeline, queues, tooling, consumer, producer, client, history, outcome
    <2> QED
      BY Zenon, <2>1, <2>2, <2>3 DEF TypeOK
  <1>2. CASE SetInfoDrained
    <2>1. isKernelWithDBI_' \in BOOLEAN
      <3>1. \/ isKernelWithDBI_' = isKernelWithDBI_
            \/ isKernelWithDBI_' = (kernel \in DbiKernels)
        BY Zenon, <1>2 DEF SetInfoDrained
      <3>2. (kernel \in DbiKernels) \in BOOLEAN /\ isKernelWithDBI_ \in BOOLEAN
        BY DEF TypeOK
      <3> QED
        BY <3>1, <3>2, Zenon
    <2>2. ppc' \in [Producers -> ProducerPcs]
      BY SMTT(30), <1>2 DEF SetInfoDrained, TypeOK, Goto, Producers, ProducerPcs, InDoRecord
    <2>3. tool' \in [Producers -> 1..(ToolNum + 1)]
      BY SMTT(30), <1>2 DEF SetInfoDrained, TypeOK, FromTool, Producers
    <2>4. UNCHANGED <<pending, firstError_, queue, done_, finishProduce_, initDone_, errors,
                    sanKernel, ctxKernel, cpc, args, work, kernel, seq, foreignSeq, closed, faulty,
                    ready, verdicts>>
      BY Zenon, <1>2 DEF SetInfoDrained, pipeline, queues, tooling, consumer, producer, client, history, outcome
    <2> QED
      BY Zenon, <2>1, <2>2, <2>3, <2>4 DEF TypeOK
  <1>3. CASE SetInfoTool
    <2>1. tool["client"] \in Tools /\ tool["client"] + 1 \in 1..(ToolNum + 1)
      BY <1>3 DEF SetInfoTool, Tools
    <2>2. Event("device", 0, 0) \in Events /\ Event("kernel", kernel, 0) \in Events
      BY EventType DEF TypeOK, Kinds
    <2>3. queue' \in [Tools -> Seq(Events)]
      BY Zenon, <1>3, <2>1, <2>2, PushType DEF SetInfoTool, TypeOK
    <2>4. initDone_' \in [Tools -> BOOLEAN]
      BY Zenon, <1>3 DEF SetInfoTool, TypeOK
    <2>5. sanKernel' \in [Tools -> 0..MaxKernels]
      BY Zenon, <1>3, <2>1 DEF SetInfoTool, TypeOK
    <2>6. tool' \in [Producers -> 1..(ToolNum + 1)]
      BY Zenon, <1>3, <2>1 DEF SetInfoTool, TypeOK, FromTool, Producers
    <2>7. UNCHANGED <<pending, firstError_, done_, finishProduce_, isKernelWithDBI_, errors,
                    ctxKernel, cpc, args, ppc, work, kernel, seq, foreignSeq, closed, faulty, ready,
                    verdicts>>
      BY Zenon, <1>3 DEF SetInfoTool, pipeline, queues, tooling, consumer, producer, client, history, outcome
    <2> QED
      BY Zenon, <2>3, <2>4, <2>5, <2>6, <2>7 DEF TypeOK
  <1>4. CASE SetInfoReturns
    <2>1. cpc' \in [Tools -> ConsumerPcs]
      BY Zenon, <1>4 DEF SetInfoReturns, TypeOK, NotifyWorkers, ConsumerPcs
    <2>2. ppc' \in [Producers -> ProducerPcs]
      BY Zenon, <1>4 DEF SetInfoReturns, TypeOK, Return, Goto, Producers, ProducerPcs, InDoRecord
    <2>3. work' \in [Producers -> Events]
      BY Zenon, <1>4, <1>n DEF SetInfoReturns, TypeOK, Return, Producers
    <2>4. tool' \in [Producers -> 1..(ToolNum + 1)]
      BY SMTT(30), <1>4 DEF SetInfoReturns, TypeOK, Return, FromTool, Producers
    <2>5. UNCHANGED <<pending, firstError_, queue, done_, finishProduce_, isKernelWithDBI_,
                    initDone_, errors, sanKernel, ctxKernel, args, kernel, seq, foreignSeq, closed,
                    faulty, ready, verdicts>>
      BY Zenon, <1>4 DEF SetInfoReturns, pipeline, queues, tooling, consumer, producer, client, history, outcome
    <2> QED
      BY Zenon, <2>1, <2>2, <2>3, <2>4, <2>5 DEF TypeOK
  <1>5. ASSUME NEW kind \in {"block", "finish"}, DoBatch(kind) PROVE TypeOK'
    <2>1. seq + 1 \in 0..MaxWork
      BY SMTT(30), <1>5 DEF DoBatch, Budget, TypeOK
    <2>2. Event(kind, kernel, seq + 1) \in Events
      BY ZenonT(30), <2>1, EventType DEF TypeOK, Kinds
    <2>3. kernel \in 1..MaxKernels
      BY <1>5 DEF DoBatch, TypeOK
    <2>4. pending' \in Seq(Events)
      BY <1>5, <2>2 DEF DoBatch, TypeOK, Submit
    <2>5. ppc' \in [Producers -> ProducerPcs]
      BY SMTT(30), <1>5 DEF DoBatch, TypeOK, Goto, Producers, ProducerPcs, InDoRecord
    <2>6. seq' \in 0..MaxWork
      BY Zenon, <1>5, <2>1 DEF DoBatch, TypeOK
    <2>7. closed' \in SUBSET (1..MaxKernels)
      BY Zenon, <1>5, <2>3 DEF DoBatch, TypeOK
    <2>8. UNCHANGED <<firstError_, queue, done_, finishProduce_, isKernelWithDBI_, initDone_,
                    errors, sanKernel, ctxKernel, cpc, args, work, tool, kernel, foreignSeq, faulty,
                    ready, verdicts>>
      BY Zenon, <1>5 DEF DoBatch, pipeline, queues, tooling, consumer, producer, client, history, outcome
    <2> QED
      BY Zenon, <2>4, <2>5, <2>6, <2>7, <2>8 DEF TypeOK
  <1>6. CASE DoBatchReturns
    <2>1. ppc' \in [Producers -> ProducerPcs]
      BY Zenon, <1>6 DEF DoBatchReturns, TypeOK, Goto, Producers, ProducerPcs, InDoRecord
    <2>2. UNCHANGED <<pending, firstError_, queue, done_, finishProduce_, isKernelWithDBI_,
                    initDone_, errors, sanKernel, ctxKernel, cpc, args, work, tool, kernel, seq,
                    foreignSeq, closed, faulty, ready, verdicts>>
      BY Zenon, <1>6 DEF DoBatchReturns, pipeline, queues, tooling, consumer, producer, client, history, outcome
    <2> QED
      BY Zenon, <2>1, <2>2 DEF TypeOK
  <1>7. CASE CaptureMemcheckCompletion
    <2>1. seq + 1 \in 0..MaxWork
      BY SMTT(30), <1>7 DEF CaptureMemcheckCompletion, Budget, TypeOK
    <2>2. Event("mark", 0, seq + 1) \in Events
      BY <2>1, EventType DEF Kinds
    <2>3. pending' \in Seq(Events)
      BY <1>7, <2>2 DEF CaptureMemcheckCompletion, TypeOK, Submit
    <2>4. seq' \in 0..MaxWork
      BY Zenon, <1>7, <2>1 DEF CaptureMemcheckCompletion, TypeOK
    <2>5. UNCHANGED <<firstError_, queue, done_, finishProduce_, isKernelWithDBI_, initDone_,
                    errors, sanKernel, ctxKernel, cpc, args, ppc, work, tool, kernel, foreignSeq,
                    closed, faulty, ready, verdicts>>
      BY Zenon, <1>7 DEF CaptureMemcheckCompletion, pipeline, queues, tooling, consumer, producer, client, history, outcome
    <2> QED
      BY Zenon, <2>3, <2>4, <2>5 DEF TypeOK
  <1>8. CASE CallFinish
    <2>1. ppc' \in [Producers -> ProducerPcs]
      BY Zenon, <1>8 DEF CallFinish, TypeOK, Goto, Producers, ProducerPcs, InDoRecord
    <2>2. UNCHANGED <<pending, firstError_, queue, done_, finishProduce_, isKernelWithDBI_,
                    initDone_, errors, sanKernel, ctxKernel, cpc, args, work, tool, kernel, seq,
                    foreignSeq, closed, faulty, ready, verdicts>>
      BY Zenon, <1>8 DEF CallFinish, pipeline, queues, tooling, consumer, producer, client, history, outcome
    <2> QED
      BY Zenon, <2>1, <2>2 DEF TypeOK
  <1>9. CASE FinishDrained
    <2>1. Event("stop", 0, 0) \in Events
      BY EventType DEF Kinds
    <2>2. \A t \in Tools : Append(queue[t], Event("stop", 0, 0)) \in Seq(Events)
      BY Zenon, <2>1, AppendFacts DEF TypeOK
    <2>3. queue' \in [Tools -> Seq(Events)]
      BY ZenonT(30), <1>9, <2>2 DEF FinishDrained, TypeOK
    <2>4. cpc' \in [Tools -> ConsumerPcs]
      BY SMTT(30), <1>9 DEF FinishDrained, TypeOK, NotifyWorkers, ConsumerPcs
    <2>5. ppc' \in [Producers -> ProducerPcs]
      BY SMTT(30), <1>9 DEF FinishDrained, TypeOK, Goto, Producers, ProducerPcs, InDoRecord
    <2>6. UNCHANGED <<pending, firstError_, done_, finishProduce_, isKernelWithDBI_, initDone_,
                    errors, sanKernel, ctxKernel, args, work, tool, kernel, seq, foreignSeq, closed,
                    faulty, ready, verdicts>>
      BY Zenon, <1>9 DEF FinishDrained, pipeline, queues, tooling, consumer, producer, client, history, outcome
    <2> QED
      BY Zenon, <2>3, <2>4, <2>5, <2>6 DEF TypeOK
  <1>10. CASE FinishJoined
    <2>1. ppc' \in [Producers -> ProducerPcs]
      BY Zenon, <1>10 DEF FinishJoined, TypeOK, Goto, Producers, ProducerPcs, InDoRecord
    <2>2. UNCHANGED <<pending, firstError_, queue, done_, finishProduce_, isKernelWithDBI_,
                    initDone_, errors, sanKernel, ctxKernel, cpc, args, work, tool, kernel, seq,
                    foreignSeq, closed, faulty, ready, verdicts>>
      BY Zenon, <1>10 DEF FinishJoined, pipeline, queues, tooling, consumer, producer, client, history, outcome
    <2> QED
      BY Zenon, <2>1, <2>2 DEF TypeOK
  <1>11. ASSUME NEW p \in {"client", "foreign"}, DoRecord(p) PROVE TypeOK'
    <2>1. (IF p = "client" THEN seq + 1 ELSE 0) \in 0..MaxWork
      BY SMTT(30), <1>11 DEF DoRecord, Budget, TypeOK
    <2>2. Event("record", 0, IF p = "client" THEN seq + 1 ELSE 0) \in Events
      BY <2>1, EventType DEF Kinds
    <2>3. ppc' \in [Producers -> ProducerPcs]
      BY Zenon, <1>11 DEF DoRecord, TypeOK, Goto, Producers, ProducerPcs, InDoRecord
    <2>4. work' \in [Producers -> Events]
      BY Zenon, <1>11, <2>2 DEF DoRecord, TypeOK, Producers
    <2>5. seq' \in 0..MaxWork
      BY SMTT(30), <1>11 DEF DoRecord, TypeOK, Budget
    <2>6. foreignSeq' \in 0..MaxForeign
      BY SMTT(30), <1>11 DEF DoRecord, TypeOK, Budget
    <2>7. UNCHANGED <<pending, firstError_, queue, done_, finishProduce_, isKernelWithDBI_,
                    initDone_, errors, sanKernel, ctxKernel, cpc, args, tool, kernel, closed,
                    faulty, ready, verdicts>>
      BY Zenon, <1>11 DEF DoRecord, pipeline, queues, tooling, consumer, producer, client, history, outcome
    <2> QED
      BY Zenon, <2>3, <2>4, <2>5, <2>6, <2>7 DEF TypeOK
  <1>12. ASSUME NEW p \in {"client", "foreign"}, RecordDrained(p) PROVE TypeOK'
    <2>1. ppc' \in [Producers -> ProducerPcs]
      BY SMTT(30), <1>12 DEF RecordDrained, TypeOK, Return, Goto, Producers, ProducerPcs,
         InDoRecord
    <2>2. work' \in [Producers -> Events]
      BY ZenonT(30), <1>12, <1>n DEF RecordDrained, TypeOK, Return, Producers
    <2>3. tool' \in [Producers -> 1..(ToolNum + 1)]
      BY SMTT(30), <1>12 DEF RecordDrained, TypeOK, Return, FromTool, Producers
    <2>4. UNCHANGED <<pending, firstError_, queue, done_, finishProduce_, isKernelWithDBI_,
                    initDone_, errors, sanKernel, ctxKernel, cpc, args, kernel, seq, foreignSeq,
                    closed, faulty, ready, verdicts>>
      BY Zenon, <1>12 DEF RecordDrained, pipeline, queues, tooling, consumer, producer, client, history, outcome
    <2> QED
      BY Zenon, <2>1, <2>2, <2>3, <2>4 DEF TypeOK
  <1>13. CASE CommitterFails
    <2>1. pending' \in Seq(Events)
      BY Zenon, <1>13, TailFacts DEF CommitterFails, TypeOK
    <2>2. firstError_' \in BOOLEAN
      BY Zenon, <1>13 DEF CommitterFails, TypeOK
    <2>3. UNCHANGED <<queue, done_, finishProduce_, isKernelWithDBI_, initDone_, errors, sanKernel,
                    ctxKernel, cpc, args, ppc, work, tool, kernel, seq, foreignSeq, closed, faulty,
                    ready, verdicts>>
      BY Zenon, <1>13 DEF CommitterFails, pipeline, queues, tooling, consumer, producer, client, history, outcome
    <2> QED
      BY Zenon, <2>1, <2>2, <2>3 DEF TypeOK
  <1>14. CASE DispatchMark
    <2>1. Head(pending) \in Events
      BY Zenon, <1>14, TailFacts DEF DispatchMark, TypeOK
    <2>2. pending' \in Seq(Events)
      BY Zenon, <1>14, TailFacts DEF DispatchMark, TypeOK
    <2>3. queue' \in [Tools -> Seq(Events)]
      BY Zenon, <1>14, <1>t, <2>1, PushType DEF DispatchMark, TypeOK
    <2>4. cpc' \in [Tools -> ConsumerPcs]
      BY Zenon, <1>14 DEF DispatchMark, TypeOK, NotifyWorkers, ConsumerPcs
    <2>5. UNCHANGED <<firstError_, done_, finishProduce_, isKernelWithDBI_, initDone_, errors,
                    sanKernel, ctxKernel, args, ppc, work, tool, kernel, seq, foreignSeq, closed,
                    faulty, ready, verdicts>>
      BY Zenon, <1>14 DEF DispatchMark, pipeline, queues, tooling, consumer, producer, client, history, outcome
    <2> QED
      BY Zenon, <2>2, <2>3, <2>4, <2>5 DEF TypeOK
  <1>15. CASE CommitterTakes
    <2>1. Head(pending) \in Events
      BY Zenon, <1>15, TailFacts DEF CommitterTakes, TypeOK
    <2>2. pending' \in Seq(Events)
      BY Zenon, <1>15, TailFacts DEF CommitterTakes, TypeOK
    <2>3. ppc' \in [Producers -> ProducerPcs]
      BY Zenon, <1>15 DEF CommitterTakes, TypeOK, Goto, Producers, ProducerPcs, InDoRecord
    <2>4. work' \in [Producers -> Events]
      BY Zenon, <1>15, <2>1 DEF CommitterTakes, TypeOK, Producers
    <2>5. UNCHANGED <<firstError_, queue, done_, finishProduce_, isKernelWithDBI_, initDone_,
                    errors, sanKernel, ctxKernel, cpc, args, tool, kernel, seq, foreignSeq, closed,
                    faulty, ready, verdicts>>
      BY Zenon, <1>15 DEF CommitterTakes, pipeline, queues, tooling, consumer, producer, client, history, outcome
    <2> QED
      BY Zenon, <2>2, <2>3, <2>4, <2>5 DEF TypeOK
  <1>16. ASSUME NEW p \in Producers, LowerFinishProduce(p) PROVE TypeOK'
    <2>1. finishProduce_' \in BOOLEAN
      BY Zenon, <1>16 DEF LowerFinishProduce, TypeOK
    <2>2. ppc' \in [Producers -> ProducerPcs]
      BY Zenon, <1>16 DEF LowerFinishProduce, TypeOK, Goto, ProducerPcs, InDoRecord
    <2>3. tool' \in [Producers -> 1..(ToolNum + 1)]
      BY <1>16 DEF LowerFinishProduce, TypeOK, FromTool
    <2>4. UNCHANGED <<pending, firstError_, queue, done_, isKernelWithDBI_, initDone_, errors,
                    sanKernel, ctxKernel, cpc, args, work, kernel, seq, foreignSeq, closed, faulty,
                    ready, verdicts>>
      BY Zenon, <1>16 DEF LowerFinishProduce, pipeline, queues, tooling, consumer, producer, client, history, outcome
    <2> QED
      BY Zenon, <2>1, <2>2, <2>3, <2>4 DEF TypeOK
  <1>17. ASSUME NEW p \in Producers, PushTool(p) PROVE TypeOK'
    <2>1. tool[p] \in Tools /\ work[p] \in Events /\ tool[p] + 1 \in 1..(ToolNum + 1)
      <3>1. tool[p] \in Tools /\ work[p] \in Events
        BY Zenon, <1>17 DEF PushTool, TypeOK
      <3> QED
        BY <3>1 DEF Tools
    <2>2. queue' \in [Tools -> Seq(Events)]
      BY Zenon, <1>17, <2>1, PushType DEF PushTool, TypeOK, queues
    <2>3. done_' \in [Tools -> BOOLEAN]
      BY Zenon, <1>17, <2>1 DEF PushTool, TypeOK, queues
    <2>4. tool' \in [Producers -> 1..(ToolNum + 1)]
      BY Zenon, <1>17, <2>1 DEF PushTool, TypeOK, FromTool
    <2>5. UNCHANGED <<pending, firstError_, finishProduce_, isKernelWithDBI_, initDone_, errors,
                    sanKernel, ctxKernel, cpc, args, ppc, work, kernel, seq, foreignSeq, closed,
                    faulty, ready, verdicts>>
      BY Zenon, <1>17 DEF PushTool, pipeline, queues, tooling, consumer, producer, client, history, outcome
    <2> QED
      BY Zenon, <2>2, <2>3, <2>4, <2>5 DEF TypeOK
  <1>18. ASSUME NEW p \in Producers, Pushed(p) PROVE TypeOK'
    <2>1. finishProduce_' \in BOOLEAN
      BY Zenon, <1>18 DEF Pushed, TypeOK
    <2>2. cpc' \in [Tools -> ConsumerPcs]
      BY Zenon, <1>18 DEF Pushed, TypeOK, NotifyWorkers, ConsumerPcs
    <2>3. ppc' \in [Producers -> ProducerPcs]
      BY ZenonT(60), <1>18 DEF Pushed, TypeOK, Return, Goto, ProducerPcs, InDoRecord
    <2>4. work' \in [Producers -> Events]
      BY Zenon, <1>18, <1>n DEF Pushed, TypeOK, Return
    <2>5. tool' \in [Producers -> 1..(ToolNum + 1)]
      BY SMTT(30), <1>18 DEF Pushed, TypeOK, Return, FromTool
    <2>6. UNCHANGED <<pending, firstError_, queue, done_, isKernelWithDBI_, initDone_, errors,
                    sanKernel, ctxKernel, args, kernel, seq, foreignSeq, closed, faulty, ready,
                    verdicts>>
      BY Zenon, <1>18 DEF Pushed, pipeline, queues, tooling, consumer, producer, client, history, outcome
    <2> QED
      BY Zenon, <2>1, <2>2, <2>3, <2>4, <2>5, <2>6 DEF TypeOK
  <1>19. ASSUME NEW p \in Producers, AwaitTool(p) PROVE TypeOK'
    <2>1. tool[p] + 1 \in 1..(ToolNum + 1)
      BY SMTT(30), <1>19 DEF AwaitTool, Tools
    <2>2. tool' \in [Producers -> 1..(ToolNum + 1)]
      BY Zenon, <1>19, <2>1 DEF AwaitTool, TypeOK, FromTool
    <2>3. UNCHANGED <<pending, firstError_, queue, done_, finishProduce_, isKernelWithDBI_,
                    initDone_, errors, sanKernel, ctxKernel, cpc, args, ppc, work, kernel, seq,
                    foreignSeq, closed, faulty, ready, verdicts>>
      BY ZenonT(60), <1>19 DEF AwaitTool, pipeline, queues, tooling, consumer, producer, client, history, outcome
    <2> QED
      BY Zenon, <2>2, <2>3 DEF TypeOK
  <1>20. ASSUME NEW p \in Producers, DisplaySanitizerEnd(p) PROVE TypeOK'
    <2>1. work[p].kernel \in 0..MaxKernels
      BY Zenon, EventFields DEF TypeOK
    <2>2. [kernel |-> work[p].kernel, errors |-> \E t \in Tools : errors[t]]
             \in [kernel : 0..MaxKernels, errors : BOOLEAN]
      BY Zenon, <2>1
    <2>3. errors' \in [Tools -> BOOLEAN]
      BY Zenon, <1>20 DEF DisplaySanitizerEnd, TypeOK
    <2>4. ppc' \in [Producers -> ProducerPcs]
      BY Zenon, <1>20 DEF DisplaySanitizerEnd, TypeOK, Return, Goto, ProducerPcs, InDoRecord
    <2>5. work' \in [Producers -> Events]
      BY Zenon, <1>20, <1>n DEF DisplaySanitizerEnd, TypeOK, Return
    <2>6. tool' \in [Producers -> 1..(ToolNum + 1)]
      BY SMTT(30), <1>20 DEF DisplaySanitizerEnd, TypeOK, Return, FromTool
    <2>7. verdicts' \in Seq([kernel : 0..MaxKernels, errors : BOOLEAN])
      BY <1>20, <2>2 DEF DisplaySanitizerEnd, TypeOK
    <2>8. UNCHANGED <<pending, firstError_, queue, done_, finishProduce_, isKernelWithDBI_,
                    initDone_, sanKernel, ctxKernel, cpc, args, kernel, seq, foreignSeq, closed,
                    faulty, ready>>
      BY Zenon, <1>20 DEF DisplaySanitizerEnd, pipeline, queues, tooling, consumer, producer, client, history, outcome
    <2> QED
      BY ZenonT(60), <2>3, <2>4, <2>5, <2>6, <2>7, <2>8 DEF TypeOK
  <1>21. ASSUME NEW t \in Tools, TakeUnlocked(t) PROVE TypeOK'
    <2>1. Head(queue[t]) \in Events /\ Tail(queue[t]) \in Seq(Events)
      BY Zenon, <1>21, TailFacts DEF TakeUnlocked, Take, TypeOK
    <2>2. queue' \in [Tools -> Seq(Events)]
      BY Zenon, <1>21, <2>1 DEF TakeUnlocked, TypeOK, Take
    <2>3. cpc' \in [Tools -> ConsumerPcs]
      BY Zenon, <1>21 DEF TakeUnlocked, TypeOK, Take, ConsumerPcs
    <2>4. args' \in [Tools -> Events]
      BY Zenon, <1>21, <2>1 DEF TakeUnlocked, TypeOK, Take
    <2>5. UNCHANGED <<pending, firstError_, done_, finishProduce_, isKernelWithDBI_, initDone_,
                    errors, sanKernel, ctxKernel, ppc, work, tool, kernel, seq, foreignSeq, closed,
                    faulty, ready, verdicts>>
      BY Zenon, <1>21 DEF TakeUnlocked, pipeline, queues, tooling, consumer, producer, client, history, outcome
    <2> QED
      BY Zenon, <2>2, <2>3, <2>4, <2>5 DEF TypeOK
  <1>22. ASSUME NEW t \in Tools, TakeLocked(t) PROVE TypeOK'
    <2>1. Head(queue[t]) \in Events /\ Tail(queue[t]) \in Seq(Events)
      BY Zenon, <1>22, TailFacts DEF TakeLocked, Take, TypeOK
    <2>2. queue' \in [Tools -> Seq(Events)]
      BY Zenon, <1>22, <2>1 DEF TakeLocked, TypeOK, Take
    <2>3. cpc' \in [Tools -> ConsumerPcs]
      BY Zenon, <1>22 DEF TakeLocked, TypeOK, Take, ConsumerPcs
    <2>4. args' \in [Tools -> Events]
      BY Zenon, <1>22, <2>1 DEF TakeLocked, TypeOK, Take
    <2>5. UNCHANGED <<pending, firstError_, done_, finishProduce_, isKernelWithDBI_, initDone_,
                    errors, sanKernel, ctxKernel, ppc, work, tool, kernel, seq, foreignSeq, closed,
                    faulty, ready, verdicts>>
      BY Zenon, <1>22 DEF TakeLocked, pipeline, queues, tooling, consumer, producer, client, history, outcome
    <2> QED
      BY Zenon, <2>2, <2>3, <2>4, <2>5 DEF TypeOK
  <1>23. ASSUME NEW t \in Tools, GoForLock(t) PROVE TypeOK'
    <2>1. cpc' \in [Tools -> ConsumerPcs]
      BY Zenon, <1>23 DEF GoForLock, TypeOK, ConsumerPcs
    <2>2. UNCHANGED <<pending, firstError_, queue, done_, finishProduce_, isKernelWithDBI_,
                    initDone_, errors, sanKernel, ctxKernel, args, ppc, work, tool, kernel, seq,
                    foreignSeq, closed, faulty, ready, verdicts>>
      BY Zenon, <1>23 DEF GoForLock, pipeline, queues, tooling, consumer, producer, client, history, outcome
    <2> QED
      BY Zenon, <2>1, <2>2 DEF TypeOK
  <1>24. ASSUME NEW t \in Tools, Sleep(t) PROVE TypeOK'
    <2>1. cpc' \in [Tools -> ConsumerPcs]
      BY Zenon, <1>24 DEF Sleep, TypeOK, ConsumerPcs
    <2>2. UNCHANGED <<pending, firstError_, queue, done_, finishProduce_, isKernelWithDBI_,
                    initDone_, errors, sanKernel, ctxKernel, args, ppc, work, tool, kernel, seq,
                    foreignSeq, closed, faulty, ready, verdicts>>
      BY Zenon, <1>24 DEF Sleep, pipeline, queues, tooling, consumer, producer, client, history, outcome
    <2> QED
      BY Zenon, <2>1, <2>2 DEF TypeOK
  <1>25. ASSUME NEW t \in Tools, SpuriousWake(t) PROVE TypeOK'
    <2>1. cpc' \in [Tools -> ConsumerPcs]
      BY Zenon, <1>25 DEF SpuriousWake, TypeOK, ConsumerPcs
    <2>2. UNCHANGED <<pending, firstError_, queue, done_, finishProduce_, isKernelWithDBI_,
                    initDone_, errors, sanKernel, ctxKernel, args, ppc, work, tool, kernel, seq,
                    foreignSeq, closed, faulty, ready, verdicts>>
      BY Zenon, <1>25 DEF SpuriousWake, pipeline, queues, tooling, consumer, producer, client, history, outcome
    <2> QED
      BY Zenon, <2>1, <2>2 DEF TypeOK
  <1>26. ASSUME NEW t \in Tools, HandleContext(t) PROVE TypeOK'
    <2>1. args[t].kernel \in 0..MaxKernels /\ args[t].seq \in 0..MaxWork
      BY Zenon, EventFields DEF TypeOK
    <2>2. ctxKernel' \in [Tools -> 0..MaxKernels]
      BY Zenon, <1>26, <2>1 DEF HandleContext, TypeOK
    <2>3. cpc' \in [Tools -> ConsumerPcs]
      BY Zenon, <1>26 DEF HandleContext, TypeOK, Again, ConsumerPcs
    <2>4. args' \in [Tools -> Events]
      BY Zenon, <1>26, <1>n DEF HandleContext, TypeOK, Again
    <2>5. ready' \in SUBSET (0..MaxWork)
      BY Zenon, <1>26, <2>1 DEF HandleContext, TypeOK
    <2>6. UNCHANGED <<pending, firstError_, queue, done_, finishProduce_, isKernelWithDBI_,
                    initDone_, errors, sanKernel, ppc, work, tool, kernel, seq, foreignSeq, closed,
                    faulty, verdicts>>
      BY Zenon, <1>26 DEF HandleContext, pipeline, queues, tooling, consumer, producer, client, history, outcome
    <2> QED
      BY ZenonT(60), <2>2, <2>3, <2>4, <2>5, <2>6 DEF TypeOK
  <1>27. ASSUME NEW t \in Tools, Consume(t) PROVE TypeOK'
    <2>1. args[t].kernel \in 0..MaxKernels
      BY Zenon, EventFields DEF TypeOK
    <2>2. errors' \in [Tools -> BOOLEAN]
      BY Zenon, <1>27 DEF Consume, TypeOK
    <2>3. cpc' \in [Tools -> ConsumerPcs]
      BY Zenon, <1>27 DEF Consume, TypeOK, ConsumerPcs
    <2>4. faulty' \in SUBSET (0..MaxKernels)
      BY Zenon, <1>27, <2>1 DEF Consume, TypeOK
    <2>5. UNCHANGED <<pending, firstError_, queue, done_, finishProduce_, isKernelWithDBI_,
                    initDone_, sanKernel, ctxKernel, args, ppc, work, tool, kernel, seq, foreignSeq,
                    closed, ready, verdicts>>
      BY Zenon, <1>27 DEF Consume, pipeline, queues, tooling, consumer, producer, client, history, outcome
    <2> QED
      BY Zenon, <2>2, <2>3, <2>4, <2>5 DEF TypeOK
  <1>28. ASSUME NEW t \in Tools, CheckFinishProduce(t) PROVE TypeOK'
    <2>1. cpc' \in [Tools -> ConsumerPcs]
      BY Zenon, <1>28 DEF CheckFinishProduce, TypeOK, Again, ConsumerPcs
    <2>2. args' \in [Tools -> Events]
      BY ZenonT(30), <1>28, <1>n DEF CheckFinishProduce, TypeOK, Again
    <2>3. UNCHANGED <<pending, firstError_, queue, done_, finishProduce_, isKernelWithDBI_,
                    initDone_, errors, sanKernel, ctxKernel, ppc, work, tool, kernel, seq,
                    foreignSeq, closed, faulty, ready, verdicts>>
      BY Zenon, <1>28 DEF CheckFinishProduce, pipeline, queues, tooling, consumer, producer, client, history, outcome
    <2> QED
      BY Zenon, <2>1, <2>2, <2>3 DEF TypeOK
  <1>29. ASSUME NEW t \in Tools, WaitAfterConsumed(t) PROVE TypeOK'
    <2>1. done_' \in [Tools -> BOOLEAN]
      BY Zenon, <1>29 DEF WaitAfterConsumed, TypeOK
    <2>2. cpc' \in [Tools -> ConsumerPcs]
      BY Zenon, <1>29 DEF WaitAfterConsumed, TypeOK, Again, ConsumerPcs
    <2>3. args' \in [Tools -> Events]
      BY Zenon, <1>29, <1>n DEF WaitAfterConsumed, TypeOK, Again
    <2>4. UNCHANGED <<pending, firstError_, queue, finishProduce_, isKernelWithDBI_, initDone_,
                    errors, sanKernel, ctxKernel, ppc, work, tool, kernel, seq, foreignSeq, closed,
                    faulty, ready, verdicts>>
      BY Zenon, <1>29 DEF WaitAfterConsumed, pipeline, queues, tooling, consumer, producer, client, history, outcome
    <2> QED
      BY ZenonT(60), <2>1, <2>2, <2>3, <2>4 DEF TypeOK
  <1>30. ASSUME NEW t \in Tools, Stop(t) PROVE TypeOK'
    <2>1. <<>> \in Seq(Events)
      OBVIOUS
    <2>2. queue' \in [Tools -> Seq(Events)]
      BY Zenon, <1>30, <2>1 DEF Stop, TypeOK
    <2>3. cpc' \in [Tools -> ConsumerPcs]
      BY Zenon, <1>30 DEF Stop, TypeOK, ConsumerPcs
    <2>4. UNCHANGED <<pending, firstError_, done_, finishProduce_, isKernelWithDBI_, initDone_,
                    errors, sanKernel, ctxKernel, args, ppc, work, tool, kernel, seq, foreignSeq,
                    closed, faulty, ready, verdicts>>
      BY Zenon, <1>30 DEF Stop, pipeline, queues, tooling, consumer, producer, client, history, outcome
    <2> QED
      BY ZenonT(60), <2>2, <2>3, <2>4 DEF TypeOK
  <1>31. CASE UNCHANGED vars
    BY Zenon, <1>31 DEF TypeOK, vars, pipeline, queues, tooling, consumer, producer, client, history, outcome
  <1> QED
    BY ZenonT(30), <1>1, <1>2, <1>3, <1>4, <1>5, <1>6, <1>7, <1>8, <1>9, <1>10, <1>11, <1>12,
       <1>13, <1>14,
       <1>15, <1>16, <1>17, <1>18, <1>19, <1>20, <1>21, <1>22, <1>23, <1>24, <1>25, <1>26, <1>27,
       <1>28, <1>29, <1>30, <1>31
       DEF Next, ClientStep, ProducerStep, CommitterStep, ConsumerStep, Ended, Producers

----------------------------------------------------------------------------
(* The producers.                                                          *)

(* A consumer thread leaves the producers alone. *)
ConsumerActs == \E t \in Tools : ConsumerStep(t) \/ SpuriousWake(t)

(* A consumer changes neither the producers nor the pipeline.              *)
LEMMA ConsumerFrame ==
  ASSUME ConsumerActs
  PROVE  UNCHANGED <<pending, firstError_, finishProduce_, isKernelWithDBI_, initDone_, sanKernel, ppc,
                     work, tool, kernel, seq, foreignSeq, closed, verdicts>>
  <1>1. PICK t \in Tools : ConsumerStep(t) \/ SpuriousWake(t)
    BY Zenon DEF ConsumerActs
  <1>2. CASE TakeUnlocked(t) \/ TakeLocked(t) \/ GoForLock(t) \/ Sleep(t) \/ SpuriousWake(t)
    BY Zenon, <1>2 DEF TakeUnlocked, TakeLocked, GoForLock, Sleep, SpuriousWake, pipeline, tooling, producer,
                client, outcome
  <1>3. CASE HandleContext(t) \/ Consume(t)
    BY ZenonT(60), <1>3 DEF HandleContext, Consume, pipeline, tooling, producer, client, outcome
  <1>4. CASE CheckFinishProduce(t) \/ WaitAfterConsumed(t) \/ Stop(t)
    BY Zenon, <1>4 DEF CheckFinishProduce, WaitAfterConsumed, Stop, pipeline, tooling, producer, client, outcome
  <1> QED
    BY Zenon, <1>1, <1>2, <1>3, <1>4 DEF ConsumerStep

(* The steps of Next, for the proofs below. *)
LEMMA Steps ==
  ASSUME [Next]_vars
  PROVE  \/ CallSetInfo \/ SetInfoDrained \/ SetInfoTool \/ SetInfoReturns
         \/ \E kind \in {"block", "finish"} : DoBatch(kind)
         \/ DoBatchReturns \/ CaptureMemcheckCompletion \/ CallFinish \/ FinishDrained \/ FinishJoined
         \/ \E p \in {"client", "foreign"} : DoRecord(p) \/ RecordDrained(p)
         \/ CommitterFails \/ DispatchMark \/ CommitterTakes
         \/ \E p \in Producers : \/ LowerFinishProduce(p) \/ PushTool(p) \/ Pushed(p)
                                 \/ AwaitTool(p) \/ DisplaySanitizerEnd(p)
         \/ ConsumerActs
         \/ UNCHANGED vars
  BY Zenon DEF Next, ClientStep, ProducerStep, CommitterStep, ConsumerActs, Ended, Producers

(* Every step keeps the rules on which calls are in progress.              *)
LEMMA CallStep ==
  ASSUME IndInv, [Next]_vars
  PROVE  CallInv'
  <1> USE DEF IndInv
  <1>t. /\ ppc \in [Producers -> ProducerPcs] /\ work \in [Producers -> Events]
        /\ kernel \in Nat /\ seq \in Nat
    BY SMTT(30), CheckerAssumption DEF TypeOK
  <1>1. CASE CallSetInfo
    BY SMTT(30), <1>1, <1>t DEF CallSetInfo, CallInv, Goto, Producers, Finishing, InDoRecord,
       ClientPcs, ClientQuiet
  <1>2. CASE SetInfoDrained
    BY SMTT(30), <1>2, <1>t DEF SetInfoDrained, CallInv, Goto, Producers, Finishing,
       InDoRecord, ClientPcs, ClientQuiet, client
  <1>3. CASE SetInfoTool
    BY Zenon, <1>3 DEF SetInfoTool, CallInv, Finishing, client
  <1>4. CASE SetInfoReturns
    BY Zenon, <1>4, <1>t DEF SetInfoReturns, Return, CallInv, Goto, Producers, Finishing, InDoRecord, ClientPcs, ClientQuiet, client
  <1>5. ASSUME NEW kind \in {"block", "finish"}, DoBatch(kind) PROVE CallInv'
    <2>1. CASE kind = "finish"
      <3>1. /\ ppc' = [ppc EXCEPT !["client"] = "finish_drain"] /\ closed' = closed \cup {kernel}
            /\ ppc["client"] = "idle" /\ kernel > 0 /\ kernel' = kernel /\ work' = work
        BY Zenon, <1>5, <2>1 DEF DoBatch, Goto
      <3> QED
        BY <3>1, <1>t DEF CallInv, Producers, Finishing, InDoRecord, ClientPcs
    <2>2. CASE kind # "finish"
      BY ZenonT(60), <1>5, <2>2 DEF DoBatch, CallInv, Finishing, InDoRecord
    <2> QED
      BY Zenon, <2>1, <2>2
  <1>6. CASE DoBatchReturns
    BY Zenon, <1>6, <1>t DEF DoBatchReturns, CallInv, Goto, Producers, Finishing, InDoRecord, ClientPcs, ClientQuiet, client
  <1>7. CASE CaptureMemcheckCompletion
    BY Zenon, <1>7, <1>t DEF CaptureMemcheckCompletion, CallInv, Finishing, InDoRecord, producer
  <1>8. CASE CallFinish
    BY Zenon, <1>8, <1>t DEF CallFinish, CallInv, Goto, Producers, Finishing, InDoRecord, ClientPcs, ClientQuiet, client
  <1>9. CASE FinishDrained
    BY ZenonT(30), <1>9, <1>t DEF FinishDrained, CallInv, Goto, Producers, Finishing,
       InDoRecord, ClientPcs, ClientQuiet, client
  <1>10. CASE FinishJoined
    BY Zenon, <1>10, <1>t DEF FinishJoined, CallInv, Goto, Producers, Finishing, InDoRecord, ClientPcs, ClientQuiet, client
  <1>11. ASSUME NEW p \in {"client", "foreign"}, DoRecord(p) PROVE CallInv'
    BY Zenon, <1>11, <1>t DEF DoRecord, CallInv, Goto, Producers, Finishing, InDoRecord, ClientPcs, ClientQuiet
  <1>12. ASSUME NEW p \in {"client", "foreign"}, RecordDrained(p) PROVE CallInv'
    BY SMTT(30), <1>12, <1>t DEF RecordDrained, Return, CallInv, Goto, Producers, Finishing,
       InDoRecord, ClientPcs, ClientQuiet, client
  <1>13. CASE CommitterFails \/ DispatchMark
    BY Zenon, <1>13 DEF CommitterFails, DispatchMark, CallInv, Finishing, producer, client
  <1>14. CASE CommitterTakes
    BY Zenon, <1>14, <1>t DEF CommitterTakes, CallInv, Goto, Producers, Finishing, client
  <1>15. ASSUME NEW p \in Producers, LowerFinishProduce(p) PROVE CallInv'
    BY ZenonT(30), <1>15, <1>t DEF LowerFinishProduce, CallInv, Goto, Producers, Finishing,
       InDoRecord, ClientPcs, ClientQuiet, client
  <1>16. ASSUME NEW p \in Producers, PushTool(p) \/ AwaitTool(p) PROVE CallInv'
    BY ZenonT(60), <1>16 DEF PushTool, AwaitTool, CallInv, Finishing, client
  <1>17. ASSUME NEW p \in Producers, Pushed(p) PROVE CallInv'
    <2>1. p # "committer" => work[p].kind # "finish"
      BY <1>17, CheckerAssumption DEF Pushed, CallInv, InDoRecord, Event, Producers
    <2> QED
      BY SMTT(30), <1>17, <1>t, <2>1 DEF Pushed, Return, CallInv, Goto, Producers, Finishing,
         InDoRecord, ClientPcs, ClientQuiet, client
  <1>18. ASSUME NEW p \in Producers, DisplaySanitizerEnd(p) PROVE CallInv'
    BY Zenon, <1>18, <1>t DEF DisplaySanitizerEnd, Return, CallInv, Goto, Producers, Finishing, InDoRecord, ClientPcs, ClientQuiet, client
  <1>19. CASE ConsumerActs
    BY ZenonT(60), <1>19, ConsumerFrame DEF CallInv, Finishing
  <1>20. CASE UNCHANGED vars
    BY Zenon, <1>20 DEF CallInv, Finishing, vars, producer, client
  <1> QED
    BY SMTT(30), <1>1, <1>2, <1>3, <1>4, <1>5, <1>6, <1>7, <1>8, <1>9, <1>10, <1>11, <1>12,
       <1>13, <1>14, <1>15,
       <1>16, <1>17, <1>18, <1>19, <1>20, Steps

----------------------------------------------------------------------------
(* The pipeline.                                                           *)

(* Nothing is in an empty pipeline.                                        *)
LEMMA PendingEmpty ==
  ASSUME pending' = <<>>, ppc'["committer"] = "idle"
  PROVE  PendingInv' /\ Upstream' = {}
  BY DEF PendingInv, Upstream

(* A step of the client that leaves the pipeline alone. *)
LEMMA PendingFrame ==
  ASSUME IndInv, UNCHANGED <<pending, seq>>, (ppc'["committer"] = "idle") = (ppc["committer"] = "idle"),
         (ppc'["committer"] = "await") => work["committer"].kind = "finish",
         ppc["committer"] # "idle" => work'["committer"] = work["committer"],
         Running' = Running,
         ppc["client"] = "finish_drain" => ppc'["client"] = "finish_drain",
         ppc'["client"] \in InDoRecord => ppc["client"] \in InDoRecord,
         ppc'["client"] \in ClientQuiet => ppc["client"] \in ClientQuiet
  PROVE  PendingInv' /\ Upstream' = Upstream
  <1>1. Upstream' = Upstream
    BY Zenon DEF Upstream
  <1>2. PendingInv
    BY Zenon DEF IndInv
  <1>3. ppc["client"] \in ClientQuiet => pending = <<>> /\ ppc["committer"] = "idle"
    BY Zenon, <1>2 DEF PendingInv
  <1>4. \A e \in Upstream : /\ IsBatch(e) => e.kernel = Running
                            /\ e.kind = "finish" => ppc["client"] = "finish_drain"
                            /\ ppc["client"] \in InDoRecord => e.seq < seq
    BY Zenon, <1>2 DEF PendingInv
  <1>5. \A e \in Upstream' : /\ IsBatch(e) => e.kernel = Running'
                             /\ e.kind = "finish" => ppc'["client"] = "finish_drain"
                             /\ ppc'["client"] \in InDoRecord => e.seq < seq'
    BY Zenon, <1>1, <1>4
  <1> QED
    BY Zenon, <1>1, <1>2, <1>3, <1>5 DEF PendingInv

(* Submit: the new batch is the last, the rest stays as it was.            *)
LEMMA PendingAppend ==
  ASSUME IndInv, NEW e \in Events, pending' = Append(pending, e), e.seq = seq + 1, seq' = seq + 1,
         e.kind \in {"block", "finish", "mark"}, IsBatch(e) => e.kernel = Running,
         ppc["client"] = "idle", ppc'["client"] = IF e.kind = "finish" THEN "finish_drain" ELSE "idle",
         ppc'["committer"] = ppc["committer"], work' = work, kernel' = kernel
  PROVE  PendingInv' /\ Upstream' = Upstream \cup {e}
  <1>1. pending \in Seq(Events) /\ seq \in Nat /\ Len(pending) \in Nat /\ DOMAIN pending = 1..Len(pending)
    BY SMTT(30), CheckerAssumption DEF IndInv, TypeOK
  <1>2. /\ DOMAIN pending' = 1..(Len(pending) + 1) /\ Len(pending') = Len(pending) + 1
        /\ \A i \in 1..Len(pending) : pending'[i] = pending[i]
        /\ pending'[Len(pending) + 1] = e
    BY SMTT(30), <1>1, AppendFacts
  <1>3. PendingInv
    BY Zenon DEF IndInv
  <1>4. Upstream' = Upstream \cup {e}
    <2>1. {pending'[i] : i \in DOMAIN pending'} = {pending[i] : i \in DOMAIN pending} \cup {e}
      BY <1>1, <1>2
    <2> QED
      BY Zenon, <2>1 DEF Upstream
  <1>5. Running' = Running
    BY Zenon DEF Running
  <1>6. \A x \in Upstream : x.kind # "finish" /\ (IsBatch(x) => x.kernel = Running)
    BY Zenon, <1>3 DEF PendingInv
  <1>7. \A i \in DOMAIN pending : pending[i].kind # "finish"
    BY Zenon, <1>6 DEF Upstream
  <1>8. ppc["committer"] # "idle" => work["committer"].kind # "finish"
    BY Zenon, <1>6 DEF Upstream
  <1>9. \A i \in DOMAIN pending' : /\ pending'[i].kind \in {"block", "finish", "mark"}
                                   /\ pending'[i].kind = "finish" => i = Len(pending')
                                   /\ pending'[i].seq \in 1..seq'
    <2> SUFFICES ASSUME NEW i \in DOMAIN pending'
                 PROVE  /\ pending'[i].kind \in {"block", "finish", "mark"}
                        /\ pending'[i].kind = "finish" => i = Len(pending')
                        /\ pending'[i].seq \in 1..seq'
      BY Zenon
    <2>1. CASE i = Len(pending) + 1
      BY SMTT(30), <2>1, <1>1, <1>2
    <2>2. CASE i # Len(pending) + 1
      <3>1. i \in DOMAIN pending /\ pending'[i] = pending[i]
        BY SMTT(30), <2>2, <1>1, <1>2
      <3>2. pending[i].kind \in {"block", "finish", "mark"} /\ pending[i].seq \in 1..seq
        BY Zenon, <3>1, <1>3 DEF PendingInv
      <3> QED
        BY SMTT(30), <3>1, <3>2, <1>1, <1>7
    <2> QED
      BY Zenon, <2>1, <2>2
  <1>10. \A i, j \in DOMAIN pending' : i < j => pending'[i].seq < pending'[j].seq
    <2> SUFFICES ASSUME NEW i \in DOMAIN pending', NEW j \in DOMAIN pending', i < j
                 PROVE  pending'[i].seq < pending'[j].seq
      BY Zenon
    <2>1. i \in DOMAIN pending /\ pending'[i] = pending[i] /\ pending[i].seq \in 1..seq
      BY SMTT(30), <1>1, <1>2, <1>3 DEF PendingInv
    <2>2. CASE j = Len(pending) + 1
      BY SMTT(30), <2>1, <2>2, <1>1, <1>2
    <2>3. CASE j # Len(pending) + 1
      <3>1. j \in DOMAIN pending /\ pending'[j] = pending[j]
        BY SMTT(30), <2>3, <1>1, <1>2
      <3> QED
        BY ZenonT(60), <2>1, <3>1, <1>3 DEF PendingInv
    <2> QED
      BY Zenon, <2>2, <2>3
  <1>11. ppc["committer"] # "idle" =>
           /\ IsBatch(work["committer"]) /\ work["committer"].seq \in 1..seq'
           /\ \A i \in DOMAIN pending' : work["committer"].seq < pending'[i].seq
    <2> SUFFICES ASSUME ppc["committer"] # "idle"
                 PROVE  /\ IsBatch(work["committer"]) /\ work["committer"].seq \in 1..seq'
                        /\ \A i \in DOMAIN pending' : work["committer"].seq < pending'[i].seq
      BY Zenon
    <2>1. /\ IsBatch(work["committer"]) /\ work["committer"].seq \in 1..seq
          /\ \A i \in DOMAIN pending : work["committer"].seq < pending[i].seq
      BY Zenon, <1>3 DEF PendingInv
    <2>2. ASSUME NEW i \in DOMAIN pending' PROVE work["committer"].seq < pending'[i].seq
      <3>1. CASE i = Len(pending) + 1
        BY SMTT(30), <3>1, <2>1, <1>1, <1>2
      <3>2. CASE i # Len(pending) + 1
        BY SMTT(30), <3>2, <2>1, <1>1, <1>2
      <3> QED
        BY Zenon, <3>1, <3>2
    <2> QED
      BY SMTT(30), <2>1, <2>2, <1>1
  <1>12. ppc'["committer"] = "await" => work'["committer"].kind = "finish"
    BY Zenon, <1>3 DEF PendingInv
  <1>13. \A x \in Upstream' : /\ IsBatch(x) => x.kernel = Running'
                              /\ x.kind = "finish" => ppc'["client"] = "finish_drain"
    BY Zenon, <1>4, <1>5, <1>6
  <1>14. ppc'["client"] \notin InDoRecord /\ ppc'["client"] \notin ClientQuiet
    BY Zenon DEF InDoRecord, ClientQuiet
  <1> QED
    BY Zenon, <1>4, <1>8, <1>9, <1>10, <1>11, <1>12, <1>13, <1>14 DEF PendingInv

(* The committer drops or takes the first batch, or hands a mark over. *)
LEMMA PendingTail ==
  ASSUME IndInv, pending # <<>>, pending' = Tail(pending), ppc["committer"] = "idle",
         \/ ppc'["committer"] = "idle"
         \/ /\ ppc'["committer"] = "lower" /\ work'["committer"] = Head(pending)
            /\ Head(pending).kind # "mark",
         UNCHANGED <<seq, kernel>>, ppc'["client"] = ppc["client"]
  PROVE  PendingInv' /\ Upstream' \subseteq Upstream /\ Head(pending) \in Upstream
  <1>1. /\ pending \in Seq(Events) /\ seq \in Nat
        /\ Head(pending) = pending[1] /\ 1 \in DOMAIN pending
        /\ Len(pending') = Len(pending) - 1 /\ DOMAIN pending' = 1..(Len(pending) - 1)
        /\ \A i \in 1..(Len(pending) - 1) : pending'[i] = pending[i + 1]
        /\ Len(pending) \in Nat \ {0} /\ DOMAIN pending = 1..Len(pending)
    BY TailFacts, CheckerAssumption DEF IndInv, TypeOK
  <1>2. PendingInv
    BY Zenon DEF IndInv
  <1>3. \A i \in DOMAIN pending' : i + 1 \in DOMAIN pending /\ pending'[i] = pending[i + 1]
    BY SMTT(30), <1>1
  <1>4. Upstream' \subseteq Upstream /\ Head(pending) \in Upstream
    BY SMTT(30), <1>1, <1>3 DEF Upstream
  <1>5. \A i \in DOMAIN pending' : /\ pending'[i].kind \in {"block", "finish", "mark"}
                                   /\ pending'[i].kind = "finish" => i = Len(pending')
                                   /\ pending'[i].seq \in 1..seq'
    <2> SUFFICES ASSUME NEW i \in DOMAIN pending'
                 PROVE  /\ pending'[i].kind \in {"block", "finish", "mark"}
                        /\ pending'[i].kind = "finish" => i = Len(pending')
                        /\ pending'[i].seq \in 1..seq'
      BY Zenon
    <2>1. /\ pending[i + 1].kind \in {"block", "finish", "mark"}
          /\ pending[i + 1].kind = "finish" => i + 1 = Len(pending)
          /\ pending[i + 1].seq \in 1..seq
      BY Zenon, <1>2, <1>3 DEF PendingInv
    <2> QED
      BY SMTT(30), <2>1, <1>1, <1>3
  <1>6. \A i, j \in DOMAIN pending' : i < j => pending'[i].seq < pending'[j].seq
    <2> SUFFICES ASSUME NEW i \in DOMAIN pending', NEW j \in DOMAIN pending', i < j
                 PROVE  pending'[i].seq < pending'[j].seq
      BY Zenon
    <2>1. i + 1 \in DOMAIN pending /\ j + 1 \in DOMAIN pending /\ i + 1 < j + 1
      BY SMTT(30), <1>1, <1>3
    <2> QED
      BY Zenon, <2>1, <1>2, <1>3 DEF PendingInv
  <1>7. ASSUME ppc'["committer"] # "idle"
        PROVE  /\ IsBatch(work'["committer"]) /\ work'["committer"].seq \in 1..seq'
               /\ work'["committer"].kind = "finish" => pending' = <<>>
               /\ \A i \in DOMAIN pending' : work'["committer"].seq < pending'[i].seq
               /\ ppc'["committer"] # "await"
    <2>1. /\ work'["committer"] = pending[1] /\ pending[1].kind # "mark" /\ ppc'["committer"] = "lower"
      BY Zenon, <1>1, <1>7
    <2>2. /\ pending[1].kind \in {"block", "finish", "mark"} /\ pending[1].seq \in 1..seq
          /\ pending[1].kind = "finish" => 1 = Len(pending)
      BY Zenon, <1>1, <1>2 DEF PendingInv
    <2>3. ASSUME NEW i \in DOMAIN pending' PROVE pending[1].seq < pending'[i].seq
      <3>1. 1 < i + 1 /\ i + 1 \in DOMAIN pending
        BY <1>1
      <3> QED
        BY Zenon, <3>1, <1>1, <1>2, <1>3 DEF PendingInv
    <2>4. pending[1].kind = "finish" => pending' = <<>>
      BY SMTT(30), <2>2, <1>1
    <2> QED
      BY Zenon, <2>1, <2>2, <2>3, <2>4 DEF IsBatch
  <1>8. Running' = Running
    BY Zenon DEF Running
  <1>9. \A e \in Upstream' : /\ IsBatch(e) => e.kernel = Running'
                             /\ e.kind = "finish" => ppc'["client"] = "finish_drain"
                             /\ ppc'["client"] \in InDoRecord => e.seq < seq'
    <2>1. \A e \in Upstream : /\ IsBatch(e) => e.kernel = Running
                              /\ e.kind = "finish" => ppc["client"] = "finish_drain"
                              /\ ppc["client"] \in InDoRecord => e.seq < seq
      BY Zenon, <1>2 DEF PendingInv
    <2> QED
      BY Zenon, <2>1, <1>4, <1>8
  <1>10. ppc'["client"] \notin ClientQuiet
    BY Zenon, <1>2 DEF PendingInv
  <1> QED
    BY Zenon, <1>4, <1>5, <1>6, <1>7, <1>9, <1>10 DEF PendingInv

(* What the pipeline holds after a step was there before or is new. *)
UpstreamGrows ==
    \A e \in Upstream' : \/ e \in Upstream
                         \/ /\ seq' = seq + 1 /\ e.seq = seq + 1 /\ ppc["client"] = "idle"
                            /\ IsBatch(e) => e.kernel = kernel /\ kernel \notin closed /\ kernel > 0

(* A step that adds nothing to the pipeline keeps FinishInv.               *)
LEMMA FinishFrame ==
  ASSUME IndInv, Upstream' \subseteq Upstream,
         Upstream' = {} \/ \A e \in Upstream : e.kind = "finish" => e \in Upstream',
         UNCHANGED <<firstError_, isKernelWithDBI_, closed>>, Running' = Running,
         Upstream' = {} \/ ((ppc'["client"] = "finish_drain") <=> (ppc["client"] = "finish_drain"))
  PROVE  FinishInv' /\ UpstreamGrows
  BY Zenon DEF IndInv, FinishInv, UpstreamGrows

(* Every step keeps what is said of the batches in the pipeline.           *)
LEMMA PendingStep ==
  ASSUME IndInv, [Next]_vars
  PROVE  PendingInv' /\ FinishInv' /\ UpstreamGrows
  <1>t. /\ ppc \in [Producers -> ProducerPcs] /\ work \in [Producers -> Events]
        /\ kernel \in 0..MaxKernels /\ seq \in 0..MaxWork
    BY Zenon DEF IndInv, TypeOK
  <1>n. kernel \in Nat /\ seq \in Nat /\ MaxKernels \in Nat /\ MaxWork \in Nat
    BY <1>t, CheckerAssumption
  <1>c. CallInv /\ PendingInv
    BY Zenon DEF IndInv
  <1>u. ASSUME Drained PROVE Upstream = {}
    BY <1>u DEF Drained, Upstream
  <1>1. CASE CallSetInfo
    <2>1. \/ ppc' = [ppc EXCEPT !["client"] = "device_drain"] /\ kernel' = kernel
          \/ ppc' = [ppc EXCEPT !["client"] = "kernel_drain"] /\ kernel' = kernel + 1
      BY Zenon, <1>1 DEF CallSetInfo, Goto
    <2>2. /\ ppc["client"] = "idle" /\ ppc'["client"] \in {"device_drain", "kernel_drain"}
          /\ ppc'["committer"] = ppc["committer"]
      BY Zenon, <1>1, <1>t, <2>1 DEF CallSetInfo, Producers
    <2>3. Running' = Running
      BY <2>1, <2>2, <1>t, <1>n DEF Running, Producers
    <2>4. UNCHANGED <<pending, seq, work, firstError_, isKernelWithDBI_, closed>>
      BY Zenon, <1>1 DEF CallSetInfo, pipeline, tooling
    <2>5. PendingInv' /\ Upstream' = Upstream
      BY Zenon, <2>2, <2>3, <2>4, <1>c, PendingFrame DEF InDoRecord, ClientQuiet, PendingInv
    <2> QED
      BY Zenon, <2>2, <2>3, <2>4, <2>5, FinishFrame
  <1>2. CASE SetInfoDrained
    <2>1. /\ pending' = <<>> /\ ppc'["committer"] = "idle" /\ kernel' = kernel
          /\ firstError_' = firstError_ /\ closed' = closed
      BY Zenon, <1>2, <1>t DEF SetInfoDrained, Drained, pipeline, client, Goto, Producers
    <2>2. PendingInv' /\ Upstream' = {}
      BY Zenon, <2>1, PendingEmpty
    <2>3. UpstreamGrows
      BY Zenon, <2>2 DEF UpstreamGrows
    <2>4. ~firstError_ => (isKernelWithDBI_' <=> Running' \in DbiKernels)
      <3> SUFFICES ASSUME ~firstError_ PROVE isKernelWithDBI_' <=> Running' \in DbiKernels
        BY Zenon
      <3>1. isKernelWithDBI_ <=> Running \in DbiKernels
        BY Zenon DEF IndInv, FinishInv
      <3>2. CASE ppc["client"] = "kernel_drain"
        <4>1. isKernelWithDBI_' = (kernel \in DbiKernels) /\ ppc' = [ppc EXCEPT !["client"] = "kernel_push"]
          BY Zenon, <1>2, <3>2 DEF SetInfoDrained, Goto
        <4>2. Running' = kernel
          BY Zenon, <4>1, <2>1, <1>t DEF Running, Producers
        <4> QED
          BY Zenon, <4>1, <4>2
      <3>3. CASE ppc["client"] = "device_drain"
        <4>1. isKernelWithDBI_' = isKernelWithDBI_ /\ ppc' = [ppc EXCEPT !["client"] = "device_push"]
          BY Zenon, <1>2, <3>3 DEF SetInfoDrained, Goto
        <4>2. Running' = Running
          BY Zenon, <4>1, <3>3, <2>1, <1>t DEF Running, Producers
        <4> QED
          BY Zenon, <4>1, <4>2, <3>1
      <3> QED
        BY Zenon, <1>2, <3>2, <3>3 DEF SetInfoDrained
    <2> QED
      BY Zenon, <2>1, <2>2, <2>3, <2>4 DEF FinishInv
  <1>3. CASE SetInfoTool
    <2>1. UNCHANGED <<pending, seq, work, ppc, kernel, firstError_, isKernelWithDBI_, closed>>
      BY Zenon, <1>3 DEF SetInfoTool, pipeline, client
    <2>2. Running' = Running
      BY Zenon, <2>1 DEF Running
    <2>3. PendingInv' /\ Upstream' = Upstream
      BY Zenon, <2>1, <2>2, <1>c, PendingFrame DEF PendingInv
    <2> QED
      BY Zenon, <2>1, <2>2, <2>3, FinishFrame
  <1>4. CASE SetInfoReturns
    <2>1. /\ ppc["client"] \in {"device_push", "kernel_push"} /\ ppc'["client"] = "idle"
          /\ ppc'["committer"] = ppc["committer"]
          /\ UNCHANGED <<pending, kernel, firstError_, isKernelWithDBI_, closed>>
      BY Zenon, <1>4, <1>t DEF SetInfoReturns, Return, Goto, Producers, pipeline, client, tooling
    <2>2. pending' = <<>> /\ ppc'["committer"] = "idle"
      BY Zenon, <2>1, <1>c DEF PendingInv, ClientQuiet
    <2>3. PendingInv' /\ Upstream' = {}
      BY Zenon, <2>2, PendingEmpty
    <2>4. Running' = Running
      BY Zenon, <2>1 DEF Running
    <2> QED
      BY Zenon, <2>1, <2>3, <2>4, FinishFrame
  <1>5. ASSUME NEW kind \in {"block", "finish"}, DoBatch(kind) PROVE PendingInv' /\ FinishInv' /\ UpstreamGrows
    <2> DEFINE e == Event(kind, kernel, seq + 1)
    <2>0. seq + 1 \in 0..MaxWork
      <3>1. Budget(1)
        BY Zenon, <1>5 DEF DoBatch
      <3>2. foreignSeq \in Nat
        BY SMTT(30), CheckerAssumption DEF IndInv, TypeOK
      <3> QED
        BY <3>1, <3>2, <1>n DEF Budget
    <2>1. e \in Events /\ e.kind = kind /\ e.kernel = kernel /\ e.seq = seq + 1
      BY <2>0, <1>t, EventType DEF Kinds
    <2> HIDE DEF e
    <2>2. /\ pending' = Append(pending, e) /\ seq' = seq + 1 /\ ppc["client"] = "idle"
          /\ kernel > 0 /\ kernel \notin closed
          /\ UNCHANGED <<work, kernel, firstError_, isKernelWithDBI_>>
          /\ kind = "finish" => closed' = closed \cup {kernel}
          /\ kind # "finish" => closed' = closed
      BY Zenon, <1>5 DEF DoBatch, Submit, e, tooling
    <2>3. /\ ppc'["client"] = IF kind = "finish" THEN "finish_drain" ELSE "idle"
          /\ ppc'["committer"] = ppc["committer"]
      BY Zenon, <1>5, <1>t DEF DoBatch, Goto, Producers
    <2>4. Running = kernel /\ Running' = kernel
      BY Zenon, <2>2, <2>3 DEF Running
    <2>5. PendingInv' /\ Upstream' = Upstream \cup {e}
      BY Zenon, <2>1, <2>2, <2>3, <2>4, PendingAppend
    <2>6. UpstreamGrows
      BY Zenon, <2>1, <2>2, <2>5 DEF UpstreamGrows
    <2>7. FinishInv'
      <3>1. ~firstError_ => /\ isKernelWithDBI_ <=> Running \in DbiKernels
                            /\ \A x \in Upstream : IsBatch(x) => x.kernel \notin closed
        BY Zenon, <2>2 DEF IndInv, FinishInv
      <3>2. CASE kind = "finish"
        BY Zenon, <3>1, <3>2, <2>1, <2>2, <2>3, <2>4, <2>5 DEF FinishInv
      <3>3. CASE kind # "finish"
        BY Zenon, <3>1, <3>3, <2>1, <2>2, <2>3, <2>4, <2>5 DEF FinishInv
      <3> QED
        BY Zenon, <3>2, <3>3
    <2> QED
      BY Zenon, <2>5, <2>6, <2>7
  <1>6. CASE DoBatchReturns
    <2>1. /\ ppc["client"] = "finish_drain" /\ ppc'["client"] = "idle" /\ Drained
          /\ ppc'["committer"] = ppc["committer"]
          /\ UNCHANGED <<pending, kernel, firstError_, isKernelWithDBI_, closed>>
      BY Zenon, <1>6, <1>t DEF DoBatchReturns, Goto, Producers, pipeline, client, tooling
    <2>2. PendingInv' /\ Upstream' = {}
      BY Zenon, <2>1, PendingEmpty DEF Drained
    <2>3. Running' = Running
      BY Zenon, <2>1 DEF Running
    <2> QED
      BY Zenon, <2>1, <2>2, <2>3, FinishFrame
  <1>7. CASE CaptureMemcheckCompletion
    <2> DEFINE e == Event("mark", 0, seq + 1)
    <2>0. seq + 1 \in 0..MaxWork
      <3>1. Budget(1)
        BY Zenon, <1>7 DEF CaptureMemcheckCompletion
      <3>2. foreignSeq \in Nat
        BY SMTT(30), CheckerAssumption DEF IndInv, TypeOK
      <3> QED
        BY <3>1, <3>2, <1>n DEF Budget
    <2>1. e \in Events /\ e.kind = "mark" /\ e.seq = seq + 1
      BY <2>0, <1>n, EventType DEF Kinds
    <2> HIDE DEF e
    <2>2. /\ pending' = Append(pending, e) /\ seq' = seq + 1 /\ ppc["client"] = "idle"
          /\ UNCHANGED <<work, kernel, ppc, firstError_, isKernelWithDBI_, closed>>
      BY Zenon, <1>7 DEF CaptureMemcheckCompletion, Submit, e, tooling, producer
    <2>3. ~IsBatch(e)
      BY Zenon, <2>1 DEF IsBatch
    <2>4. Running' = Running
      BY Zenon, <2>2 DEF Running
    <2>5. PendingInv' /\ Upstream' = Upstream \cup {e}
      BY Zenon, <2>1, <2>2, <2>3, <2>4, PendingAppend
    <2> QED
      BY Zenon, <2>1, <2>2, <2>3, <2>4, <2>5 DEF UpstreamGrows, FinishInv, IndInv
  <1>8. CASE CallFinish
    <2>1. /\ ppc["client"] = "idle" /\ ppc'["client"] = "stop_drain" /\ ppc'["committer"] = ppc["committer"]
          /\ UNCHANGED <<pending, seq, work, kernel, firstError_, isKernelWithDBI_, closed>>
      BY Zenon, <1>8, <1>t DEF CallFinish, Goto, Producers, pipeline, client, tooling
    <2>2. Running' = Running
      BY Zenon, <2>1 DEF Running
    <2>3. PendingInv' /\ Upstream' = Upstream
      BY Zenon, <2>1, <2>2, <1>c, PendingFrame DEF InDoRecord, ClientQuiet, PendingInv
    <2> QED
      BY Zenon, <2>1, <2>2, <2>3, FinishFrame
  <1>9. CASE FinishDrained
    <2>1. /\ ppc["client"] = "stop_drain" /\ ppc'["client"] \in {"joining", "terminated"} /\ Drained
          /\ ppc'["committer"] = ppc["committer"]
          /\ UNCHANGED <<pending, kernel, firstError_, isKernelWithDBI_, closed>>
      BY Zenon, <1>9, <1>t DEF FinishDrained, Goto, Producers, pipeline, client, tooling
    <2>2. PendingInv' /\ Upstream' = {}
      BY Zenon, <2>1, PendingEmpty DEF Drained
    <2>3. Running' = Running
      BY Zenon, <2>1 DEF Running
    <2> QED
      BY Zenon, <2>1, <2>2, <2>3, FinishFrame
  <1>10. CASE FinishJoined
    <2>1. /\ ppc["client"] = "joining" /\ ppc'["client"] = "finished" /\ ppc'["committer"] = ppc["committer"]
          /\ UNCHANGED <<pending, seq, work, kernel, firstError_, isKernelWithDBI_, closed>>
      BY Zenon, <1>10, <1>t DEF FinishJoined, Goto, Producers, pipeline, client, tooling
    <2>2. Running' = Running
      BY Zenon, <2>1 DEF Running
    <2>3. PendingInv' /\ Upstream' = Upstream
      BY Zenon, <2>1, <2>2, <1>c, PendingFrame DEF InDoRecord, ClientQuiet, PendingInv
    <2> QED
      BY Zenon, <2>1, <2>2, <2>3, FinishFrame
  <1>11. ASSUME NEW p \in {"client", "foreign"}, DoRecord(p) PROVE PendingInv' /\ FinishInv' /\ UpstreamGrows
    <2>1. /\ ppc[p] = "idle" /\ ppc' = [ppc EXCEPT ![p] = "record_drain"]
          /\ work' = [work EXCEPT ![p] = Event("record", 0, IF p = "client" THEN seq + 1 ELSE 0)]
          /\ seq' = IF p = "client" THEN seq + 1 ELSE seq
          /\ UNCHANGED <<pending, kernel, firstError_, isKernelWithDBI_, closed>>
      BY Zenon, <1>11 DEF DoRecord, Goto, pipeline, tooling
    <2>2. ppc'["committer"] = ppc["committer"] /\ work'["committer"] = work["committer"]
      BY Zenon, <2>1, <1>t DEF Producers
    <2>3. CASE p = "foreign"
      <3>1. ppc'["client"] = ppc["client"] /\ seq' = seq
        BY Zenon, <2>1, <2>3, <1>t DEF Producers
      <3>2. Running' = Running
        BY Zenon, <2>1, <3>1 DEF Running
      <3>3. PendingInv' /\ Upstream' = Upstream
        BY Zenon, <2>1, <2>2, <3>1, <3>2, <1>c, PendingFrame DEF PendingInv
      <3> QED
        BY Zenon, <2>1, <3>1, <3>2, <3>3, FinishFrame
    <2>4. CASE p = "client"
      <3>1. ppc["client"] = "idle" /\ ppc'["client"] = "record_drain" /\ seq' = seq + 1
        BY Zenon, <2>1, <2>4, <1>t DEF Producers
      <3>2. Running' = Running
        BY Zenon, <2>1, <3>1 DEF Running
      <3>3. Upstream' = Upstream
        BY Zenon, <2>1, <2>2 DEF Upstream
      <3>4. \A e \in Upstream : /\ IsBatch(e) => e.kernel = Running
                                /\ e.kind # "finish"
                                /\ e.seq \in 1..seq
        BY Zenon, <3>1, <1>c DEF PendingInv, Upstream
      <3>5. \A e \in Upstream' : /\ IsBatch(e) => e.kernel = Running'
                                 /\ e.kind = "finish" => ppc'["client"] = "finish_drain"
                                 /\ ppc'["client"] \in InDoRecord => e.seq < seq'
        BY SMTT(30), <3>1, <3>2, <3>3, <3>4, <1>n
      <3>6. \A i \in DOMAIN pending : pending[i].seq \in 1..seq'
        BY SMTT(30), <3>1, <1>c, <1>n DEF PendingInv
      <3>7. ppc["committer"] # "idle" => work["committer"].seq \in 1..seq'
        BY SMTT(30), <3>1, <1>c, <1>n DEF PendingInv
      <3>8. PendingInv'
        BY Zenon, <2>1, <2>2, <3>1, <3>5, <3>6, <3>7, <1>c DEF PendingInv, ClientQuiet
      <3> QED
        BY Zenon, <2>1, <3>1, <3>2, <3>3, <3>8, FinishFrame
    <2> QED
      BY Zenon, <2>3, <2>4
  <1>12. ASSUME NEW p \in {"client", "foreign"}, RecordDrained(p) PROVE PendingInv' /\ FinishInv' /\ UpstreamGrows
    <2>1. /\ ppc[p] = "record_drain" /\ Drained
          /\ \/ ppc' = [ppc EXCEPT ![p] = "idle"] \/ ppc' = [ppc EXCEPT ![p] = "lower"]
          /\ UNCHANGED <<pending, kernel, firstError_, isKernelWithDBI_, closed>>
      BY Zenon, <1>12 DEF RecordDrained, Return, Goto, pipeline, tooling, client
    <2>2. /\ ppc'["committer"] = ppc["committer"]
          /\ (ppc'["client"] = "kernel_drain") <=> (ppc["client"] = "kernel_drain")
      BY Zenon, <2>1, <1>t DEF Producers
    <2>3. PendingInv' /\ Upstream' = {}
      BY Zenon, <2>1, <2>2, PendingEmpty DEF Drained
    <2>4. Running' = Running
      BY Zenon, <2>1, <2>2 DEF Running
    <2> QED
      BY Zenon, <2>1, <2>3, <2>4, FinishFrame
  <1>13. CASE CommitterFails
    <2>1. /\ pending # <<>> /\ pending' = Tail(pending) /\ ppc["committer"] = "idle" /\ firstError_' = TRUE
          /\ UNCHANGED <<seq, kernel, ppc>>
      BY Zenon, <1>13 DEF CommitterFails, producer, client
    <2>2. PendingInv' /\ Upstream' \subseteq Upstream
      BY Zenon, <2>1, PendingTail
    <2> QED
      BY Zenon, <2>1, <2>2 DEF FinishInv, UpstreamGrows
  <1>14. CASE DispatchMark
    <2>1. /\ pending # <<>> /\ pending' = Tail(pending) /\ ppc["committer"] = "idle" /\ Head(pending).kind = "mark"
          /\ UNCHANGED <<seq, kernel, ppc, firstError_, isKernelWithDBI_, closed>>
      BY Zenon, <1>14 DEF DispatchMark, producer, client, tooling
    <2>2. PendingInv' /\ Upstream' \subseteq Upstream
      BY Zenon, <2>1, PendingTail
    <2>3. ASSUME NEW e \in Upstream, e.kind = "finish" PROVE e \in Upstream'
      <3>1. /\ Head(pending) = pending[1] /\ DOMAIN pending' = 1..(Len(pending) - 1)
            /\ \A i \in 1..(Len(pending) - 1) : pending'[i] = pending[i + 1]
            /\ Len(pending) \in Nat \ {0} /\ DOMAIN pending = 1..Len(pending)
        BY Zenon, <2>1, TailFacts DEF IndInv, TypeOK
      <3>2. PICK i \in DOMAIN pending : e = pending[i]
        BY Zenon, <2>1, <2>3 DEF Upstream
      <3>3. i # 1
        BY Zenon, <2>1, <2>3, <3>1, <3>2
      <3>4. i - 1 \in DOMAIN pending' /\ pending'[i - 1] = e
        BY <3>1, <3>2, <3>3
      <3> QED
        BY Zenon, <3>4 DEF Upstream
    <2>4. Running' = Running
      BY Zenon, <2>1 DEF Running
    <2> QED
      BY Zenon, <2>1, <2>2, <2>3, <2>4, FinishFrame
  <1>15. CASE CommitterTakes
    <2>1. /\ pending # <<>> /\ pending' = Tail(pending) /\ ppc["committer"] = "idle" /\ Head(pending).kind # "mark"
          /\ ppc' = [ppc EXCEPT !["committer"] = "lower"] /\ work' = [work EXCEPT !["committer"] = Head(pending)]
          /\ UNCHANGED <<seq, kernel, firstError_, isKernelWithDBI_, closed>>
      BY Zenon, <1>15 DEF CommitterTakes, client, tooling, Goto
    <2>2. ppc'["committer"] = "lower" /\ work'["committer"] = Head(pending) /\ ppc'["client"] = ppc["client"]
      BY Zenon, <2>1, <1>t DEF Producers
    <2>3. PendingInv' /\ Upstream' \subseteq Upstream
      BY Zenon, <2>1, <2>2, PendingTail
    <2>4. ASSUME NEW e \in Upstream PROVE e \in Upstream'
      <3>1. /\ Head(pending) = pending[1] /\ DOMAIN pending' = 1..(Len(pending) - 1)
            /\ \A i \in 1..(Len(pending) - 1) : pending'[i] = pending[i + 1]
            /\ Len(pending) \in Nat \ {0} /\ DOMAIN pending = 1..Len(pending)
        BY Zenon, <2>1, TailFacts DEF IndInv, TypeOK
      <3>2. PICK i \in DOMAIN pending : e = pending[i]
        BY Zenon, <2>1, <2>4 DEF Upstream
      <3>3. CASE i = 1
        BY Zenon, <3>1, <3>2, <3>3, <2>2 DEF Upstream
      <3>4. CASE i # 1
        <4>1. i - 1 \in DOMAIN pending' /\ pending'[i - 1] = e
          BY <3>1, <3>2, <3>4
        <4> QED
          BY Zenon, <4>1 DEF Upstream
      <3> QED
        BY Zenon, <3>3, <3>4
    <2>5. Running' = Running
      BY Zenon, <2>1, <2>2 DEF Running
    <2> QED
      BY Zenon, <2>1, <2>2, <2>3, <2>4, <2>5, FinishFrame
  <1>16. ASSUME NEW p \in Producers, LowerFinishProduce(p) PROVE PendingInv' /\ FinishInv' /\ UpstreamGrows
    <2>1. /\ ppc[p] = "lower" /\ ppc' = [ppc EXCEPT ![p] = "push"]
          /\ UNCHANGED <<pending, seq, work, kernel, firstError_, isKernelWithDBI_, closed>>
      BY Zenon, <1>16 DEF LowerFinishProduce, Goto, pipeline, client, tooling
    <2>2. /\ (ppc'["committer"] = "idle") = (ppc["committer"] = "idle")
          /\ ppc'["committer"] = "await" => ppc["committer"] = "await"
          /\ ppc'["client"] = ppc["client"] \/ (ppc["client"] = "lower" /\ ppc'["client"] = "push")
      BY Zenon, <2>1, <1>t DEF Producers
    <2>3. Running' = Running
      BY Zenon, <2>1, <2>2 DEF Running
    <2>4. PendingInv' /\ Upstream' = Upstream
      BY Zenon, <2>1, <2>2, <2>3, <1>c, PendingFrame DEF PendingInv, InDoRecord, ClientQuiet
    <2> QED
      BY Zenon, <2>1, <2>2, <2>3, <2>4, FinishFrame
  <1>17. ASSUME NEW p \in Producers, PushTool(p) \/ AwaitTool(p) PROVE PendingInv' /\ FinishInv' /\ UpstreamGrows
    <2>1. UNCHANGED <<pending, seq, work, ppc, kernel, firstError_, isKernelWithDBI_, closed>>
      BY Zenon, <1>17 DEF PushTool, AwaitTool, pipeline, client, tooling
    <2>2. Running' = Running
      BY Zenon, <2>1 DEF Running
    <2>3. PendingInv' /\ Upstream' = Upstream
      BY Zenon, <2>1, <2>2, <1>c, PendingFrame DEF PendingInv
    <2> QED
      BY Zenon, <2>1, <2>2, <2>3, FinishFrame
  <1>18. ASSUME NEW p \in Producers, Pushed(p) PROVE PendingInv' /\ FinishInv' /\ UpstreamGrows
    <2>0. UNCHANGED <<pending, seq, kernel, firstError_, isKernelWithDBI_, closed>> /\ ppc[p] = "push"
      BY Zenon, <1>18 DEF Pushed, pipeline, client, tooling
    <2>1. CASE work[p].kind = "finish"
      <3>1. p = "committer"
        BY <2>1, <2>0, <1>c, CheckerAssumption DEF CallInv, InDoRecord, Event, Producers
      <3>2. ppc' = [ppc EXCEPT ![p] = "await"] /\ work' = work
        BY Zenon, <1>18, <2>1 DEF Pushed, Goto
      <3>3. ppc'["committer"] = "await" /\ ppc'["client"] = ppc["client"]
        BY Zenon, <3>1, <3>2, <1>t DEF Producers
      <3>4. Running' = Running
        BY Zenon, <2>0, <3>3 DEF Running
      <3>5. PendingInv' /\ Upstream' = Upstream
        BY Zenon, <2>0, <2>1, <3>1, <3>2, <3>3, <3>4, PendingFrame
      <3> QED
        BY Zenon, <2>0, <3>3, <3>4, <3>5, FinishFrame
    <2>2. CASE work[p].kind # "finish" /\ p # "committer"
      <3>1. ppc' = [ppc EXCEPT ![p] = "idle"] /\ work' = [work EXCEPT ![p] = Nothing]
        BY Zenon, <1>18, <2>2 DEF Pushed, Return, Goto
      <3>2. /\ ppc'["committer"] = ppc["committer"] /\ work'["committer"] = work["committer"]
            /\ ppc'["client"] = ppc["client"] \/ (ppc["client"] = "push" /\ ppc'["client"] = "idle")
        BY Zenon, <2>0, <2>2, <3>1, <1>t DEF Producers
      <3>3. Running' = Running
        BY Zenon, <2>0, <3>2 DEF Running
      <3>4. PendingInv' /\ Upstream' = Upstream
        BY Zenon, <2>0, <3>2, <3>3, <1>c, PendingFrame DEF PendingInv, InDoRecord, ClientQuiet
      <3> QED
        BY Zenon, <2>0, <3>2, <3>3, <3>4, FinishFrame
    <2>3. CASE work[p].kind # "finish" /\ p = "committer"
      <3>1. ppc' = [ppc EXCEPT !["committer"] = "idle"]
        BY Zenon, <1>18, <2>3 DEF Pushed, Return, Goto
      <3>2. ppc'["committer"] = "idle" /\ ppc'["client"] = ppc["client"] /\ ppc["committer"] # "idle"
        BY Zenon, <2>0, <2>3, <3>1, <1>t DEF Producers
      <3>3. Running' = Running
        BY Zenon, <2>0, <3>2 DEF Running
      <3>4. Upstream' \subseteq Upstream /\ \A e \in Upstream : e.kind = "finish" => e \in Upstream'
        BY Zenon, <2>0, <2>3, <3>2 DEF Upstream
      <3>5. PendingInv'
        <4>1. \A e \in Upstream : /\ IsBatch(e) => e.kernel = Running
                                  /\ e.kind = "finish" => ppc["client"] = "finish_drain"
                                  /\ ppc["client"] \in InDoRecord => e.seq < seq
          BY Zenon, <1>c DEF PendingInv
        <4>2. \A e \in Upstream' : /\ IsBatch(e) => e.kernel = Running'
                                   /\ e.kind = "finish" => ppc'["client"] = "finish_drain"
                                   /\ ppc'["client"] \in InDoRecord => e.seq < seq'
          BY Zenon, <4>1, <3>2, <3>3, <3>4, <2>0
        <4> QED
          BY Zenon, <4>2, <2>0, <3>2, <1>c DEF PendingInv
      <3> QED
        BY Zenon, <2>0, <3>2, <3>3, <3>4, <3>5, FinishFrame
    <2> QED
      BY Zenon, <2>1, <2>2, <2>3
  <1>19. ASSUME NEW p \in Producers, DisplaySanitizerEnd(p) PROVE PendingInv' /\ FinishInv' /\ UpstreamGrows
    <2>1. /\ ppc[p] = "await" /\ ppc' = [ppc EXCEPT ![p] = "idle"]
          /\ UNCHANGED <<pending, kernel, firstError_, isKernelWithDBI_, closed>>
      BY Zenon, <1>19 DEF DisplaySanitizerEnd, Return, Goto, pipeline, client, tooling
    <2>2. p = "committer"
      BY Zenon, <2>1, <1>c DEF CallInv, Producers, InDoRecord, ClientPcs, ClientQuiet
    <2>3. ppc'["committer"] = "idle" /\ ppc'["client"] = ppc["client"] /\ pending = <<>>
      BY Zenon, <2>1, <2>2, <1>t, <1>c DEF Producers, PendingInv
    <2>4. PendingInv' /\ Upstream' = {}
      BY Zenon, <2>1, <2>3, PendingEmpty
    <2>5. Running' = Running
      BY Zenon, <2>1, <2>3 DEF Running
    <2> QED
      BY Zenon, <2>1, <2>4, <2>5, FinishFrame
  <1>20. CASE ConsumerActs \/ UNCHANGED vars
    <2>1. UNCHANGED <<pending, seq, work, ppc, kernel, firstError_, isKernelWithDBI_, closed>>
      BY Zenon, <1>20, ConsumerFrame DEF vars, pipeline, client, tooling, producer
    <2>2. Running' = Running
      BY Zenon, <2>1 DEF Running
    <2>3. PendingInv' /\ Upstream' = Upstream
      BY Zenon, <2>1, <2>2, <1>c, PendingFrame DEF PendingInv
    <2> QED
      BY Zenon, <2>1, <2>2, <2>3, FinishFrame
  <1> QED
    BY SMTT(30), <1>1, <1>2, <1>3, <1>4, <1>5, <1>6, <1>7, <1>8, <1>9, <1>10, <1>11, <1>12,
       <1>13, <1>14, <1>15,
       <1>16, <1>17, <1>18, <1>19, <1>20, Steps

----------------------------------------------------------------------------
(* The queues of the tools.                                                *)

(* The step pushes ev for tool t. *)
NewFor(t, ev) ==
    \/ /\ SetInfoTool /\ tool["client"] = t
       /\ \/ ppc["client"] = "device_push" /\ ev = Event("device", 0, 0)
          \/ ppc["client"] = "kernel_push" /\ ev = Event("kernel", kernel, 0)
    \/ DispatchMark /\ t = Memcheck /\ ev = Head(pending)
    \/ \E p \in Producers : /\ PushTool(p) /\ tool[p] = t /\ ~NeedFilter(t, work[p])
                            /\ ev = work[p] /\ done_'[t] = FALSE
    \/ FinishDrained /\ ~firstError_ /\ ev = Event("stop", 0, 0)

KeepsConsuming(t) == /\ (cpc'[t] = "consume") <=> (cpc[t] = "consume")
                     /\ (cpc'[t] = "gone") <=> (cpc[t] = "gone")
                     /\ cpc[t] = "consume" => args'[t] = args[t]

(* What a step can do to the queue of tool t and to what t has in hand. *)
SameLine(t) == KeepsConsuming(t) /\ queue'[t] = queue[t]
Arrives(t, ev) == KeepsConsuming(t) /\ queue'[t] = Append(queue[t], ev) /\ NewFor(t, ev)
Taken(t) == /\ queue[t] # <<>> /\ queue'[t] = Tail(queue[t]) /\ args'[t] = Head(queue[t])
            /\ cpc[t] # "consume" /\ cpc'[t] = "consume"
Handled(t) == /\ HandleContext(t) \/ Consume(t)
              /\ queue'[t] = queue[t] /\ cpc[t] = "consume" /\ cpc'[t] \notin {"consume", "gone"}
Stopped(t) == /\ cpc[t] = "consume" /\ args[t].kind = "stop" /\ queue'[t] = <<>> /\ cpc'[t] = "gone"
Killed(t) == firstError_ /\ firstError_' /\ queue'[t] = queue[t] /\ cpc'[t] = "killed"

(* Waking consumers changes nothing of what they have in hand.             *)
LEMMA NotifyKeeps ==
  ASSUME TypeOK, NotifyWorkers, args' = args, NEW t \in Tools
  PROVE  KeepsConsuming(t)
  <1>1. cpc'[t] = IF cpc[t] = "sleep" THEN "locked" ELSE cpc[t]
    BY Zenon DEF NotifyWorkers
  <1> QED
    BY Zenon, <1>1 DEF KeepsConsuming

(* A push changes the queue of its own tool only.                          *)
LEMMA PushLine ==
  ASSUME TypeOK, NEW t \in Tools, NEW u \in Tools, NEW ev, PushTo(u, ev)
  PROVE  /\ t = u => queue'[t] = Append(queue[t], ev)
         /\ t # u => queue'[t] = queue[t]
  BY Zenon DEF PushTo, TypeOK

(* Every step does one of these things to the queue of tool t.             *)
LEMMA LineStep ==
  ASSUME IndInv, [Next]_vars, NEW t \in Tools
  PROVE  SameLine(t) \/ (\E ev \in Events : Arrives(t, ev)) \/ Taken(t) \/ Handled(t) \/ Stopped(t) \/ Killed(t)
  <1>t. TypeOK
    BY Zenon DEF IndInv
  <1>s. ASSUME UNCHANGED <<queue, cpc, args>> PROVE SameLine(t)
    BY Zenon, <1>s DEF SameLine, KeepsConsuming
  <1>m. ASSUME queue' = queue, NotifyWorkers, args' = args PROVE SameLine(t)
    BY Zenon, <1>m, <1>t, NotifyKeeps DEF SameLine
  <1>1. CASE SetInfoTool
    <2> DEFINE u == tool["client"]
               ev == IF ppc["client"] = "device_push" THEN Event("device", 0, 0) ELSE Event("kernel", kernel, 0)
    <2>1. /\ ppc["client"] \in {"device_push", "kernel_push"} /\ u \in Tools /\ PushTo(u, ev)
          /\ UNCHANGED <<cpc, args>>
      BY Zenon, <1>1 DEF SetInfoTool, consumer
    <2>2. ev \in Events
      <3>1. 0 \in 0..MaxKernels /\ 0 \in 0..MaxWork /\ kernel \in 0..MaxKernels
        BY <1>t, CheckerAssumption DEF TypeOK
      <3> QED
        BY Zenon, <3>1, EventType DEF Kinds
    <2>3. CASE t = u
      <3>1. queue'[t] = Append(queue[t], ev)
        BY Zenon, <2>1, <2>3, <1>t, PushLine
      <3>2. NewFor(t, ev)
        BY Zenon, <1>1, <2>1, <2>3 DEF NewFor
      <3>3. KeepsConsuming(t)
        BY Zenon, <2>1 DEF KeepsConsuming
      <3> QED
        BY Zenon, <2>2, <3>1, <3>2, <3>3 DEF Arrives
    <2>4. CASE t # u
      <3>1. queue'[t] = queue[t]
        BY Zenon, <2>1, <2>4, <1>t, PushLine
      <3> QED
        BY Zenon, <2>1, <3>1 DEF SameLine, KeepsConsuming
    <2> QED
      BY Zenon, <2>3, <2>4
  <1>2. CASE DispatchMark
    <2>1. PushTo(Memcheck, Head(pending)) /\ NotifyWorkers /\ args' = args /\ pending # <<>>
      BY Zenon, <1>2 DEF DispatchMark
    <2>2. Memcheck \in Tools
      BY CheckerAssumption DEF Memcheck, Tools
    <2>3. KeepsConsuming(t)
      BY Zenon, <2>1, <1>t, NotifyKeeps
    <2>4. CASE t = Memcheck
      <3>1. queue'[t] = Append(queue[t], Head(pending))
        BY Zenon, <2>1, <2>2, <2>4, <1>t, PushLine
      <3>2. Head(pending) \in Events
        BY Zenon, <2>1, <1>t, TailFacts DEF TypeOK
      <3> QED
        BY Zenon, <1>2, <2>3, <2>4, <3>1, <3>2 DEF Arrives, NewFor
    <2>5. CASE t # Memcheck
      BY Zenon, <2>1, <2>2, <2>3, <2>5, <1>t, PushLine DEF SameLine
    <2> QED
      BY Zenon, <2>4, <2>5
  <1>3. ASSUME NEW p \in Producers, PushTool(p)
        PROVE  SameLine(t) \/ (\E ev \in Events : Arrives(t, ev))
    <2> DEFINE u == tool[p]
    <2>1. u \in Tools /\ UNCHANGED <<cpc, args>>
      BY Zenon, <1>3 DEF PushTool, consumer
    <2>2. CASE NeedFilter(u, work[p])
      <3>1. queue' = queue
        BY Zenon, <1>3, <2>2 DEF PushTool, queues
      <3> QED
        BY Zenon, <2>1, <3>1, <1>s
    <2>3. CASE ~NeedFilter(u, work[p])
      <3>1. PushTo(u, work[p]) /\ done_' = [done_ EXCEPT ![u] = FALSE]
        BY Zenon, <1>3, <2>3 DEF PushTool
      <3>2. KeepsConsuming(t)
        BY Zenon, <2>1 DEF KeepsConsuming
      <3>3. CASE t = u
        <4>1. queue'[t] = Append(queue[t], work[p])
          BY <2>1, <3>1, <3>3, <1>t, PushLine
        <4>2. work[p] \in Events /\ done_'[t] = FALSE
          BY Zenon, <3>1, <3>3, <1>t DEF TypeOK
        <4>3. NewFor(t, work[p])
          BY Zenon, <1>3, <2>3, <3>3, <4>2 DEF NewFor
        <4> QED
          BY Zenon, <3>2, <4>1, <4>2, <4>3 DEF Arrives
      <3>4. CASE t # u
        <4>1. queue'[t] = queue[t]
          BY Zenon, <2>1, <3>1, <3>4, <1>t, PushLine
        <4> QED
          BY ZenonT(60), <3>2, <4>1 DEF SameLine
      <3> QED
        BY Zenon, <3>3, <3>4
    <2> QED
      BY Zenon, <2>2, <2>3
  <1>4. CASE FinishDrained
    <2>1. CASE firstError_
      BY Zenon, <1>4, <2>1 DEF FinishDrained, Killed, pipeline
    <2>2. CASE ~firstError_
      <3>1. queue' = [x \in Tools |-> Append(queue[x], Event("stop", 0, 0))] /\ NotifyWorkers /\ args' = args
        BY Zenon, <1>4, <2>2 DEF FinishDrained
      <3>2. Event("stop", 0, 0) \in Events
        BY EventType, CheckerAssumption DEF Kinds
      <3>3. queue'[t] = Append(queue[t], Event("stop", 0, 0))
        BY Zenon, <3>1
      <3>4. KeepsConsuming(t)
        BY Zenon, <3>1, <1>t, NotifyKeeps
      <3> QED
        BY Zenon, <1>4, <2>2, <3>2, <3>3, <3>4 DEF Arrives, NewFor
    <2> QED
      BY Zenon, <2>1, <2>2
  <1>5. CASE ConsumerActs
    <2>1. PICK u \in Tools : ConsumerStep(u) \/ SpuriousWake(u)
      BY Zenon, <1>5 DEF ConsumerActs
    <2>t. queue \in [Tools -> Seq(Events)] /\ cpc \in [Tools -> ConsumerPcs] /\ args \in [Tools -> Events]
      BY Zenon, <1>t DEF TypeOK
    <2>2. CASE TakeUnlocked(u) \/ TakeLocked(u)
      <3>1. Take(u) /\ cpc[u] \in {"top", "locked"}
        BY Zenon, <2>2 DEF TakeUnlocked, TakeLocked
      <3>2. CASE t = u
        BY Zenon, <3>1, <3>2, <2>t DEF Take, Taken
      <3>3. CASE t # u
        BY Zenon, <3>1, <3>3, <2>t DEF Take, SameLine, KeepsConsuming
      <3> QED
        BY Zenon, <3>2, <3>3
    <2>3. CASE GoForLock(u) \/ Sleep(u) \/ SpuriousWake(u)
      BY Zenon, <2>3, <2>t DEF GoForLock, Sleep, SpuriousWake, SameLine, KeepsConsuming, queues
    <2>4. CASE HandleContext(u)
      <3>1. CASE t = u
        BY Zenon, <2>4, <3>1, <2>t DEF HandleContext, Again, Handled, queues
      <3>2. CASE t # u
        BY Zenon, <2>4, <3>2, <2>t DEF HandleContext, Again, SameLine, KeepsConsuming, queues
      <3> QED
        BY Zenon, <3>1, <3>2
    <2>5. CASE Consume(u)
      <3>0. cpc[u] = "consume" /\ cpc' = [cpc EXCEPT ![u] = "check"] /\ UNCHANGED <<queue, args>>
        BY Zenon, <2>5 DEF Consume, queues
      <3>1. CASE t = u
        BY Zenon, <2>5, <3>0, <3>1, <2>t DEF Handled
      <3>2. CASE t # u
        BY Zenon, <3>0, <3>2, <2>t DEF SameLine, KeepsConsuming
      <3> QED
        BY Zenon, <3>1, <3>2
    <2>6. CASE CheckFinishProduce(u) \/ WaitAfterConsumed(u)
      BY Zenon, <2>6, <2>t DEF CheckFinishProduce, WaitAfterConsumed, Again, SameLine, KeepsConsuming, queues
    <2>7. CASE Stop(u)
      <3>1. CASE t = u
        BY Zenon, <2>7, <3>1, <2>t DEF Stop, Stopped
      <3>2. CASE t # u
        BY Zenon, <2>7, <3>2, <2>t DEF Stop, SameLine, KeepsConsuming
      <3> QED
        BY Zenon, <3>1, <3>2
    <2> QED
      BY Zenon, <2>1, <2>2, <2>3, <2>4, <2>5, <2>6, <2>7 DEF ConsumerStep
  <1>6. CASE CallSetInfo \/ SetInfoDrained \/ SetInfoReturns
    BY Zenon, <1>6, <1>s, <1>m DEF CallSetInfo, SetInfoDrained, SetInfoReturns, queues, consumer
  <1>7. CASE \/ \E kind \in {"block", "finish"} : DoBatch(kind)
             \/ DoBatchReturns \/ CaptureMemcheckCompletion \/ CallFinish \/ FinishJoined
    BY Zenon, <1>7, <1>s DEF DoBatch, DoBatchReturns, CaptureMemcheckCompletion, CallFinish, FinishJoined, queues, consumer
  <1>8. CASE \/ \E p \in {"client", "foreign"} : DoRecord(p) \/ RecordDrained(p)
             \/ CommitterFails \/ CommitterTakes
    BY Zenon, <1>8, <1>s DEF DoRecord, RecordDrained, CommitterFails, CommitterTakes, queues, consumer
  <1>9. ASSUME NEW p \in Producers, LowerFinishProduce(p) \/ Pushed(p) \/ AwaitTool(p) \/ DisplaySanitizerEnd(p)
        PROVE  SameLine(t)
    BY Zenon, <1>9, <1>s, <1>m DEF LowerFinishProduce, Pushed, AwaitTool, DisplaySanitizerEnd, queues, consumer
  <1>10. CASE UNCHANGED vars
    BY Zenon, <1>10, <1>s DEF vars, queues, consumer
  <1> QED
    BY Zenon, <1>1, <1>2, <1>3, <1>4, <1>5, <1>6, <1>7, <1>8, <1>9, <1>10, Steps

(* Which events are unprocessed after the step. *)
LEMMA Arrivals ==
  ASSUME IndInv, [Next]_vars, NEW t \in Tools, NEW ev \in Unprocessed(t)'
  PROVE  ev \in Unprocessed(t) \/ (NewFor(t, ev) /\ Arrives(t, ev) /\ ev \in Events)
  <1>t. queue[t] \in Seq(Events)
    BY Zenon DEF IndInv, TypeOK
  <1>1. CASE SameLine(t)
    BY Zenon, <1>1 DEF SameLine, KeepsConsuming, Unprocessed
  <1>2. CASE \E e \in Events : Arrives(t, e)
    <2>1. PICK e \in Events : Arrives(t, e)
      BY Zenon, <1>2
    <2>2. queue'[t] = Append(queue[t], e) /\ KeepsConsuming(t) /\ NewFor(t, e)
      BY Zenon, <2>1 DEF Arrives
    <2>3. \A i \in DOMAIN queue'[t] : queue'[t][i] = e \/ \E j \in DOMAIN queue[t] : queue'[t][i] = queue[t][j]
      <3>1. /\ DOMAIN queue'[t] = 1..(Len(queue[t]) + 1) /\ DOMAIN queue[t] = 1..Len(queue[t])
            /\ \A i \in 1..Len(queue[t]) : queue'[t][i] = queue[t][i]
            /\ queue'[t][Len(queue[t]) + 1] = e /\ Len(queue[t]) \in Nat
        BY SMTT(30), <2>2, <1>t, AppendFacts
      <3> QED
        BY SMTT(30), <3>1
    <2> QED
      BY Zenon, <2>1, <2>2, <2>3 DEF Unprocessed, KeepsConsuming
  <1>3. CASE Taken(t)
    <2>1. /\ queue'[t] = Tail(queue[t]) /\ args'[t] = queue[t][1] /\ cpc'[t] = "consume" /\ 1 \in DOMAIN queue[t]
          /\ \A i \in DOMAIN queue'[t] : i + 1 \in DOMAIN queue[t] /\ queue'[t][i] = queue[t][i + 1]
      BY SMTT(30), <1>3, <1>t, TailFacts DEF Taken
    <2> QED
      BY SMTT(30), <2>1 DEF Unprocessed
  <1>4. CASE Handled(t) \/ Killed(t)
    BY Zenon, <1>4 DEF Handled, Killed, Unprocessed
  <1>5. CASE Stopped(t)
    BY SMTT(30), <1>5 DEF Stopped, Unprocessed
  <1> QED
    BY Zenon, <1>1, <1>2, <1>3, <1>4, <1>5, LineStep

(* An event leaves when its consumer has handled it. *)
LEMMA Departures ==
  ASSUME IndInv, [Next]_vars, NEW t \in Tools, NEW ev \in Unprocessed(t), ev \notin Unprocessed(t)', ~firstError_
  PROVE  cpc[t] = "consume" /\ ev = args[t] /\ (HandleContext(t) \/ Consume(t) \/ args[t].kind = "stop")
  <1>t. queue[t] \in Seq(Events)
    BY Zenon DEF IndInv, TypeOK
  <1>1. CASE SameLine(t)
    BY Zenon, <1>1 DEF SameLine, KeepsConsuming, Unprocessed
  <1>2. CASE \E e \in Events : Arrives(t, e)
    <2>1. PICK e \in Events : Arrives(t, e)
      BY Zenon, <1>2
    <2>2. /\ DOMAIN queue'[t] = 1..(Len(queue[t]) + 1) /\ DOMAIN queue[t] = 1..Len(queue[t])
          /\ \A i \in 1..Len(queue[t]) : queue'[t][i] = queue[t][i]
          /\ Len(queue[t]) \in Nat
      BY SMTT(30), <2>1, <1>t, AppendFacts DEF Arrives
    <2>3. \A i \in DOMAIN queue[t] : i \in DOMAIN queue'[t] /\ queue'[t][i] = queue[t][i]
      BY SMTT(30), <2>2
    <2> QED
      BY Zenon, <2>1, <2>3 DEF Arrives, KeepsConsuming, Unprocessed
  <1>3. CASE Taken(t)
    <2>1. /\ args'[t] = queue[t][1] /\ cpc'[t] = "consume" /\ cpc[t] # "consume"
          /\ \A i \in DOMAIN queue[t] : i = 1 \/ (i - 1 \in DOMAIN queue'[t] /\ queue'[t][i - 1] = queue[t][i])
      <3>1. queue[t] # <<>> /\ queue'[t] = Tail(queue[t]) /\ args'[t] = Head(queue[t])
            /\ cpc'[t] = "consume" /\ cpc[t] # "consume"
        BY Zenon, <1>3 DEF Taken
      <3>2. /\ Head(queue[t]) = queue[t][1] /\ DOMAIN queue'[t] = 1..(Len(queue[t]) - 1)
            /\ \A i \in 1..(Len(queue[t]) - 1) : queue'[t][i] = queue[t][i + 1]
            /\ Len(queue[t]) \in Nat /\ DOMAIN queue[t] = 1..Len(queue[t])
        BY SMTT(30), <3>1, <1>t, TailFacts
      <3>3. ASSUME NEW i \in DOMAIN queue[t], i # 1
            PROVE  i - 1 \in DOMAIN queue'[t] /\ queue'[t][i - 1] = queue[t][i]
        <4>1. i - 1 \in 1..(Len(queue[t]) - 1) /\ (i - 1) + 1 = i
          BY SMTT(30), <3>2, <3>3
        <4> QED
          BY Zenon, <4>1, <3>2
      <3> QED
        BY Zenon, <3>1, <3>2, <3>3
    <2> QED
      BY SMTT(30), <2>1 DEF Unprocessed
  <1>4. CASE Handled(t)
    BY Zenon, <1>4 DEF Handled, Unprocessed
  <1>5. CASE Killed(t)
    BY Zenon, <1>5 DEF Killed
  <1>6. CASE Stopped(t)
    <2>1. queue[t] = <<>>
      <3>1. \A i \in DOMAIN queue[t] : Before(args[t], queue[t][i])
        BY Zenon, <1>6 DEF Stopped, IndInv, OrderInv
      <3>2. DOMAIN queue[t] = {}
        BY Zenon, <1>6, <3>1 DEF Stopped, Before
      <3> QED
        BY ZenonT(60), <3>2, <1>t, EmptyFacts
    <2> QED
      BY Zenon, <1>6, <2>1 DEF Stopped, Unprocessed
  <1> QED
    BY ZenonT(60), <1>1, <1>2, <1>3, <1>4, <1>5, <1>6, LineStep

(* What is pushed comes behind everything that is unprocessed. *)
LEMMA NewIsLast ==
  ASSUME IndInv, NEW t \in Tools, NEW ev \in Events, NewFor(t, ev), NEW a \in Unprocessed(t)
  PROVE  Before(a, ev)
  <1>i. CallInv /\ PendingInv /\ StopInv
    BY Zenon DEF IndInv
  <1>t. /\ kernel \in Nat /\ seq \in Nat /\ tool["client"] \in Nat /\ tool["committer"] \in Nat
    BY SMTT(30), CheckerAssumption DEF IndInv, TypeOK, Producers
  <1>a. a.kind = "stop" => ppc["client"] \in {"joining", "finished"}
    BY Zenon, <1>i DEF StopInv
  <1>b. a \in Events
    BY DEF IndInv, TypeOK, Unprocessed
  <1>c. a.kernel \in Nat /\ a.seq \in Nat
    BY <1>b, EventFields, CheckerAssumption
  <1>k. /\ IsBatch(a) => /\ a.kernel <= kernel
                         /\ ppc["client"] \in {"kernel_drain", "kernel_push"} => a.kernel < kernel
        /\ a.kind = "kernel" => a.kernel <= kernel /\ (NotTold(t) => a.kernel < kernel)
    BY Zenon DEF IndInv, KernelInv
  <1>s. a.seq > 0 =>
           /\ \A i \in DOMAIN pending : a.seq < pending[i].seq
           /\ ppc["committer"] # "idle" =>
                a.seq < work["committer"].seq \/ (a = work["committer"] /\ ~ToCome("committer", t))
           /\ ppc["client"] \in InDoRecord =>
                a.seq < seq \/ (a = work["client"] /\ ~ToCome("client", t))
    BY Zenon DEF IndInv, SeqInv
  <1>q. ppc["client"] \in {"joining", "finished"} =>
          pending = <<>> /\ ppc["committer"] = "idle" /\ ppc["foreign"] = "idle"
    BY Zenon, <1>i DEF PendingInv, ClientQuiet, CallInv, Finishing
  <1>1. CASE ppc["client"] = "device_push" /\ ev = Event("device", 0, 0)
    BY <1>1, <1>a DEF Before, Carries, Event
  <1>2. CASE ppc["client"] = "kernel_push" /\ tool["client"] = t /\ ev = Event("kernel", kernel, 0)
    <2>1. NotTold(t)
      BY <1>2, <1>t DEF NotTold
    <2>2. ev.kind = "kernel" /\ ev.kernel = kernel /\ ev.seq = 0
      BY Zenon, <1>2 DEF Event
    <2>3. Carries(a) => a.kernel < kernel
      BY Zenon, <2>1, <1>2, <1>k DEF Carries, IsBatch
    <2>4. a.kind # "stop"
      BY Zenon, <1>2, <1>a
    <2> QED
      BY SMTT(30), <2>2, <2>3, <2>4, <1>c, <1>t DEF Before
  <1>3. CASE DispatchMark /\ ev = Head(pending)
    <2>1. pending # <<>> /\ ev.kind = "mark"
      BY Zenon, <1>3 DEF DispatchMark
    <2>2. 1 \in DOMAIN pending /\ ev = pending[1]
      BY Zenon, <1>3, <2>1, TailFacts DEF IndInv, TypeOK
    <2>3. a.kind # "stop"
      BY Zenon, <1>a, <1>q, <2>1
    <2>4. a.seq > 0 => a.seq < ev.seq
      BY Zenon, <1>s, <2>2
    <2> QED
      BY Zenon, <2>1, <2>3, <2>4 DEF Before, Carries
  <1>4. CASE PushTool("committer") /\ tool["committer"] = t /\ ev = work["committer"]
    <2>1. ppc["committer"] = "push"
      BY Zenon, <1>4 DEF PushTool
    <2>2. ToCome("committer", t)
      BY SMTT(30), <2>1, <1>4, <1>t DEF ToCome
    <2>3. a.seq > 0 => a.seq < ev.seq
      BY Zenon, <1>s, <1>4, <2>1, <2>2
    <2>4. a.kind # "stop"
      BY Zenon, <1>a, <1>q, <2>1
    <2>5. IsBatch(ev) /\ ev.kernel = Running /\ ev.kind # "kernel"
      BY Zenon, <1>4, <2>1, <1>i DEF PendingInv, Upstream, IsBatch
    <2>6. ppc["client"] # "kernel_push"
      BY Zenon, <2>1, <1>i DEF PendingInv, ClientQuiet
    <2>7. Carries(a) => a.kernel <= Running
      <3>1. CASE ppc["client"] = "kernel_drain"
        <4>1. NotTold(t)
          BY Zenon, <3>1 DEF NotTold
        <4>2. Carries(a) => a.kernel < kernel
          BY Zenon, <3>1, <4>1, <1>k DEF Carries, IsBatch
        <4> QED
          BY <3>1, <4>2, <1>c, <1>t DEF Running
      <3>2. CASE ppc["client"] # "kernel_drain"
        BY Zenon, <3>2, <1>k DEF Running, Carries, IsBatch
      <3> QED
        BY Zenon, <3>1, <3>2
    <2> QED
      BY Zenon, <2>3, <2>4, <2>5, <2>7 DEF Before
  <1>5. CASE PushTool("client") /\ tool["client"] = t /\ ev = work["client"]
    <2>1. ppc["client"] = "push"
      BY Zenon, <1>5 DEF PushTool
    <2>2. ToCome("client", t)
      BY <2>1, <1>5, <1>t DEF ToCome
    <2>3. ev = Event("record", 0, seq)
      BY Zenon, <1>5, <2>1, <1>i DEF CallInv, InDoRecord
    <2>4. ev.seq = seq /\ ev.kind = "record"
      BY Zenon, <2>3 DEF Event
    <2>5. a.seq > 0 => a.seq < seq
      BY Zenon, <1>s, <2>1, <2>2 DEF InDoRecord
    <2>6. a.kind # "stop"
      BY Zenon, <1>a, <2>1
    <2> QED
      BY Zenon, <2>4, <2>5, <2>6 DEF Before, Carries
  <1>6. CASE PushTool("foreign") /\ ev = work["foreign"]
    <2>1. ppc["foreign"] = "push"
      BY Zenon, <1>6 DEF PushTool
    <2>2. ev = Event("record", 0, 0)
      BY Zenon, <1>6, <2>1, <1>i DEF CallInv, InDoRecord
    <2>3. ev.seq = 0 /\ ev.kind = "record"
      BY Zenon, <2>2 DEF Event
    <2>4. a.kind # "stop"
      BY Zenon, <1>a, <1>q, <2>1
    <2> QED
      BY <2>3, <2>4 DEF Before, Carries
  <1>7. CASE FinishDrained /\ ev = Event("stop", 0, 0)
    <2>1. ppc["client"] = "stop_drain"
      BY Zenon, <1>7 DEF FinishDrained
    <2>2. ev.seq = 0 /\ ev.kind = "stop"
      BY Zenon, <1>7 DEF Event
    <2> QED
      BY <2>1, <2>2, <1>a DEF Before, Carries
  <1> QED
    BY ZenonT(60), <1>1, <1>2, <1>3, <1>4, <1>5, <1>6, <1>7 DEF NewFor, Producers
=============================================================================
