---------------------------- MODULE CheckerProofs ---------------------------
(***************************************************************************)
(* The safety properties of Checker for any number of tools, kernels,      *)
(* submissions and foreign calls, and any window of the pipeline.          *)
(***************************************************************************)
EXTENDS CheckerInvariant

(***************************************************************************)
(* THE QUEUES.                                                             *)
(***************************************************************************)
(* Every step keeps the queues in order.                                   *)
LEMMA OrderStep ==
  ASSUME IndInv, [Next]_vars
  PROVE  OrderInv'
  <1> SUFFICES ASSUME NEW t \in Tools
               PROVE  /\ \A i, j \in DOMAIN queue'[t] : i < j => Before(queue'[t][i], queue'[t][j])
                      /\ cpc'[t] = "consume" => \A i \in DOMAIN queue'[t] : Before(args'[t], queue'[t][i])
    BY Zenon DEF OrderInv, Before, Carries
  <1>t. queue[t] \in Seq(Events) /\ Len(queue[t]) \in Nat /\ DOMAIN queue[t] = 1..Len(queue[t])
    BY DEF IndInv, TypeOK
  <1>o. /\ \A i, j \in DOMAIN queue[t] : i < j => Before(queue[t][i], queue[t][j])
        /\ cpc[t] = "consume" => \A i \in DOMAIN queue[t] : Before(args[t], queue[t][i])
    BY Zenon DEF IndInv, OrderInv
  <1>1. CASE SameLine(t)
    BY Zenon, <1>1, <1>o DEF SameLine, KeepsConsuming
  <1>2. CASE \E e \in Events : Arrives(t, e)
    <2>1. PICK e \in Events : Arrives(t, e)
      BY Zenon, <1>2
    <2>2. queue'[t] = Append(queue[t], e) /\ KeepsConsuming(t) /\ NewFor(t, e)
      BY Zenon, <2>1 DEF Arrives
    <2>3. /\ DOMAIN queue'[t] = 1..(Len(queue[t]) + 1)
          /\ \A i \in 1..Len(queue[t]) : queue'[t][i] = queue[t][i]
          /\ queue'[t][Len(queue[t]) + 1] = e
      BY <2>2, <1>t, AppendFacts
    <2>4. \A a \in Unprocessed(t) : Before(a, e)
      BY Zenon, <2>2, NewIsLast
    <2>5. \A i \in DOMAIN queue[t] : queue[t][i] \in Unprocessed(t)
      BY Zenon DEF Unprocessed
    <2>6. ASSUME NEW i \in DOMAIN queue'[t], NEW j \in DOMAIN queue'[t], i < j
          PROVE  Before(queue'[t][i], queue'[t][j])
      <3>1. i \in DOMAIN queue[t] /\ queue'[t][i] = queue[t][i]
        BY SMTT(30), <2>3, <2>6, <1>t
      <3>2. CASE j = Len(queue[t]) + 1
        BY Zenon, <3>1, <3>2, <2>3, <2>4, <2>5
      <3>3. CASE j # Len(queue[t]) + 1
        <4>1. j \in DOMAIN queue[t] /\ queue'[t][j] = queue[t][j]
          BY SMTT(30), <3>3, <2>3, <1>t
        <4> QED
          BY Zenon, <3>1, <4>1, <2>6, <1>o
      <3> QED
        BY Zenon, <3>2, <3>3
    <2>7. ASSUME cpc'[t] = "consume", NEW i \in DOMAIN queue'[t] PROVE Before(args'[t], queue'[t][i])
      <3>1. cpc[t] = "consume" /\ args'[t] = args[t]
        BY Zenon, <2>2, <2>7 DEF KeepsConsuming
      <3>2. CASE i = Len(queue[t]) + 1
        BY Zenon, <3>1, <3>2, <2>3, <2>4 DEF Unprocessed
      <3>3. CASE i # Len(queue[t]) + 1
        <4>1. i \in DOMAIN queue[t] /\ queue'[t][i] = queue[t][i]
          BY <3>3, <2>3, <1>t
        <4> QED
          BY Zenon, <3>1, <4>1, <1>o
      <3> QED
        BY Zenon, <3>2, <3>3
    <2> QED
      BY Zenon, <2>6, <2>7
  <1>3. CASE Taken(t)
    <2>1. queue[t] # <<>> /\ queue'[t] = Tail(queue[t]) /\ args'[t] = Head(queue[t])
      BY Zenon, <1>3 DEF Taken
    <2>2. /\ Head(queue[t]) = queue[t][1] /\ DOMAIN queue'[t] = 1..(Len(queue[t]) - 1) /\ 1 \in DOMAIN queue[t]
          /\ \A i \in 1..(Len(queue[t]) - 1) : queue'[t][i] = queue[t][i + 1]
      BY <2>1, <1>t, TailFacts
    <2>3. \A i \in DOMAIN queue'[t] : i \in Nat /\ 1 < i + 1 /\ i + 1 \in DOMAIN queue[t] /\ queue'[t][i] = queue[t][i + 1]
      BY <2>2, <1>t
    <2>4. ASSUME NEW i \in DOMAIN queue'[t], NEW j \in DOMAIN queue'[t], i < j
          PROVE  Before(queue'[t][i], queue'[t][j])
      <3>1. i + 1 < j + 1
        BY <2>3, <2>4
      <3> QED
        BY Zenon, <3>1, <2>3, <1>o
    <2>5. \A i \in DOMAIN queue'[t] : Before(args'[t], queue'[t][i])
      BY Zenon, <2>1, <2>2, <2>3, <1>o
    <2> QED
      BY Zenon, <2>4, <2>5
  <1>4. CASE Handled(t)
    BY Zenon, <1>4, <1>o DEF Handled
  <1>5. CASE Killed(t)
    BY Zenon, <1>5, <1>o DEF Killed
  <1>6. CASE Stopped(t)
    BY <1>6 DEF Stopped
  <1> QED
    BY Zenon, <1>1, <1>2, <1>3, <1>4, <1>5, <1>6, LineStep

(* How the producers and the client move on. *)
LEMMA Progress ==
  ASSUME IndInv, [Next]_vars
  PROVE  /\ seq' \in {seq, seq + 1}
         /\ \A i \in DOMAIN pending' : \/ \E j \in DOMAIN pending : pending'[i] = pending[j]
                                       \/ seq' = seq + 1 /\ pending'[i].seq = seq + 1
         /\ ppc'["committer"] # "idle" =>
              \/ /\ ppc["committer"] # "idle" /\ work'["committer"] = work["committer"]
                 /\ \A t \in Tools : ToCome("committer", t)' => ToCome("committer", t)
              \/ \E j \in DOMAIN pending : work'["committer"] = pending[j]
         /\ ppc'["client"] \in InDoRecord =>
              \/ /\ ppc["client"] \in InDoRecord /\ work'["client"] = work["client"] /\ seq' = seq
                 /\ \A t \in Tools : ToCome("client", t)' => ToCome("client", t)
              \/ seq' = seq + 1
  <1>t. /\ ppc \in [Producers -> ProducerPcs] /\ work \in [Producers -> Events]
        /\ tool \in [Producers -> 1..(ToolNum + 1)] /\ seq \in Nat /\ ToolNum \in Nat
    BY CheckerAssumption DEF IndInv, TypeOK
  <1>c. CallInv
    BY Zenon DEF IndInv
  <1> DEFINE Com == ppc'["committer"] # "idle" =>
                      \/ /\ ppc["committer"] # "idle" /\ work'["committer"] = work["committer"]
                         /\ \A t \in Tools : ToCome("committer", t)' => ToCome("committer", t)
                      \/ \E j \in DOMAIN pending : work'["committer"] = pending[j]
             Cli == ppc'["client"] \in InDoRecord =>
                      \/ /\ ppc["client"] \in InDoRecord /\ work'["client"] = work["client"] /\ seq' = seq
                         /\ \A t \in Tools : ToCome("client", t)' => ToCome("client", t)
                      \/ seq' = seq + 1
             Pen == \A i \in DOMAIN pending' : \/ \E j \in DOMAIN pending : pending'[i] = pending[j]
                                               \/ seq' = seq + 1 /\ pending'[i].seq = seq + 1
  <1>f. ASSUME NEW p \in {"client", "committer"}, ppc'[p] = ppc[p], work'[p] = work[p], tool'[p] = tool[p]
        PROVE  (ppc'[p] # "idle" => work'[p] = work[p]) /\ \A t \in Tools : ToCome(p, t)' => ToCome(p, t)
    BY Zenon, <1>f DEF ToCome
  <1>g. ASSUME ppc'["committer"] = ppc["committer"], work'["committer"] = work["committer"],
               tool'["committer"] = tool["committer"]
        PROVE  Com
    BY Zenon, <1>g, <1>f
  <1>h. ASSUME ppc'["client"] = ppc["client"], work'["client"] = work["client"],
               tool'["client"] = tool["client"], seq' \in {seq, seq + 1}
        PROVE  Cli
    BY Zenon, <1>h, <1>f
  <1>p. ASSUME pending' = pending PROVE Pen
    BY Zenon, <1>p
  <1>a. ASSUME pending # <<>>, pending' = Tail(pending) PROVE Pen /\ 1 \in DOMAIN pending /\ Head(pending) = pending[1]
    <2>1. /\ DOMAIN pending' = 1..(Len(pending) - 1) /\ DOMAIN pending = 1..Len(pending) /\ Len(pending) \in Nat
          /\ \A i \in 1..(Len(pending) - 1) : pending'[i] = pending[i + 1]
          /\ 1 \in DOMAIN pending /\ Head(pending) = pending[1]
      BY Zenon, <1>a, TailFacts DEF IndInv, TypeOK
    <2>2. \A i \in DOMAIN pending' : i + 1 \in DOMAIN pending /\ pending'[i] = pending[i + 1]
      BY <2>1
    <2> QED
      BY Zenon, <2>1, <2>2
  <1>q. ASSUME NEW e \in Events, pending' = Append(pending, e), e.seq = seq + 1, seq' = seq + 1 PROVE Pen
    <2>1. /\ DOMAIN pending' = 1..(Len(pending) + 1) /\ DOMAIN pending = 1..Len(pending) /\ Len(pending) \in Nat
          /\ \A i \in 1..Len(pending) : pending'[i] = pending[i]
          /\ pending'[Len(pending) + 1] = e
      BY <1>q, AppendFacts DEF IndInv, TypeOK
    <2> QED
      BY <2>1, <1>q
  <1>b. ASSUME Budget(1) PROVE seq + 1 \in 0..MaxWork
    <2>1. foreignSeq \in Nat /\ kernel \in Nat /\ MaxWork \in Nat
      BY CheckerAssumption DEF IndInv, TypeOK
    <2> QED
      BY <2>1, <1>b, <1>t DEF Budget
  <1> HIDE DEF Com, Cli, Pen
  <1> SUFFICES seq' \in {seq, seq + 1} /\ Pen /\ Com /\ Cli
    BY Zenon DEF Com, Cli, Pen
  <1>1. CASE CallSetInfo \/ SetInfoDrained \/ CallFinish \/ FinishDrained \/ FinishJoined \/ DoBatchReturns
    <2>1. /\ UNCHANGED <<pending, seq, work>>
          /\ ppc'["committer"] = ppc["committer"] /\ tool'["committer"] = tool["committer"]
          /\ ppc'["client"] \notin InDoRecord
      BY Zenon, <1>1, <1>t DEF CallSetInfo, SetInfoDrained, CallFinish, FinishDrained, FinishJoined, DoBatchReturns,
                        Goto, FromTool, InDoRecord, Producers, pipeline, client
    <2> QED
      BY Zenon, <2>1, <1>g, <1>p DEF Cli
  <1>2. CASE SetInfoTool \/ SetInfoReturns
    <2>1. /\ UNCHANGED <<pending, seq>> /\ work'["committer"] = work["committer"]
          /\ ppc'["committer"] = ppc["committer"] /\ tool'["committer"] = tool["committer"]
          /\ ppc'["client"] \notin InDoRecord
      BY Zenon, <1>2, <1>t DEF SetInfoTool, SetInfoReturns, Return, Goto, FromTool, InDoRecord, Producers, pipeline, client
    <2> QED
      BY Zenon, <2>1, <1>g, <1>p DEF Cli
  <1>3. ASSUME NEW kind \in {"block", "finish"}, DoBatch(kind) PROVE seq' \in {seq, seq + 1} /\ Pen /\ Com /\ Cli
    <2>1. /\ pending' = Append(pending, Event(kind, kernel, seq + 1)) /\ seq' = seq + 1
          /\ UNCHANGED <<work, tool>> /\ ppc'["committer"] = ppc["committer"] /\ Budget(1)
      BY Zenon, <1>3, <1>t DEF DoBatch, Submit, Goto, Producers
    <2>2. Event(kind, kernel, seq + 1) \in Events /\ Event(kind, kernel, seq + 1).seq = seq + 1
      BY <2>1, <1>b, EventType DEF IndInv, TypeOK, Kinds
    <2> QED
      BY Zenon, <2>1, <2>2, <1>g, <1>q DEF Cli
  <1>4. CASE CaptureMemcheckCompletion
    <2>1. /\ pending' = Append(pending, Event("mark", 0, seq + 1)) /\ seq' = seq + 1
          /\ UNCHANGED <<work, tool, ppc>> /\ Budget(1)
      BY Zenon, <1>4 DEF CaptureMemcheckCompletion, Submit, producer
    <2>2. Event("mark", 0, seq + 1) \in Events /\ Event("mark", 0, seq + 1).seq = seq + 1
      BY <2>1, <1>b, EventType, CheckerAssumption DEF Kinds
    <2> QED
      BY Zenon, <2>1, <2>2, <1>g, <1>q DEF Cli
  <1>5. ASSUME NEW p \in {"client", "foreign"}, DoRecord(p) PROVE seq' \in {seq, seq + 1} /\ Pen /\ Com /\ Cli
    <2>1. /\ ppc' = [ppc EXCEPT ![p] = "record_drain"] /\ UNCHANGED <<pending, tool>>
          /\ \E e : work' = [work EXCEPT ![p] = e]
          /\ p = "client" => seq' = seq + 1
          /\ p = "foreign" => seq' = seq
      BY Zenon, <1>5 DEF DoRecord, Goto, pipeline
    <2>2. ppc'["committer"] = ppc["committer"] /\ work'["committer"] = work["committer"]
      BY Zenon, <2>1, <1>t DEF Producers
    <2>3. p = "foreign" => ppc'["client"] = ppc["client"] /\ work'["client"] = work["client"]
      BY Zenon, <2>1, <1>t DEF Producers
    <2> QED
      BY Zenon, <2>1, <2>2, <2>3, <1>g, <1>h, <1>p DEF Cli
  <1>6. ASSUME NEW p \in {"client", "foreign"}, RecordDrained(p) PROVE seq' \in {seq, seq + 1} /\ Pen /\ Com /\ Cli
    <2>1. /\ ppc[p] = "record_drain" /\ UNCHANGED <<pending, seq>>
          /\ \/ /\ ppc' = [ppc EXCEPT ![p] = "idle"] /\ work' = [work EXCEPT ![p] = Nothing]
                /\ tool' = [tool EXCEPT ![p] = 1]
             \/ ppc' = [ppc EXCEPT ![p] = "lower"] /\ UNCHANGED <<work, tool>>
      BY Zenon, <1>6 DEF RecordDrained, Return, Goto, FromTool, pipeline, client
    <2>2. /\ ppc'["committer"] = ppc["committer"] /\ work'["committer"] = work["committer"]
          /\ tool'["committer"] = tool["committer"]
      BY Zenon, <2>1, <1>t DEF Producers
    <2>3. p = "foreign" => /\ ppc'["client"] = ppc["client"] /\ work'["client"] = work["client"]
                           /\ tool'["client"] = tool["client"]
      BY Zenon, <2>1, <1>t DEF Producers
    <2>4. p = "client" => /\ ppc["client"] = "record_drain"
                          /\ ppc'["client"] = "idle" \/ (ppc'["client"] = "lower" /\ work' = work)
      BY Zenon, <2>1, <1>t DEF Producers
    <2>5. p = "client" => Cli
      BY Zenon, <2>1, <2>4 DEF Cli, InDoRecord, ToCome
    <2> QED
      BY Zenon, <2>1, <2>2, <2>3, <2>5, <1>g, <1>h, <1>p
  <1>7. CASE CommitterFails \/ DispatchMark
    <2>1. pending # <<>> /\ pending' = Tail(pending) /\ UNCHANGED <<seq, ppc, work, tool>>
      BY Zenon, <1>7 DEF CommitterFails, DispatchMark, producer, client
    <2> QED
      BY Zenon, <2>1, <1>a, <1>g, <1>h
  <1>8. CASE CommitterTakes
    <2>1. /\ pending # <<>> /\ pending' = Tail(pending) /\ UNCHANGED <<seq, tool>>
          /\ ppc'["client"] = ppc["client"] /\ work'["client"] = work["client"]
          /\ work'["committer"] = Head(pending)
      BY Zenon, <1>8, <1>t DEF CommitterTakes, client, Goto, Producers
    <2>2. Com
      BY Zenon, <2>1, <1>a DEF Com
    <2> QED
      BY Zenon, <2>1, <2>2, <1>a, <1>h
  <1>9. ASSUME NEW p \in Producers, LowerFinishProduce(p) PROVE seq' \in {seq, seq + 1} /\ Pen /\ Com /\ Cli
    <2>1. /\ ppc[p] = "lower" /\ ppc' = [ppc EXCEPT ![p] = "push"] /\ tool' = [tool EXCEPT ![p] = 1]
          /\ UNCHANGED <<pending, seq, work>>
      BY Zenon, <1>9 DEF LowerFinishProduce, Goto, FromTool, pipeline, client
    <2>2. ASSUME NEW q \in Producers, q # p PROVE ppc'[q] = ppc[q] /\ tool'[q] = tool[q]
      BY Zenon, <2>1, <2>2, <1>t
    <2>3. p = "committer" => Com
      BY Zenon, <2>1 DEF Com, ToCome
    <2>4. p = "client" => Cli
      BY Zenon, <2>1 DEF Cli, ToCome, InDoRecord
    <2> QED
      BY Zenon, <2>1, <2>2, <2>3, <2>4, <1>g, <1>h, <1>p DEF Producers
  <1>10. ASSUME NEW p \in Producers, PushTool(p) \/ AwaitTool(p) PROVE seq' \in {seq, seq + 1} /\ Pen /\ Com /\ Cli
    <2>1. tool' = [tool EXCEPT ![p] = tool[p] + 1] /\ UNCHANGED <<pending, seq, work, ppc>>
      BY Zenon, <1>10 DEF PushTool, AwaitTool, FromTool, pipeline, client
    <2>2. \A q \in Producers : tool'[q] >= tool[q] /\ tool'[q] \in Nat /\ tool[q] \in Nat
      BY <2>1, <1>t
    <2>3. \A q \in Producers, t \in Tools : ToCome(q, t)' => ToCome(q, t)
      BY <2>1, <2>2, <1>t DEF ToCome, Tools
    <2>4. Com
      BY Zenon, <2>1, <2>3 DEF Com, Producers
    <2>5. Cli
      BY Zenon, <2>1, <2>3 DEF Cli, Producers
    <2> QED
      BY Zenon, <2>1, <2>4, <2>5, <1>p
  <1>11. ASSUME NEW p \in Producers, Pushed(p) \/ DisplaySanitizerEnd(p) PROVE seq' \in {seq, seq + 1} /\ Pen /\ Com /\ Cli
    <2>1. /\ ppc[p] \in {"push", "await"} /\ UNCHANGED <<pending, seq>>
          /\ \E l \in {"await", "idle"} : ppc' = [ppc EXCEPT ![p] = l]
          /\ tool' = [tool EXCEPT ![p] = 1]
          /\ work' = work \/ work' = [work EXCEPT ![p] = Nothing]
          /\ ppc' = [ppc EXCEPT ![p] = "await"] => work' = work
      <3>1. CASE Pushed(p) /\ work[p].kind = "finish"
        BY Zenon, <3>1 DEF Pushed, Return, Goto, FromTool, pipeline, client
      <3>2. CASE (Pushed(p) /\ work[p].kind # "finish") \/ DisplaySanitizerEnd(p)
        <4>1. /\ ppc' = [ppc EXCEPT ![p] = "idle"] /\ tool' = [tool EXCEPT ![p] = 1]
              /\ work' = [work EXCEPT ![p] = Nothing] /\ UNCHANGED <<pending, seq>>
              /\ ppc[p] \in {"push", "await"}
          BY Zenon, <3>2 DEF Pushed, DisplaySanitizerEnd, Return, Goto, FromTool, pipeline, client
        <4>2. ppc' # [ppc EXCEPT ![p] = "await"]
          BY Zenon, <4>1, <1>t
        <4> QED
          BY Zenon, <4>1, <4>2
      <3> QED
        BY Zenon, <1>11, <3>1, <3>2
    <2>2. ASSUME NEW q \in Producers, q # p PROVE ppc'[q] = ppc[q] /\ tool'[q] = tool[q] /\ work'[q] = work[q]
      BY Zenon, <2>1, <2>2, <1>t
    <2>3. ppc'[p] = "idle" \/ (ppc'[p] = "await" /\ work' = work)
      BY Zenon, <2>1, <1>t
    <2>4. p = "committer" => Com
      BY Zenon, <2>1, <2>3 DEF Com, ToCome
    <2>5. p = "client" => Cli
      BY Zenon, <2>3 DEF Cli, InDoRecord
    <2> QED
      BY Zenon, <2>1, <2>2, <2>4, <2>5, <1>g, <1>h, <1>p DEF Producers
  <1>12. CASE ConsumerActs \/ UNCHANGED vars
    <2>1. UNCHANGED <<pending, seq, ppc, work, tool>>
      BY Zenon, <1>12, ConsumerFrame DEF vars, pipeline, client, producer
    <2> QED
      BY Zenon, <2>1, <1>g, <1>h, <1>p
  <1> QED
    BY Zenon, <1>1, <1>2, <1>3, <1>4, <1>5, <1>6, <1>7, <1>8, <1>9, <1>10, <1>11, <1>12, Steps

(* What arrives is numbered like the submission it is, or has no number. *)
LEMMA NewNumber ==
  ASSUME IndInv, [Next]_vars, NEW t \in Tools, NEW ev \in Events, NewFor(t, ev)
  PROVE  \/ ev.seq = 0 /\ ev.kind \notin {"mark", "block", "finish"}
         \/ /\ DispatchMark /\ t = Memcheck /\ ev = Head(pending) /\ ev.kind = "mark"
            /\ ppc["committer"] = "idle" /\ ppc' = ppc /\ seq' = seq
         \/ /\ ppc["committer"] = "push" /\ tool["committer"] = t /\ ev = work["committer"] /\ IsBatch(ev)
            /\ ~NeedFilter(t, ev) /\ ~done_'[t] /\ PushTool("committer")
            /\ tool'["committer"] = t + 1
            /\ UNCHANGED <<ppc, work, seq, pending, kernel, isKernelWithDBI_>>
         \/ /\ ppc["client"] = "push" /\ ev = work["client"] /\ ev = Event("record", 0, seq)
            /\ tool'["client"] = t + 1 /\ UNCHANGED <<ppc, work, seq, pending>>
  <1>c. CallInv /\ PendingInv
    BY Zenon DEF IndInv
  <1>1. CASE ev = Event("device", 0, 0) \/ ev = Event("kernel", kernel, 0) \/ ev = Event("stop", 0, 0)
    BY <1>1 DEF Event
  <1>2. CASE DispatchMark /\ t = Memcheck /\ ev = Head(pending)
    BY Zenon, <1>2 DEF DispatchMark, producer, client
  <1>3. ASSUME NEW p \in Producers, PushTool(p), tool[p] = t, ~NeedFilter(t, work[p]), ev = work[p], done_'[t] = FALSE
        PROVE  /\ ppc[p] = "push" /\ tool'[p] = t + 1
               /\ UNCHANGED <<ppc, work, seq, pending, kernel, isKernelWithDBI_>>
    BY Zenon, <1>3 DEF PushTool, FromTool, pipeline, client, tooling, IndInv, TypeOK
  <1>4. ASSUME PushTool("committer"), tool["committer"] = t, ~NeedFilter(t, work["committer"]),
               ev = work["committer"], done_'[t] = FALSE
        PROVE  /\ ppc["committer"] = "push" /\ tool["committer"] = t /\ ev = work["committer"] /\ IsBatch(ev)
               /\ ~NeedFilter(t, ev) /\ ~done_'[t] /\ PushTool("committer")
               /\ tool'["committer"] = t + 1
               /\ UNCHANGED <<ppc, work, seq, pending, kernel, isKernelWithDBI_>>
    <2>1. /\ ppc["committer"] = "push" /\ tool'["committer"] = t + 1
          /\ UNCHANGED <<ppc, work, seq, pending, kernel, isKernelWithDBI_>>
      BY Zenon, <1>3, <1>4 DEF Producers
    <2>2. IsBatch(ev)
      BY Zenon, <2>1, <1>4, <1>c DEF PendingInv
    <2> QED
      BY Zenon, <2>1, <2>2, <1>4
  <1>5. ASSUME NEW p \in {"client", "foreign"}, PushTool(p), tool[p] = t, ~NeedFilter(t, work[p]),
               ev = work[p], done_'[t] = FALSE
        PROVE  \/ ev.seq = 0 /\ ev.kind \notin {"mark", "block", "finish"}
               \/ /\ ppc["client"] = "push" /\ ev = work["client"] /\ ev = Event("record", 0, seq)
                  /\ tool'["client"] = t + 1 /\ UNCHANGED <<ppc, work, seq, pending>>
    <2>1. ppc[p] = "push" /\ tool'[p] = t + 1 /\ UNCHANGED <<ppc, work, seq, pending>>
      BY ZenonT(60), <1>3, <1>5 DEF Producers
    <2>2. ev = Event("record", 0, IF p = "client" THEN seq ELSE 0)
      BY Zenon, <2>1, <1>5, <1>c DEF CallInv, InDoRecord
    <2>3. CASE p = "client"
      BY Zenon, <2>1, <2>2, <2>3, <1>5
    <2>4. CASE p = "foreign"
      BY Zenon, <2>2, <2>4 DEF Event
    <2> QED
      BY Zenon, <2>3, <2>4
  <1> QED
    BY ZenonT(60), <1>1, <1>2, <1>4, <1>5 DEF NewFor, Producers

(* Every step keeps the unprocessed events older than the pipeline.        *)
LEMMA SeqStep ==
  ASSUME IndInv, [Next]_vars
  PROVE  SeqInv'
  <1> SUFFICES ASSUME NEW t \in Tools, NEW ev \in Unprocessed(t)'
               PROVE  /\ ev.kind = "mark" => ev.seq > 0 /\ t = Memcheck
                      /\ ev.seq > 0 =>
                           /\ ev.seq <= seq'
                           /\ \A i \in DOMAIN pending' : ev.seq < pending'[i].seq
                           /\ ppc'["committer"] # "idle" =>
                                ev.seq < work'["committer"].seq \/ (ev = work'["committer"] /\ ~ToCome("committer", t)')
                           /\ ppc'["client"] \in InDoRecord =>
                                ev.seq < seq' \/ (ev = work'["client"] /\ ~ToCome("client", t)')
    BY Zenon DEF SeqInv
  <1>t. /\ seq \in Nat /\ ToolNum \in Nat /\ t \in Nat
    BY CheckerAssumption DEF IndInv, TypeOK, Tools
  <1>e. ev \in Events
    <2>1. TypeOK'
      BY Zenon, TypeStep DEF IndInv
    <2> QED
      BY <2>1 DEF TypeOK, Unprocessed
  <1>n. ev.seq \in Nat
    BY <1>e, EventFields, CheckerAssumption
  <1>c. CallInv /\ PendingInv
    BY Zenon DEF IndInv
  <1>1. CASE ev \in Unprocessed(t)
    <2>1. /\ ev.kind = "mark" => ev.seq > 0 /\ t = Memcheck
          /\ ev.seq > 0 =>
               /\ ev.seq <= seq
               /\ \A i \in DOMAIN pending : ev.seq < pending[i].seq
               /\ ppc["committer"] # "idle" =>
                    ev.seq < work["committer"].seq \/ (ev = work["committer"] /\ ~ToCome("committer", t))
               /\ ppc["client"] \in InDoRecord =>
                    ev.seq < seq \/ (ev = work["client"] /\ ~ToCome("client", t))
      BY Zenon, <1>1 DEF IndInv, SeqInv
    <2> SUFFICES ASSUME ev.seq > 0
                 PROVE  /\ ev.seq <= seq'
                        /\ \A i \in DOMAIN pending' : ev.seq < pending'[i].seq
                        /\ ppc'["committer"] # "idle" =>
                             ev.seq < work'["committer"].seq \/ (ev = work'["committer"] /\ ~ToCome("committer", t)')
                        /\ ppc'["client"] \in InDoRecord =>
                             ev.seq < seq' \/ (ev = work'["client"] /\ ~ToCome("client", t)')
      BY Zenon, <2>1
    <2>2. ev.seq <= seq'
      BY <2>1, Progress, <1>t, <1>n
    <2>3. \A i \in DOMAIN pending' : ev.seq < pending'[i].seq
      <3>1. \A i \in DOMAIN pending' : \/ \E j \in DOMAIN pending : pending'[i] = pending[j]
                                       \/ pending'[i].seq = seq + 1
        BY Zenon, Progress
      <3>2. ev.seq < seq + 1
        BY SMTT(30), <2>1, <1>t, <1>n
      <3> QED
        BY Zenon, <3>1, <3>2, <2>1
    <2>4. ppc'["committer"] # "idle" =>
             ev.seq < work'["committer"].seq \/ (ev = work'["committer"] /\ ~ToCome("committer", t)')
      BY Zenon, <2>1, Progress
    <2>5. ppc'["client"] \in InDoRecord =>
             ev.seq < seq' \/ (ev = work'["client"] /\ ~ToCome("client", t)')
      <3>1. ev.seq < seq + 1
        BY <2>1, <1>t, <1>n
      <3> QED
        BY Zenon, <3>1, <2>1, Progress
    <2> QED
      BY Zenon, <2>2, <2>3, <2>4, <2>5
  <1>2. CASE NewFor(t, ev)
    <2>1. CASE ev.seq = 0 /\ ev.kind \notin {"mark", "block", "finish"}
      BY <2>1
    <2>2. CASE /\ DispatchMark /\ t = Memcheck /\ ev = Head(pending) /\ ev.kind = "mark"
               /\ ppc["committer"] = "idle" /\ ppc' = ppc /\ seq' = seq
      <3>1. pending # <<>> /\ pending' = Tail(pending)
        BY Zenon, <2>2 DEF DispatchMark
      <3>2. /\ Head(pending) = pending[1] /\ 1 \in DOMAIN pending
            /\ DOMAIN pending' = 1..(Len(pending) - 1) /\ DOMAIN pending = 1..Len(pending) /\ Len(pending) \in Nat
            /\ \A i \in 1..(Len(pending) - 1) : pending'[i] = pending[i + 1]
        BY Zenon, <3>1, TailFacts DEF IndInv, TypeOK
      <3>3. ev.seq \in 1..seq
        BY Zenon, <2>2, <3>2, <1>c DEF PendingInv
      <3>4. ASSUME NEW i \in DOMAIN pending' PROVE ev.seq < pending'[i].seq
        <4>1. i + 1 \in DOMAIN pending /\ 1 < i + 1 /\ pending'[i] = pending[i + 1]
          BY <3>2
        <4> QED
          BY Zenon, <4>1, <2>2, <3>2, <1>c DEF PendingInv
      <3>5. ppc["client"] \in InDoRecord => ev.seq < seq
        <4>1. ev \in Upstream
          BY Zenon, <2>2, <3>2 DEF Upstream
        <4> QED
          BY Zenon, <4>1, <1>c DEF PendingInv
      <3> QED
        BY <2>2, <3>3, <3>4, <3>5, <1>t
    <2>3. CASE /\ ppc["committer"] = "push" /\ tool["committer"] = t /\ ev = work["committer"] /\ IsBatch(ev)
               /\ tool'["committer"] = t + 1 /\ UNCHANGED <<ppc, work, seq, pending, kernel, isKernelWithDBI_>>
      <3>1. /\ ev.seq \in 1..seq /\ \A i \in DOMAIN pending : ev.seq < pending[i].seq
        BY Zenon, <2>3, <1>c DEF PendingInv
      <3>2. ppc["client"] \in InDoRecord => ev.seq < seq
        <4>1. ev \in Upstream
          BY Zenon, <2>3 DEF Upstream
        <4> QED
          BY Zenon, <4>1, <1>c DEF PendingInv
      <3>3. ~ToCome("committer", t)'
        BY <2>3, <1>t DEF ToCome
      <3>4. ev.kind # "mark"
        BY Zenon, <2>3 DEF IsBatch
      <3> QED
        BY SMTT(30), <2>3, <3>1, <3>2, <3>3, <3>4, <1>t
    <2>4. CASE /\ ppc["client"] = "push" /\ ev = work["client"] /\ ev = Event("record", 0, seq)
               /\ tool'["client"] = t + 1 /\ UNCHANGED <<ppc, work, seq, pending>>
      <3>1. ev.kind = "record" /\ ev.seq = seq
        BY <2>4 DEF Event
      <3>2. pending = <<>> /\ ppc["committer"] = "idle"
        BY Zenon, <2>4, <1>c DEF PendingInv, ClientQuiet
      <3>3. ~ToCome("client", t)'
        BY <2>4, <1>t DEF ToCome
      <3>4. \A i \in DOMAIN pending' : ev.seq < pending'[i].seq
        BY <2>4, <3>2
      <3>5. ppc'["committer"] = "idle" /\ ev.kind # "mark" /\ ev.seq <= seq' /\ ev = work'["client"]
        <4>1. ppc' = ppc /\ work' = work /\ seq' = seq
          BY Zenon, <2>4
        <4>2. seq <= seq
          BY <1>t
        <4> QED
          BY Zenon, <4>1, <4>2, <2>4, <3>1, <3>2
      <3> QED
        BY Zenon, <3>3, <3>4, <3>5
    <2> QED
      BY ZenonT(60), <1>2, <1>e, <2>1, <2>2, <2>3, <2>4, NewNumber
  <1> QED
    BY Zenon, <1>1, <1>2, Arrivals

(* A mark becomes ready when memcheck handles it, and only then.           *)
LEMMA ReadyStep ==
  ASSUME [Next]_vars
  PROVE  \/ ready' = ready
         \/ \E t \in Tools : HandleContext(t) /\ args[t].kind = "mark" /\ ready' = ready \cup {args[t].seq}
  <1>1. CASE ConsumerActs
    <2>1. PICK t \in Tools : ConsumerStep(t) \/ SpuriousWake(t)
      BY Zenon, <1>1 DEF ConsumerActs
    <2>2. CASE HandleContext(t)
      BY ZenonT(60), <2>2 DEF HandleContext
    <2>3. CASE ~HandleContext(t)
      BY Zenon, <2>1, <2>3 DEF ConsumerStep, TakeUnlocked, TakeLocked, GoForLock, Sleep, SpuriousWake, Consume,
                        CheckFinishProduce, WaitAfterConsumed, Stop, history
    <2> QED
      BY Zenon, <2>2, <2>3
  <1>2. CASE CallSetInfo \/ SetInfoDrained \/ SetInfoTool \/ SetInfoReturns \/ \E kind \in {"block", "finish"} : DoBatch(kind)
    BY Zenon, <1>2 DEF CallSetInfo, SetInfoDrained, SetInfoTool, SetInfoReturns, DoBatch, history
  <1>3. CASE DoBatchReturns \/ CaptureMemcheckCompletion \/ CallFinish \/ FinishDrained \/ FinishJoined
    BY ZenonT(60), <1>3 DEF DoBatchReturns, CaptureMemcheckCompletion, CallFinish, FinishDrained, FinishJoined, history
  <1>4. CASE \/ \E p \in {"client", "foreign"} : DoRecord(p) \/ RecordDrained(p)
             \/ CommitterFails \/ DispatchMark \/ CommitterTakes
    BY ZenonT(60), <1>4 DEF DoRecord, RecordDrained, CommitterFails, DispatchMark, CommitterTakes, history
  <1>5. CASE \E p \in Producers : \/ LowerFinishProduce(p) \/ PushTool(p) \/ Pushed(p)
                                  \/ AwaitTool(p) \/ DisplaySanitizerEnd(p)
    BY Zenon, <1>5 DEF LowerFinishProduce, PushTool, Pushed, AwaitTool, DisplaySanitizerEnd, history
  <1>6. CASE UNCHANGED vars
    BY Zenon, <1>6 DEF vars, history
  <1> QED
    BY Zenon, <1>1, <1>2, <1>3, <1>4, <1>5, <1>6, Steps

(* Every step keeps the ready marks older than all unprocessed work.       *)
LEMMA MarkStep ==
  ASSUME IndInv, [Next]_vars
  PROVE  MarkInv'
  <1> SUFFICES ASSUME NEW n \in ready'
               PROVE  /\ n <= seq'
                      /\ \A ev \in Unprocessed(Memcheck)' : ev.seq > 0 => n < ev.seq
                      /\ \A e \in Upstream' : n < e.seq
                      /\ ppc'["client"] \in InDoRecord => n < seq'
    BY Zenon DEF MarkInv
  <1>t. seq \in Nat /\ Memcheck \in Tools /\ queue \in [Tools -> Seq(Events)] /\ cpc \in [Tools -> ConsumerPcs]
        /\ args \in [Tools -> Events] /\ n \in Nat
    <2>1. TypeOK'
      BY Zenon, TypeStep DEF IndInv
    <2>2. n \in Nat
      BY <2>1, CheckerAssumption DEF TypeOK
    <2>3. seq \in Nat /\ Memcheck \in Tools
      BY CheckerAssumption DEF IndInv, TypeOK, Tools, Memcheck
    <2> QED
      BY Zenon, <2>2, <2>3 DEF IndInv, TypeOK
  <1>c. CallInv /\ PendingInv
    BY Zenon DEF IndInv
  <1>1. CASE n \in ready
    <2>1. /\ n <= seq
          /\ \A ev \in Unprocessed(Memcheck) : ev.seq > 0 => n < ev.seq
          /\ \A e \in Upstream : n < e.seq
          /\ ppc["client"] \in InDoRecord => n < seq
      BY Zenon, <1>1 DEF IndInv, MarkInv
    <2>2. n < seq + 1 /\ n <= seq'
      BY <2>1, <1>t, Progress
    <2>3. ASSUME NEW ev \in Unprocessed(Memcheck)', ev.seq > 0 PROVE n < ev.seq
      <3>1. CASE ev \in Unprocessed(Memcheck)
        BY Zenon, <3>1, <2>1, <2>3
      <3>2. CASE NewFor(Memcheck, ev) /\ ev \in Events
        <4>1. CASE ev.seq = 0
          BY SMTT(30), <4>1, <2>3
        <4>2. CASE DispatchMark /\ ev = Head(pending)
          <5>1. 1 \in DOMAIN pending /\ ev = pending[1]
            BY Zenon, <4>2, TailFacts DEF DispatchMark, IndInv, TypeOK
          <5> QED
            BY Zenon, <5>1, <2>1 DEF Upstream
        <4>3. CASE ppc["committer"] = "push" /\ ev = work["committer"]
          BY Zenon, <4>3, <2>1 DEF Upstream
        <4>4. CASE ppc["client"] = "push" /\ ev = Event("record", 0, seq)
          BY Zenon, <4>4, <2>1 DEF Event, InDoRecord
        <4> QED
          BY Zenon, <3>2, <4>1, <4>2, <4>3, <4>4, <1>t, NewNumber
      <3> QED
        BY Zenon, <3>1, <3>2, <1>t, Arrivals, <2>3
    <2>4. \A e \in Upstream' : n < e.seq
      <3>1. UpstreamGrows
        BY Zenon, PendingStep
      <3> QED
        BY Zenon, <3>1, <2>1, <2>2 DEF UpstreamGrows
    <2>5. ppc'["client"] \in InDoRecord => n < seq'
      BY Zenon, <2>1, <2>2, Progress
    <2> QED
      BY Zenon, <2>2, <2>3, <2>4, <2>5
  <1>2. CASE n \notin ready
    <2>1. PICK t \in Tools : HandleContext(t) /\ args[t].kind = "mark" /\ n = args[t].seq
      BY Zenon, <1>2, ReadyStep
    <2>2. /\ cpc[t] = "consume" /\ cpc'[t] = "top" /\ UNCHANGED <<queue, pending, ppc, work, seq>>
      BY Zenon, <2>1, <1>t DEF HandleContext, Again, queues, pipeline, producer, client
    <2>3. args[t] \in Unprocessed(t)
      BY Zenon, <2>2 DEF Unprocessed
    <2>4. /\ n > 0 /\ t = Memcheck /\ n <= seq
          /\ \A i \in DOMAIN pending : n < pending[i].seq
          /\ ppc["committer"] # "idle" => n < work["committer"].seq \/ args[t] = work["committer"]
          /\ ppc["client"] \in InDoRecord => n < seq \/ args[t] = work["client"]
      BY Zenon, <2>1, <2>3 DEF IndInv, SeqInv
    <2>5. ppc["committer"] # "idle" => n < work["committer"].seq
      BY Zenon, <2>1, <2>4, <1>c DEF PendingInv, IsBatch
    <2>6. ppc["client"] \in InDoRecord => n < seq
      <3>1. ppc["client"] \in InDoRecord => work["client"].kind = "record"
        BY <1>c DEF CallInv, Event
      <3> QED
        BY Zenon, <3>1, <2>1, <2>4
    <2>7. Upstream' = Upstream
      BY Zenon, <2>2 DEF Upstream
    <2>8. \A e \in Upstream : n < e.seq
      BY Zenon, <2>4, <2>5 DEF Upstream
    <2>9. ASSUME NEW ev \in Unprocessed(Memcheck)', ev.seq > 0 PROVE n < ev.seq
      <3>1. PICK i \in DOMAIN queue[t] : ev = queue[t][i]
        BY ZenonT(60), <2>2, <2>4, <2>9 DEF Unprocessed
      <3>2. Before(args[t], queue[t][i])
        BY Zenon, <2>2 DEF IndInv, OrderInv
      <3> QED
        BY Zenon, <3>1, <3>2, <2>1, <2>4, <2>9 DEF Before
    <2> QED
      BY Zenon, <2>2, <2>4, <2>6, <2>7, <2>8, <2>9
  <1> QED
    BY Zenon, <1>1, <1>2

----------------------------------------------------------------------------
(* Kernels and contexts.                                                   *)

(* How the client moves from kernel to kernel. *)
LEMMA KernelProgress ==
  ASSUME IndInv, [Next]_vars, NEW t \in Tools
  PROVE  /\ \/ /\ kernel' = kernel /\ (NotTold(t)' => NotTold(t))
               /\ ppc'["client"] \in {"kernel_drain", "kernel_push"} => ppc["client"] \in {"kernel_drain", "kernel_push"}
            \/ kernel' = kernel + 1 /\ ppc["client"] = "idle" /\ ppc'["client"] = "kernel_drain" /\ UNCHANGED closed
         /\ \/ Told(t)' = Told(t) /\ sanKernel'[t] = sanKernel[t]
            \/ SetInfoTool /\ ppc["client"] = "kernel_push" /\ tool["client"] = t /\ Told(t)' = kernel /\ sanKernel'[t] = kernel
            \/ firstError_
         /\ \/ isKernelWithDBI_' = isKernelWithDBI_
            \/ ppc["client"] = "kernel_drain" /\ kernel' = kernel
         /\ \/ UNCHANGED closed /\ (ppc["client"] = "finish_drain" => ppc'["client"] = "finish_drain" \/ Drained)
            \/ /\ closed' = closed \cup {kernel} /\ kernel \notin closed /\ ppc["client"] = "idle"
               /\ ppc'["client"] = "finish_drain" /\ Upstream' # {}
               /\ kernel' = kernel
         /\ firstError_ => firstError_'
  <1>t. /\ ppc \in [Producers -> ProducerPcs] /\ tool \in [Producers -> 1..(ToolNum + 1)]
        /\ sanKernel \in [Tools -> 0..MaxKernels]
        /\ kernel \in Nat /\ ToolNum \in Nat /\ t \in Nat /\ 1 <= t /\ t <= ToolNum
    BY SMTT(30), CheckerAssumption DEF IndInv, TypeOK, Tools
  <1>i. ppc["client"] \in ClientPcs
    BY Zenon DEF IndInv, CallInv
  <1> DEFINE Kernels == \/ /\ kernel' = kernel /\ (NotTold(t)' => NotTold(t))
                           /\ ppc'["client"] \in {"kernel_drain", "kernel_push"} => ppc["client"] \in {"kernel_drain", "kernel_push"}
                        \/ kernel' = kernel + 1 /\ ppc["client"] = "idle" /\ ppc'["client"] = "kernel_drain" /\ UNCHANGED closed
             Telling == \/ Told(t)' = Told(t) /\ sanKernel'[t] = sanKernel[t]
                        \/ SetInfoTool /\ ppc["client"] = "kernel_push" /\ tool["client"] = t /\ Told(t)' = kernel /\ sanKernel'[t] = kernel
                        \/ firstError_
             Dbi == \/ isKernelWithDBI_' = isKernelWithDBI_
                    \/ ppc["client"] = "kernel_drain" /\ kernel' = kernel
             Closing == \/ UNCHANGED closed /\ (ppc["client"] = "finish_drain" => ppc'["client"] = "finish_drain" \/ Drained)
                        \/ /\ closed' = closed \cup {kernel} /\ kernel \notin closed /\ ppc["client"] = "idle"
                           /\ ppc'["client"] = "finish_drain" /\ Upstream' # {}
                           /\ kernel' = kernel
  <1>f. ASSUME UNCHANGED <<kernel, sanKernel, isKernelWithDBI_, closed, firstError_>>,
               \/ ppc'["client"] = ppc["client"] /\ tool'["client"] = tool["client"]
               \/ /\ {ppc["client"], ppc'["client"]} \cap {"kernel_drain", "kernel_push"} = {}
                  /\ ppc["client"] = "finish_drain" => ppc'["client"] = "finish_drain" \/ Drained
        PROVE  Kernels /\ Telling /\ Dbi /\ Closing /\ (firstError_ => firstError_')
    <2>1. NotTold(t)' = NotTold(t) /\ Told(t)' = Told(t)
      BY Zenon, <1>f DEF NotTold, Told
    <2> QED
      BY Zenon, <2>1, <1>f
  <1> HIDE DEF Kernels, Telling, Dbi, Closing
  <1> SUFFICES Kernels /\ Telling /\ Dbi /\ Closing /\ (firstError_ => firstError_')
    BY Zenon DEF Kernels, Telling, Dbi, Closing
  <1>1. CASE CallSetInfo
    <2>1. /\ ppc["client"] = "idle" /\ UNCHANGED <<sanKernel, isKernelWithDBI_, closed, firstError_>>
          /\ \/ kernel' = kernel /\ ppc'["client"] = "device_drain"
             \/ kernel' = kernel + 1 /\ ppc'["client"] = "kernel_drain"
      BY Zenon, <1>1, <1>t DEF CallSetInfo, Goto, Producers, tooling, pipeline
    <2>2. CASE kernel' = kernel /\ ppc'["client"] = "device_drain"
      BY Zenon, <2>1, <2>2, <1>f
    <2>3. CASE kernel' = kernel + 1 /\ ppc'["client"] = "kernel_drain"
      <3>1. Told(t)' = kernel /\ Told(t) = kernel
        BY <2>1, <2>3, <1>t DEF Told, NotTold
      <3> QED
        BY Zenon, <2>1, <2>3, <3>1 DEF Kernels, Telling, Dbi, Closing
    <2> QED
      BY Zenon, <2>1, <2>2, <2>3
  <1>2. CASE SetInfoDrained
    <2>0. UNCHANGED <<kernel, sanKernel, closed, firstError_>>
      BY Zenon, <1>2 DEF SetInfoDrained, client, pipeline
    <2>1. CASE ppc["client"] = "device_drain"
      <3>1. ppc'["client"] \in {"idle", "device_push"} /\ isKernelWithDBI_' = isKernelWithDBI_
        BY Zenon, <1>2, <2>1, <1>t DEF SetInfoDrained, Goto, Producers
      <3> QED
        BY Zenon, <2>0, <2>1, <3>1, <1>f
    <2>2. CASE ppc["client"] = "kernel_drain"
      <3>1. \/ firstError_ /\ ppc'["client"] = "idle"
            \/ ~firstError_ /\ ppc'["client"] = "kernel_push" /\ tool'["client"] = 1
        BY Zenon, <1>2, <2>2, <1>t DEF SetInfoDrained, Goto, FromTool, Producers
      <3>2. NotTold(t)
        BY Zenon, <2>2 DEF NotTold
      <3>3. ~firstError_ => NotTold(t)'
        BY Zenon, <3>1, <1>t DEF NotTold
      <3>4. ~firstError_ => Told(t)' = Told(t)
        BY Zenon, <3>2, <3>3, <2>0 DEF Told
      <3> QED
        BY Zenon, <2>0, <2>2, <3>1, <3>2, <3>4 DEF Kernels, Telling, Dbi, Closing
    <2> QED
      BY Zenon, <1>2, <2>1, <2>2 DEF SetInfoDrained
  <1>3. CASE SetInfoTool
    <2>0. /\ UNCHANGED <<kernel, closed, firstError_, isKernelWithDBI_, ppc>> /\ tool["client"] \in Tools
          /\ tool' = [tool EXCEPT !["client"] = tool["client"] + 1]
      BY Zenon, <1>3 DEF SetInfoTool, client, pipeline, FromTool
    <2>1. CASE ppc["client"] = "device_push"
      <3>1. sanKernel' = sanKernel
        BY Zenon, <1>3, <2>1 DEF SetInfoTool
      <3> QED
        BY Zenon, <2>0, <2>1, <3>1, <1>f
    <2>2. CASE ppc["client"] = "kernel_push"
      <3>1. sanKernel' = [sanKernel EXCEPT ![tool["client"]] = kernel]
        BY Zenon, <1>3, <2>2 DEF SetInfoTool
      <3>2. tool'["client"] = tool["client"] + 1 /\ tool["client"] \in Nat
        BY <2>0, <1>t DEF Producers
      <3>3. NotTold(t)' => NotTold(t)
        BY <2>0, <2>2, <3>2, <1>t DEF NotTold
      <3>4. CASE t = tool["client"]
        <4>1. sanKernel'[t] = kernel
          BY Zenon, <3>1, <3>4, <1>t
        <4>2. Told(t)' = kernel
          BY <2>0, <2>2, <3>2, <3>4 DEF Told, NotTold
        <4> QED
          BY Zenon, <1>3, <2>0, <2>2, <3>3, <3>4, <4>1, <4>2 DEF Kernels, Telling, Dbi, Closing
      <3>5. CASE t # tool["client"]
        <4>1. sanKernel'[t] = sanKernel[t]
          BY Zenon, <3>1, <3>5, <1>t
        <4>2. NotTold(t)' = NotTold(t)
          BY SMTT(30), <2>0, <2>2, <3>2, <3>5, <1>t DEF NotTold
        <4>3. Told(t)' = Told(t)
          BY Zenon, <2>0, <4>2 DEF Told
        <4> QED
          BY Zenon, <2>0, <2>2, <3>3, <4>1, <4>3 DEF Kernels, Telling, Dbi, Closing
      <3> QED
        BY Zenon, <3>4, <3>5
    <2> QED
      BY Zenon, <1>3, <2>1, <2>2 DEF SetInfoTool
  <1>4. CASE SetInfoReturns
    <2>1. /\ ppc["client"] \in {"device_push", "kernel_push"} /\ tool["client"] > ToolNum
          /\ UNCHANGED <<kernel, closed, firstError_, isKernelWithDBI_, sanKernel>> /\ ppc'["client"] = "idle"
      BY Zenon, <1>4, <1>t DEF SetInfoReturns, Return, Goto, client, pipeline, tooling, Producers
    <2>2. ~NotTold(t) /\ ~NotTold(t)'
      BY <2>1, <1>t DEF NotTold, Producers
    <2>3. Told(t)' = Told(t)
      BY Zenon, <2>1, <2>2 DEF Told
    <2> QED
      BY Zenon, <2>1, <2>2, <2>3 DEF Kernels, Telling, Dbi, Closing
  <1>5. ASSUME NEW kind \in {"block", "finish"}, DoBatch(kind)
        PROVE  Kernels /\ Telling /\ Dbi /\ Closing /\ (firstError_ => firstError_')
    <2>0. /\ ppc["client"] = "idle" /\ kernel \notin closed
          /\ UNCHANGED <<kernel, firstError_, isKernelWithDBI_, sanKernel, tool>>
          /\ pending' = Append(pending, Event(kind, kernel, seq + 1))
      BY Zenon, <1>5 DEF DoBatch, Submit, tooling
    <2>1. CASE kind = "block"
      <3>1. UNCHANGED <<ppc, closed>>
        BY Zenon, <1>5, <2>1 DEF DoBatch
      <3> QED
        BY Zenon, <2>0, <3>1, <1>f
    <2>2. CASE kind = "finish"
      <3>1. ppc'["client"] = "finish_drain" /\ closed' = closed \cup {kernel}
        BY Zenon, <1>5, <2>2, <1>t DEF DoBatch, Goto, Producers
      <3>2. NotTold(t)' = NotTold(t) /\ Told(t)' = Told(t)
        BY Zenon, <2>0, <3>1 DEF NotTold, Told
      <3>3. Upstream' # {}
        <4>1. ~(\A e \in Upstream' : FALSE)
          <5>1. Len(pending') = Len(pending) + 1 /\ Len(pending) \in Nat /\ DOMAIN pending' = 1..Len(pending')
            <6>1. Event(kind, kernel, seq + 1) \in Events
              <7>1. seq + 1 \in 0..MaxWork
                <8>1. foreignSeq \in Nat /\ seq \in Nat /\ MaxWork \in Nat /\ Budget(1)
                  BY <1>5, CheckerAssumption DEF IndInv, TypeOK, DoBatch
                <8> QED
                  BY SMTT(30), <8>1, <1>t DEF Budget
              <7> QED
                BY <7>1, EventType DEF IndInv, TypeOK, Kinds
            <6> QED
              BY SMTT(30), <2>0, <6>1, AppendFacts DEF IndInv, TypeOK
          <5>2. 1 \in DOMAIN pending'
            BY SMTT(30), <5>1
          <5> QED
            BY Zenon, <5>2 DEF Upstream
        <4> QED
          BY Zenon, <4>1
      <3> QED
        BY Zenon, <2>0, <3>1, <3>2, <3>3 DEF Kernels, Telling, Dbi, Closing
    <2> QED
      BY Zenon, <2>1, <2>2
  <1>6. CASE DoBatchReturns \/ CallFinish \/ FinishDrained \/ FinishJoined
    <2>1. /\ UNCHANGED <<kernel, closed, firstError_, isKernelWithDBI_, sanKernel>>
          /\ ppc["client"] \in {"idle", "finish_drain", "stop_drain", "joining"}
          /\ ppc["client"] = "finish_drain" => Drained
          /\ ppc'["client"] \in {"idle", "stop_drain", "joining", "terminated", "finished"}
      BY Zenon, <1>6, <1>t DEF DoBatchReturns, CallFinish, FinishDrained, FinishJoined, Goto, Producers, client, pipeline, tooling
    <2> QED
      BY Zenon, <2>1, <1>f
  <1>7. CASE CaptureMemcheckCompletion \/ CommitterFails \/ DispatchMark \/ CommitterTakes
    <2>1. /\ UNCHANGED <<kernel, closed, isKernelWithDBI_, sanKernel, tool>>
          /\ firstError_' = firstError_ \/ (CommitterFails /\ firstError_')
          /\ ppc'["client"] = ppc["client"]
      BY Zenon, <1>7, <1>t DEF CaptureMemcheckCompletion, CommitterFails, DispatchMark, CommitterTakes, Goto, Producers,
                        client, pipeline, tooling, producer
    <2>2. NotTold(t)' = NotTold(t) /\ Told(t)' = Told(t)
      BY Zenon, <2>1 DEF NotTold, Told
    <2> QED
      BY SMTT(30), <2>1, <2>2 DEF Kernels, Telling, Dbi, Closing
  <1>8. ASSUME NEW p \in {"client", "foreign"}, DoRecord(p) \/ RecordDrained(p)
        PROVE  Kernels /\ Telling /\ Dbi /\ Closing /\ (firstError_ => firstError_')
    <2>1. /\ UNCHANGED <<kernel, closed, firstError_, isKernelWithDBI_, sanKernel>>
          /\ ppc[p] \in {"idle", "record_drain"}
          /\ \E l \in {"idle", "record_drain", "lower"} : ppc' = [ppc EXCEPT ![p] = l]
          /\ tool' = tool \/ tool' = [tool EXCEPT ![p] = 1]
      BY Zenon, <1>8 DEF DoRecord, RecordDrained, Return, Goto, FromTool, client, pipeline, tooling
    <2>2. \/ p = "foreign" /\ ppc'["client"] = ppc["client"] /\ tool'["client"] = tool["client"]
          \/ p = "client" /\ ppc["client"] \in {"idle", "record_drain"} /\ ppc'["client"] \in {"idle", "record_drain", "lower"}
      BY Zenon, <2>1, <1>t DEF Producers
    <2> QED
      BY Zenon, <2>1, <2>2, <1>f
  <1>9. ASSUME NEW p \in Producers, \/ LowerFinishProduce(p) \/ PushTool(p) \/ Pushed(p)
                                    \/ AwaitTool(p) \/ DisplaySanitizerEnd(p)
        PROVE  Kernels /\ Telling /\ Dbi /\ Closing /\ (firstError_ => firstError_')
    <2>1. /\ UNCHANGED <<kernel, closed, firstError_, isKernelWithDBI_, sanKernel>>
          /\ ppc[p] \in {"lower", "push", "await"}
      BY ZenonT(60), <1>9 DEF LowerFinishProduce, PushTool, Pushed, AwaitTool, DisplaySanitizerEnd, client, pipeline, tooling
    <2>2. /\ ppc' = ppc \/ \E l \in {"push", "await", "idle"} : ppc' = [ppc EXCEPT ![p] = l]
          /\ \E n : tool' = [tool EXCEPT ![p] = n]
      BY Zenon, <1>9 DEF LowerFinishProduce, PushTool, Pushed, AwaitTool, DisplaySanitizerEnd, Return, Goto, FromTool
    <2>3. \/ p # "client" /\ ppc'["client"] = ppc["client"] /\ tool'["client"] = tool["client"]
          \/ p = "client" /\ ppc["client"] \in {"lower", "push", "await"} /\ ppc'["client"] \in {"lower", "push", "await", "idle"}
      BY Zenon, <2>1, <2>2, <1>t DEF Producers
    <2> QED
      BY ZenonT(60), <2>1, <2>3, <1>f
  <1>10. CASE ConsumerActs \/ UNCHANGED vars
    <2>1. UNCHANGED <<kernel, closed, firstError_, isKernelWithDBI_, sanKernel, ppc, tool>>
      BY Zenon, <1>10, ConsumerFrame DEF vars, pipeline, client, producer, tooling
    <2> QED
      BY Zenon, <2>1, <1>f
  <1> QED
    BY ZenonT(30), <1>1, <1>2, <1>3, <1>4, <1>5, <1>6, <1>7, <1>8, <1>9, <1>10, Steps

(* When a consumer's context changes, ... *)
LEMMA CtxStep ==
  ASSUME IndInv, [Next]_vars, NEW t \in Tools
  PROVE  \/ ctxKernel'[t] = ctxKernel[t]
         \/ /\ cpc[t] = "consume" /\ args[t].kind = "kernel" /\ ctxKernel'[t] = args[t].kernel
            /\ cpc'[t] = "top" /\ queue' = queue /\ UNCHANGED <<ppc, tool, kernel>>
  <1>t. /\ ctxKernel \in [Tools -> 0..MaxKernels] /\ cpc \in [Tools -> ConsumerPcs]
    BY Zenon DEF IndInv, TypeOK
  <1>1. CASE ConsumerActs
    <2>1. PICK u \in Tools : ConsumerStep(u) \/ SpuriousWake(u)
      BY Zenon, <1>1 DEF ConsumerActs
    <2>2. CASE HandleContext(u)
      <3>1. /\ cpc[u] = "consume" /\ cpc' = [cpc EXCEPT ![u] = "top"] /\ queue' = queue
            /\ UNCHANGED <<ppc, tool, kernel>>
            /\ \/ ctxKernel' = [ctxKernel EXCEPT ![u] = ctxKernel[u]]
               \/ args[u].kind = "kernel" /\ ctxKernel' = [ctxKernel EXCEPT ![u] = args[u].kernel]
        BY Zenon, <2>2 DEF HandleContext, Again, queues, producer, client
      <3> QED
        BY Zenon, <3>1, <1>t
    <2>3. CASE ~HandleContext(u)
      BY Zenon, <2>1, <2>3 DEF ConsumerStep, TakeUnlocked, TakeLocked, GoForLock, Sleep, SpuriousWake, Consume,
                        CheckFinishProduce, WaitAfterConsumed, Stop
    <2> QED
      BY Zenon, <2>2, <2>3
  <1>2. CASE CallSetInfo \/ SetInfoDrained \/ SetInfoTool \/ SetInfoReturns \/ \E kind \in {"block", "finish"} : DoBatch(kind)
    BY Zenon, <1>2 DEF CallSetInfo, SetInfoDrained, SetInfoTool, SetInfoReturns, DoBatch, consumer
  <1>3. CASE DoBatchReturns \/ CaptureMemcheckCompletion \/ CallFinish \/ FinishDrained \/ FinishJoined
    BY Zenon, <1>3 DEF DoBatchReturns, CaptureMemcheckCompletion, CallFinish, FinishDrained, FinishJoined, consumer
  <1>4. CASE \/ \E p \in {"client", "foreign"} : DoRecord(p) \/ RecordDrained(p)
             \/ CommitterFails \/ DispatchMark \/ CommitterTakes
    BY Zenon, <1>4 DEF DoRecord, RecordDrained, CommitterFails, DispatchMark, CommitterTakes, consumer
  <1>5. CASE \E p \in Producers : \/ LowerFinishProduce(p) \/ PushTool(p) \/ Pushed(p)
                                  \/ AwaitTool(p) \/ DisplaySanitizerEnd(p)
    BY Zenon, <1>5 DEF LowerFinishProduce, PushTool, Pushed, AwaitTool, DisplaySanitizerEnd, consumer
  <1>6. CASE UNCHANGED vars
    BY Zenon, <1>6 DEF vars, consumer
  <1> QED
    BY ZenonT(60), Zenon, <1>1, <1>2, <1>3, <1>4, <1>5, <1>6, Steps

(* ... and when done_[t] is raised. *)
LEMMA DoneRaised ==
  ASSUME IndInv, [Next]_vars, NEW t \in Tools, done_'[t]
  PROVE  done_[t] \/ (queue'[t] = <<>> /\ cpc'[t] # "consume")
  <1>t. /\ done_ \in [Tools -> BOOLEAN] /\ cpc \in [Tools -> ConsumerPcs]
    BY Zenon DEF IndInv, TypeOK
  <1>1. CASE ConsumerActs
    <2>1. PICK u \in Tools : ConsumerStep(u) \/ SpuriousWake(u)
      BY Zenon, <1>1 DEF ConsumerActs
    <2>2. CASE WaitAfterConsumed(u)
      <3>1. /\ done_' = [done_ EXCEPT ![u] = done_[u] \/ queue[u] = <<>>] /\ queue' = queue
            /\ cpc' = [cpc EXCEPT ![u] = "top"]
        BY Zenon, <2>2 DEF WaitAfterConsumed, Again
      <3>2. CASE t # u
        BY Zenon, <3>1, <3>2, <1>t
      <3>3. CASE t = u
        <4>1. done_'[t] = (done_[t] \/ queue[t] = <<>>)
          BY ZenonT(60), <3>1, <3>3, <1>t
        <4>2. cpc'[t] = "top"
          BY Zenon, <3>1, <3>3, <1>t
        <4> QED
          BY Zenon, <4>1, <4>2, <3>1
      <3> QED
        BY Zenon, <3>2, <3>3
    <2>3. CASE ~WaitAfterConsumed(u)
      <3>1. done_' = done_
        BY Zenon, <2>1, <2>3 DEF ConsumerStep, TakeUnlocked, TakeLocked, GoForLock, Sleep, SpuriousWake, Consume,
                          HandleContext, CheckFinishProduce, Stop, queues
      <3> QED
        BY Zenon, <3>1
    <2> QED
      BY Zenon, <2>2, <2>3
  <1>2. CASE CallSetInfo \/ SetInfoDrained \/ SetInfoTool \/ SetInfoReturns \/ \E kind \in {"block", "finish"} : DoBatch(kind)
    BY Zenon, <1>2 DEF CallSetInfo, SetInfoDrained, SetInfoTool, SetInfoReturns, DoBatch, queues
  <1>3. CASE DoBatchReturns \/ CaptureMemcheckCompletion \/ CallFinish \/ FinishDrained \/ FinishJoined
    BY Zenon, <1>3 DEF DoBatchReturns, CaptureMemcheckCompletion, CallFinish, FinishDrained, FinishJoined, queues
  <1>4. CASE \/ \E p \in {"client", "foreign"} : DoRecord(p) \/ RecordDrained(p)
             \/ CommitterFails \/ DispatchMark \/ CommitterTakes
    BY Zenon, <1>4 DEF DoRecord, RecordDrained, CommitterFails, DispatchMark, CommitterTakes, queues
  <1>5. ASSUME NEW p \in Producers, LowerFinishProduce(p) \/ Pushed(p) \/ AwaitTool(p) \/ DisplaySanitizerEnd(p)
        PROVE  done_' = done_
    BY ZenonT(60), Zenon, <1>5 DEF LowerFinishProduce, Pushed, AwaitTool, DisplaySanitizerEnd, queues
  <1>6. ASSUME NEW p \in Producers, PushTool(p) PROVE done_[t]
    <2>1. done_' = done_ \/ done_' = [done_ EXCEPT ![tool[p]] = FALSE]
      BY Zenon, <1>6 DEF PushTool, queues
    <2> QED
      BY Zenon, <2>1, <1>t
  <1>7. CASE UNCHANGED vars
    BY ZenonT(60), Zenon, <1>7 DEF vars, queues
  <1> QED
    BY ZenonT(60), Zenon, <1>1, <1>2, <1>3, <1>4, <1>5, <1>6, <1>7, Steps

(* Only SetInfoTool pushes a kernel, and only Finish STOP. *)
LEMMA NewKernel ==
  ASSUME IndInv, NEW t \in Tools, NEW ev \in Events, NewFor(t, ev)
  PROVE  /\ ev.kind = "kernel" => /\ SetInfoTool /\ ppc["client"] = "kernel_push" /\ tool["client"] = t
                                  /\ ev.kernel = kernel
         /\ ev.kind = "stop" => FinishDrained /\ ~firstError_
  <1>c. CallInv /\ PendingInv
    BY Zenon DEF IndInv
  <1>1. ASSUME NEW p \in Producers, PushTool(p) PROVE work[p].kind \notin {"kernel", "stop"}
    <2>1. ppc[p] = "push"
      BY ZenonT(60), <1>1 DEF PushTool
    <2>2. CASE p = "committer"
      BY Zenon, <2>1, <2>2, <1>c DEF PendingInv, IsBatch
    <2>3. CASE p # "committer"
      BY <2>1, <2>3, <1>c DEF CallInv, InDoRecord, Producers, Event
    <2> QED
      BY Zenon, <2>2, <2>3
  <1>2. DispatchMark => Head(pending).kind = "mark"
    BY Zenon DEF DispatchMark
  <1>3. \A k, n : /\ Event("device", k, n).kind = "device" /\ Event("stop", k, n).kind = "stop"
                  /\ Event("kernel", k, n).kind = "kernel" /\ Event("kernel", k, n).kernel = k
    BY Zenon DEF Event
  <1> QED
    BY <1>1, <1>2, <1>3 DEF NewFor

(* Every step keeps the kernels in their order.                            *)
LEMMA KernelStep ==
  ASSUME IndInv, [Next]_vars
  PROVE  KernelInv'
  <1> SUFFICES ASSUME NEW t \in Tools
               PROVE  /\ ctxKernel'[t] <= kernel' /\ (NotTold(t)' => ctxKernel'[t] < kernel')
                      /\ \A ev \in Unprocessed(t)' :
                           /\ IsBatch(ev) =>
                                /\ ev.kernel <= kernel'
                                /\ ppc'["client"] \in {"kernel_drain", "kernel_push"} => ev.kernel < kernel'
                           /\ ev.kind = "kernel" => /\ ctxKernel'[t] < ev.kernel /\ ev.kernel <= kernel'
                                                    /\ NotTold(t)' => ev.kernel < kernel'
    BY Zenon DEF KernelInv, IsBatch
  <1>t. /\ kernel \in Nat /\ ctxKernel[t] \in Nat /\ args[t] \in Events
        /\ \A ev \in Unprocessed(t)' : ev \in Events /\ ev.kernel \in Nat
    <2>1. TypeOK'
      BY Zenon, TypeStep DEF IndInv
    <2>2. \A ev \in Unprocessed(t)' : ev \in Events
      BY SMTT(30), <2>1 DEF TypeOK, Unprocessed
    <2>3. kernel \in Nat /\ ctxKernel[t] \in Nat /\ args[t] \in Events
      BY SMTT(30), CheckerAssumption DEF IndInv, TypeOK
    <2> QED
      BY <2>2, <2>3, EventFields, CheckerAssumption
  <1>k. \/ /\ kernel' = kernel /\ (NotTold(t)' => NotTold(t))
           /\ ppc'["client"] \in {"kernel_drain", "kernel_push"} => ppc["client"] \in {"kernel_drain", "kernel_push"}
        \/ kernel' = kernel + 1
    BY Zenon, KernelProgress
  <1>i. /\ ctxKernel[t] <= kernel /\ (NotTold(t) => ctxKernel[t] < kernel)
        /\ \A ev \in Unprocessed(t) :
             /\ IsBatch(ev) => /\ ev.kernel <= kernel
                               /\ ppc["client"] \in {"kernel_drain", "kernel_push"} => ev.kernel < kernel
             /\ ev.kind = "kernel" => /\ ctxKernel[t] < ev.kernel /\ ev.kernel <= kernel
                                      /\ NotTold(t) => ev.kernel < kernel
    BY Zenon DEF IndInv, KernelInv
  <1>1. ctxKernel'[t] <= kernel' /\ (NotTold(t)' => ctxKernel'[t] < kernel')
    <2>1. CASE ctxKernel'[t] = ctxKernel[t]
      BY SMTT(30), <2>1, <1>t, <1>k, <1>i
    <2>2. CASE cpc[t] = "consume" /\ args[t].kind = "kernel" /\ ctxKernel'[t] = args[t].kernel
      <3>1. args[t] \in Unprocessed(t)
        BY Zenon, <2>2 DEF Unprocessed
      <3>2. args[t].kernel \in Nat
        BY <1>t, EventFields, CheckerAssumption
      <3> QED
        BY SMTT(30), <2>2, <3>1, <3>2, <1>t, <1>k, <1>i
    <2> QED
      BY Zenon, <2>1, <2>2, CtxStep
  <1>2. ASSUME NEW ev \in Unprocessed(t)', ev \in Unprocessed(t)
        PROVE  /\ IsBatch(ev) => /\ ev.kernel <= kernel'
                                 /\ ppc'["client"] \in {"kernel_drain", "kernel_push"} => ev.kernel < kernel'
               /\ ev.kind = "kernel" => /\ ctxKernel'[t] < ev.kernel /\ ev.kernel <= kernel'
                                        /\ NotTold(t)' => ev.kernel < kernel'
    <2>1. ev.kernel \in Nat
      BY Zenon, <1>2, <1>t
    <2>2. IsBatch(ev) => /\ ev.kernel <= kernel'
                         /\ ppc'["client"] \in {"kernel_drain", "kernel_push"} => ev.kernel < kernel'
      BY SMTT(30), <2>1, <1>2, <1>t, <1>k, <1>i
    <2>3. ev.kind = "kernel" => ev.kernel <= kernel' /\ (NotTold(t)' => ev.kernel < kernel')
      BY SMTT(30), <2>1, <1>2, <1>t, <1>k, <1>i
    <2>4. ev.kind = "kernel" => ctxKernel'[t] < ev.kernel
      <3>1. CASE ctxKernel'[t] = ctxKernel[t]
        BY Zenon, <3>1, <1>2, <1>i
      <3>2. CASE /\ cpc[t] = "consume" /\ args[t].kind = "kernel" /\ ctxKernel'[t] = args[t].kernel
                 /\ cpc'[t] = "top" /\ queue' = queue
        <4>1. PICK i \in DOMAIN queue[t] : ev = queue[t][i]
          BY Zenon, <3>2, <1>2 DEF Unprocessed
        <4>2. Before(args[t], ev)
          BY Zenon, <3>2, <4>1 DEF IndInv, OrderInv
        <4> QED
          BY Zenon, <3>2, <4>2 DEF Before, Carries
      <3> QED
        BY ZenonT(60), <3>1, <3>2, CtxStep
    <2> QED
      BY Zenon, <2>2, <2>3, <2>4
  <1>3. ASSUME NEW ev \in Unprocessed(t)', NewFor(t, ev)
        PROVE  /\ IsBatch(ev) => /\ ev.kernel <= kernel'
                                 /\ ppc'["client"] \in {"kernel_drain", "kernel_push"} => ev.kernel < kernel'
               /\ ev.kind = "kernel" => /\ ctxKernel'[t] < ev.kernel /\ ev.kernel <= kernel'
                                        /\ NotTold(t)' => ev.kernel < kernel'
    <2>0. ev \in Events
      BY Zenon, <1>t, <1>3
    <2>1. CASE IsBatch(ev)
      <3>1. /\ ppc["committer"] = "push" /\ ev = work["committer"]
            /\ ppc' = ppc /\ kernel' = kernel
        BY SMTT(30), <2>0, <2>1, <1>3, NewNumber DEF IsBatch, Event
      <3>2. ev.kernel = Running /\ ppc["client"] # "kernel_push"
        BY Zenon, <2>1, <3>1 DEF IndInv, PendingInv, Upstream, ClientQuiet
      <3>3. ev.kind # "kernel"
        BY Zenon, <2>1 DEF IsBatch
      <3> QED
        BY SMTT(30), <3>1, <3>2, <3>3, <1>t DEF Running
    <2>2. CASE ev.kind = "kernel"
      <3>1. SetInfoTool /\ ppc["client"] = "kernel_push" /\ tool["client"] = t /\ ev.kernel = kernel
        BY Zenon, <2>0, <2>2, <1>3, NewKernel
      <3>2. /\ ctxKernel' = ctxKernel /\ ppc' = ppc /\ kernel' = kernel
            /\ tool' = [tool EXCEPT !["client"] = t + 1]
        BY Zenon, <3>1 DEF SetInfoTool, FromTool, consumer, client
      <3>3. tool["client"] \in Nat /\ tool'["client"] = t + 1 /\ t \in Nat
        BY SMTT(30), <3>1, <3>2, CheckerAssumption DEF IndInv, TypeOK, Producers, Tools
      <3>4. NotTold(t) /\ ~NotTold(t)'
        BY <3>1, <3>2, <3>3 DEF NotTold
      <3>5. ~IsBatch(ev)
        BY Zenon, <2>2 DEF IsBatch
      <3> QED
        BY SMTT(30), <3>1, <3>2, <3>4, <3>5, <1>i, <1>t
    <2> QED
      BY Zenon, <2>1, <2>2
  <1> QED
    BY Zenon, <1>1, <1>2, <1>3, Arrivals

----------------------------------------------------------------------------
(* STOP.                                                                   *)

(* Finish is the last call. *)
LEMMA JoiningStays ==
  ASSUME IndInv, [Next]_vars, ppc["client"] \in {"joining", "finished"}
  PROVE  ppc'["client"] \in {"joining", "finished"}
  <1>t. ppc \in [Producers -> ProducerPcs]
    BY Zenon DEF IndInv, TypeOK
  <1>1. CASE CallSetInfo \/ SetInfoDrained \/ SetInfoTool \/ SetInfoReturns \/ \E kind \in {"block", "finish"} : DoBatch(kind)
    BY Zenon, <1>1 DEF CallSetInfo, SetInfoDrained, SetInfoTool, SetInfoReturns, DoBatch
  <1>2. CASE DoBatchReturns \/ CaptureMemcheckCompletion \/ CallFinish \/ FinishDrained
    BY Zenon, <1>2 DEF DoBatchReturns, CaptureMemcheckCompletion, CallFinish, FinishDrained
  <1>3. CASE FinishJoined
    BY Zenon, <1>3, <1>t DEF FinishJoined, Goto, Producers
  <1>4. ASSUME NEW p \in {"client", "foreign"}, DoRecord(p) \/ RecordDrained(p) PROVE ppc'["client"] = ppc["client"]
    <2>1. ppc[p] \in {"idle", "record_drain"} /\ \E l : ppc' = [ppc EXCEPT ![p] = l]
      BY Zenon, <1>4 DEF DoRecord, RecordDrained, Return, Goto
    <2> QED
      BY Zenon, <2>1, <1>t DEF Producers
  <1>5. CASE CommitterFails \/ DispatchMark \/ CommitterTakes
    BY Zenon, <1>5, <1>t DEF CommitterFails, DispatchMark, CommitterTakes, Goto, Producers, producer
  <1>6. ASSUME NEW p \in Producers, \/ LowerFinishProduce(p) \/ PushTool(p) \/ Pushed(p)
                                    \/ AwaitTool(p) \/ DisplaySanitizerEnd(p)
        PROVE  ppc'["client"] = ppc["client"]
    <2>1. ppc[p] \in {"lower", "push", "await"} /\ (ppc' = ppc \/ \E l : ppc' = [ppc EXCEPT ![p] = l])
      BY Zenon, <1>6 DEF LowerFinishProduce, PushTool, Pushed, AwaitTool, DisplaySanitizerEnd, Return, Goto
    <2> QED
      BY Zenon, <2>1, <1>t DEF Producers
  <1>7. CASE ConsumerActs \/ UNCHANGED vars
    BY Zenon, <1>7, ConsumerFrame DEF vars, producer
  <1> QED
    BY Zenon, <1>1, <1>2, <1>3, <1>4, <1>5, <1>6, <1>7, Steps

(* Once Finish has sent STOP nothing is pushed any more.                   *)
LEMMA NothingNewAfterFinish ==
  ASSUME IndInv, ppc["client"] \in {"joining", "finished"}, NEW t \in Tools, NEW ev
  PROVE  ~NewFor(t, ev)
  <1>1. pending = <<>> /\ ppc["committer"] = "idle" /\ ppc["foreign"] = "idle"
    BY Zenon DEF IndInv, PendingInv, ClientQuiet, CallInv, Finishing
  <1> QED
    BY ZenonT(60), <1>1 DEF NewFor, SetInfoTool, DispatchMark, PushTool, FinishDrained, Producers

(***************************************************************************)
(* STOP.                                                                   *)
(***************************************************************************)
(* Every step keeps STOP the last event of every queue.                    *)
LEMMA StopStep ==
  ASSUME IndInv, [Next]_vars
  PROVE  StopInv'
  <1> SUFFICES ASSUME NEW t \in Tools
               PROVE  /\ cpc'[t] = "gone" => queue'[t] = <<>> /\ ppc'["client"] \in {"joining", "finished"}
                      /\ \A ev \in Unprocessed(t)' : ev.kind = "stop" => ppc'["client"] \in {"joining", "finished"}
    BY Zenon DEF StopInv
  <1>s. /\ cpc[t] = "gone" => queue[t] = <<>> /\ ppc["client"] \in {"joining", "finished"}
        /\ \A ev \in Unprocessed(t) : ev.kind = "stop" => ppc["client"] \in {"joining", "finished"}
    BY Zenon DEF IndInv, StopInv
  <1>1. ASSUME cpc'[t] = "gone" PROVE queue'[t] = <<>> /\ ppc'["client"] \in {"joining", "finished"}
    <2>1. CASE SameLine(t)
      BY Zenon, <2>1, <1>1, <1>s, JoiningStays DEF SameLine, KeepsConsuming
    <2>2. CASE \E ev \in Events : Arrives(t, ev)
      <3>1. cpc[t] = "gone"
        BY Zenon, <2>2, <1>1 DEF Arrives, KeepsConsuming
      <3> QED
        BY Zenon, <2>2, <3>1, <1>s, NothingNewAfterFinish DEF Arrives
    <2>3. CASE Taken(t) \/ Handled(t) \/ Killed(t)
      BY Zenon, <2>3, <1>1 DEF Taken, Handled, Killed
    <2>4. CASE Stopped(t)
      BY Zenon, <2>4, <1>s, JoiningStays DEF Stopped, Unprocessed
    <2> QED
      BY Zenon, <2>1, <2>2, <2>3, <2>4, LineStep
  <1>2. ASSUME NEW ev \in Unprocessed(t)', ev.kind = "stop" PROVE ppc'["client"] \in {"joining", "finished"}
    <2>1. CASE ev \in Unprocessed(t)
      BY Zenon, <2>1, <1>2, <1>s, JoiningStays
    <2>2. CASE NewFor(t, ev) /\ ev \in Events
      <3>1. FinishDrained /\ ~firstError_
        BY Zenon, <2>2, <1>2, NewKernel
      <3> QED
        BY <3>1 DEF FinishDrained, Goto, Producers, IndInv, TypeOK
    <2> QED
      BY Zenon, <2>1, <2>2, Arrivals, <1>2
  <1> QED
    BY Zenon, <1>1, <1>2

----------------------------------------------------------------------------
(* done_ and the wait for the tools.                                       *)

(* AwaitTool passes a tool that has no batch of the kernel left.           *)
LEMMA AwaitStep ==
  ASSUME IndInv, [Next]_vars, NEW t \in Tools, ppc'["committer"] = "await", t < tool'["committer"]
  PROVE  \/ ppc["committer"] = "await" /\ t < tool["committer"]
         \/ /\ ppc["committer"] = "await" /\ (NeedFilter(t, work["committer"]) \/ done_[t])
            /\ UNCHANGED <<queue, cpc, args, kernel>>
  <1>t. /\ ppc \in [Producers -> ProducerPcs] /\ tool \in [Producers -> 1..(ToolNum + 1)]
        /\ ToolNum \in Nat /\ t \in Nat /\ 1 <= t /\ tool["committer"] \in Nat
    BY SMTT(30), CheckerAssumption DEF IndInv, TypeOK, Tools, Producers
  <1>f. ASSUME ppc'["committer"] = ppc["committer"], tool'["committer"] = tool["committer"]
        PROVE  ppc["committer"] = "await" /\ t < tool["committer"]
    BY Zenon, <1>f
  <1>1. CASE CallSetInfo \/ SetInfoDrained \/ SetInfoTool \/ SetInfoReturns \/ \E kind \in {"block", "finish"} : DoBatch(kind)
    BY Zenon, <1>1, <1>t, <1>f DEF CallSetInfo, SetInfoDrained, SetInfoTool, SetInfoReturns, DoBatch, Goto, FromTool, Return, Producers
  <1>2. CASE DoBatchReturns \/ CaptureMemcheckCompletion \/ CallFinish \/ FinishDrained \/ FinishJoined
    BY Zenon, <1>2, <1>t, <1>f DEF DoBatchReturns, CaptureMemcheckCompletion, CallFinish, FinishDrained, FinishJoined, Goto, Producers, producer
  <1>3. CASE \E p \in {"client", "foreign"} : DoRecord(p) \/ RecordDrained(p)
    BY <1>3, <1>t, <1>f DEF DoRecord, RecordDrained, Goto, FromTool, Return, Producers
  <1>4. CASE CommitterFails \/ DispatchMark \/ CommitterTakes
    BY Zenon, <1>4, <1>t, <1>f DEF CommitterFails, DispatchMark, CommitterTakes, Goto, Producers, producer
  <1>5. ASSUME NEW p \in Producers, \/ LowerFinishProduce(p) \/ PushTool(p) \/ Pushed(p)
                                    \/ AwaitTool(p) \/ DisplaySanitizerEnd(p), p # "committer"
        PROVE  ppc["committer"] = "await" /\ t < tool["committer"]
    <2>1. (ppc' = ppc \/ \E l : ppc' = [ppc EXCEPT ![p] = l]) /\ \E n : tool' = [tool EXCEPT ![p] = n]
      BY Zenon, <1>5 DEF LowerFinishProduce, PushTool, Pushed, AwaitTool, DisplaySanitizerEnd, Return, Goto, FromTool
    <2> QED
      BY Zenon, <2>1, <1>5, <1>t, <1>f DEF Producers
  <1>6. CASE LowerFinishProduce("committer") \/ DisplaySanitizerEnd("committer") \/ Pushed("committer") \/ PushTool("committer")
    <2>1. \/ ppc' = [ppc EXCEPT !["committer"] = "push"] \/ ppc' = [ppc EXCEPT !["committer"] = "idle"]
          \/ tool' = [tool EXCEPT !["committer"] = 1]
          \/ ppc["committer"] = "push" /\ ppc' = ppc
      BY Zenon, <1>6 DEF LowerFinishProduce, DisplaySanitizerEnd, Pushed, PushTool, Return, Goto, FromTool
    <2> QED
      BY <2>1, <1>t DEF Producers
  <1>7. CASE AwaitTool("committer")
    <2>1. /\ ppc["committer"] = "await" /\ UNCHANGED <<queue, cpc, args, kernel>>
          /\ NeedFilter(tool["committer"], work["committer"]) \/ done_[tool["committer"]]
          /\ tool' = [tool EXCEPT !["committer"] = tool["committer"] + 1]
      BY Zenon, <1>7 DEF AwaitTool, FromTool, queues, consumer, client
    <2>2. t < tool["committer"] + 1
      BY Zenon, <2>1, <1>t DEF Producers
    <2>3. CASE t = tool["committer"]
      BY Zenon, <2>1, <2>3
    <2>4. CASE t # tool["committer"]
      BY <2>1, <2>2, <2>4, <1>t
    <2> QED
      BY Zenon, <2>3, <2>4
  <1>8. CASE ConsumerActs \/ UNCHANGED vars
    BY Zenon, <1>8, <1>f, ConsumerFrame DEF vars, producer
  <1> QED
    BY ZenonT(30), <1>1, <1>2, <1>3, <1>4, <1>5, <1>6, <1>7, <1>8, Steps

(* Every step keeps done_ down while a batch is unprocessed.               *)
LEMMA DoneStep ==
  ASSUME IndInv, [Next]_vars
  PROVE  DoneInv'
  <1> SUFFICES ASSUME NEW t \in Tools, NEW ev \in Unprocessed(t)', IsBatch(ev)
               PROVE  /\ ~done_'[t]
                      /\ ev.kernel = kernel' => ~(isKernelWithDBI_' /\ t \in NoDbi)
                      /\ ppc'["committer"] = "await" /\ t < tool'["committer"] => ev.kernel # kernel'
    BY Zenon DEF DoneInv, IsBatch
  <1>t. kernel \in Nat /\ ev \in Events /\ ev.kernel \in Nat
    <2>1. TypeOK'
      BY Zenon, TypeStep DEF IndInv
    <2>2. ev \in Events
      BY SMTT(30), <2>1 DEF TypeOK, Unprocessed
    <2>3. kernel \in Nat
      BY CheckerAssumption DEF IndInv, TypeOK
    <2> QED
      BY <2>2, <2>3, EventFields, CheckerAssumption
  <1>k. /\ kernel' = kernel \/ kernel' = kernel + 1
        /\ \/ isKernelWithDBI_' = isKernelWithDBI_
           \/ ppc["client"] = "kernel_drain" /\ kernel' = kernel
    BY Zenon, KernelProgress
  <1>1. CASE ev \in Unprocessed(t)
    <2>d. ~done_[t]
      BY Zenon, <1>1 DEF IndInv, DoneInv
    <2>2. ev.kernel <= kernel /\ (ppc["client"] = "kernel_drain" => ev.kernel < kernel)
      BY Zenon, <1>1 DEF IndInv, KernelInv
    <2>3. ~done_'[t]
      <3>1. queue'[t] = <<>> /\ cpc'[t] # "consume" => Unprocessed(t)' = {}
        BY DEF Unprocessed
      <3> QED
        BY Zenon, <3>1, <2>d, DoneRaised
    <2>4. ev.kernel = kernel' => ~(isKernelWithDBI_' /\ t \in NoDbi)
      <3>1. ASSUME ev.kernel = kernel' PROVE kernel' = kernel /\ isKernelWithDBI_' = isKernelWithDBI_
        BY <3>1, <1>k, <1>t, <2>2
      <3>2. ev.kernel = kernel => ~(isKernelWithDBI_ /\ t \in NoDbi)
        BY Zenon, <1>1 DEF IndInv, DoneInv
      <3> QED
        BY Zenon, <3>1, <3>2
    <2>5. ASSUME ppc'["committer"] = "await", t < tool'["committer"], ev.kernel = kernel' PROVE FALSE
      <3>0. kernel' = kernel
        BY <2>5, <1>k, <1>t, <2>2
      <3>1. CASE ppc["committer"] = "await" /\ t < tool["committer"]
        BY Zenon, <2>5, <3>0, <3>1, <1>1 DEF IndInv, DoneInv
      <3>2. CASE NeedFilter(t, work["committer"])
        <4>1. isKernelWithDBI_ /\ t \in NoDbi
          BY Zenon, <3>2 DEF NeedFilter
        <4>2. ev.kernel = kernel => ~(isKernelWithDBI_ /\ t \in NoDbi)
          BY Zenon, <1>1 DEF IndInv, DoneInv
        <4> QED
          BY Zenon, <4>1, <4>2, <2>5, <3>0
      <3>3. CASE done_[t]
        BY Zenon, <3>3, <2>d
      <3> QED
        BY Zenon, <3>1, <3>2, <3>3, <2>5, AwaitStep
    <2> QED
      BY Zenon, <2>3, <2>4, <2>5
  <1>2. CASE NewFor(t, ev)
    <2>1. /\ ppc["committer"] = "push" /\ ev = work["committer"] /\ ~NeedFilter(t, ev) /\ ~done_'[t]
          /\ ppc' = ppc /\ kernel' = kernel /\ isKernelWithDBI_' = isKernelWithDBI_
      BY <1>2, <1>t, NewNumber DEF IsBatch, Event
    <2>2. ev.kind # "record"
      BY Zenon DEF IsBatch
    <2> QED
      BY Zenon, <2>1, <2>2 DEF NeedFilter
  <1> QED
    BY Zenon, <1>1, <1>2, Arrivals

----------------------------------------------------------------------------
(* Contexts.                                                               *)

(* While a batch of a closed kernel is unprocessed, the one that ends the  *)
(* kernel stays in the committer's hands.                                  *)
LEMMA FinishStays ==
  ASSUME IndInv, [Next]_vars, ~firstError_, ~firstError_', NEW t \in Tools, NEW ev \in Unprocessed(t), IsBatch(ev),
         ev.kernel = kernel, kernel' = kernel, ppc["client"] = "finish_drain", Upstream # {}
  PROVE  Upstream' # {}
  <1>t. /\ ppc \in [Producers -> ProducerPcs] /\ work \in [Producers -> Events]
    BY Zenon DEF IndInv, TypeOK
  <1>1. PICK f \in Upstream : f.kind = "finish"
    BY Zenon DEF IndInv, FinishInv
  <1>f. ASSUME f \in Upstream' PROVE Upstream' # {}
    BY Zenon, <1>f
  <1>q. ASSUME pending' = pending, ppc'["committer"] = ppc["committer"], work'["committer"] = work["committer"]
        PROVE  f \in Upstream'
    BY Zenon, <1>1, <1>q DEF Upstream
  <1>2. CASE CallSetInfo \/ SetInfoTool \/ SetInfoReturns \/ \E kind \in {"block", "finish"} : DoBatch(kind)
    BY Zenon, <1>2 DEF CallSetInfo, SetInfoTool, SetInfoReturns, DoBatch
  <1>3. CASE CaptureMemcheckCompletion \/ CallFinish \/ FinishDrained \/ FinishJoined \/ SetInfoDrained
    BY ZenonT(30), <1>3 DEF CaptureMemcheckCompletion, CallFinish, FinishDrained, FinishJoined,
       SetInfoDrained
  <1>4. CASE DoBatchReturns
    BY <1>4 DEF DoBatchReturns, Drained, Upstream
  <1>5. ASSUME NEW p \in {"client", "foreign"}, DoRecord(p) \/ RecordDrained(p) PROVE Upstream' # {}
    <2>1. /\ pending' = pending /\ \E l : ppc' = [ppc EXCEPT ![p] = l]
          /\ work' = work \/ \E e : work' = [work EXCEPT ![p] = e]
      BY Zenon, <1>5 DEF DoRecord, RecordDrained, Return, Goto, pipeline
    <2>2. ppc'["committer"] = ppc["committer"] /\ work'["committer"] = work["committer"]
      BY Zenon, <2>1, <1>t DEF Producers
    <2> QED
      BY Zenon, <2>1, <2>2, <1>q, <1>f
  <1>6. CASE CommitterFails
    BY Zenon, <1>6 DEF CommitterFails
  <1>7. CASE DispatchMark
    <2>1. /\ pending # <<>> /\ pending' = Tail(pending) /\ Head(pending).kind = "mark" /\ ppc["committer"] = "idle"
      BY Zenon, <1>7 DEF DispatchMark
    <2>2. PICK i \in DOMAIN pending : f = pending[i]
      BY Zenon, <1>1, <2>1 DEF Upstream
    <2>3. /\ Head(pending) = pending[1] /\ DOMAIN pending' = 1..(Len(pending) - 1)
          /\ \A j \in 1..(Len(pending) - 1) : pending'[j] = pending[j + 1]
          /\ Len(pending) \in Nat \ {0} /\ DOMAIN pending = 1..Len(pending)
      BY Zenon, <2>1, TailFacts DEF IndInv, TypeOK
    <2>4. i # 1
      BY Zenon, <1>1, <2>1, <2>2, <2>3
    <2>5. i - 1 \in DOMAIN pending' /\ pending'[i - 1] = f
      BY <2>2, <2>3, <2>4
    <2> QED
      BY Zenon, <2>5, <1>f DEF Upstream
  <1>8. CASE CommitterTakes
    <2>1. ppc' = [ppc EXCEPT !["committer"] = "lower"]
      BY Zenon, <1>8 DEF CommitterTakes, Goto
    <2> QED
      BY Zenon, <2>1, <1>t DEF Upstream, Producers
  <1>9. ASSUME NEW p \in Producers, \/ LowerFinishProduce(p) \/ PushTool(p) \/ AwaitTool(p) PROVE Upstream' # {}
    <2>1. /\ pending' = pending /\ work' = work /\ (ppc' = ppc \/ (ppc[p] = "lower" /\ ppc' = [ppc EXCEPT ![p] = "push"]))
      BY Zenon, <1>9 DEF LowerFinishProduce, PushTool, AwaitTool, Goto, pipeline
    <2>2. (ppc'["committer"] = "idle") <=> (ppc["committer"] = "idle")
      BY Zenon, <2>1, <1>t DEF Producers
    <2> QED
      BY Zenon, <2>1, <2>2, <1>1, <1>f DEF Upstream
  <1>10. ASSUME NEW p \in Producers, Pushed(p) PROVE Upstream' # {}
    <2>1. pending' = pending /\ ppc[p] = "push"
      BY Zenon, <1>10 DEF Pushed, pipeline
    <2>2. CASE p # "committer"
      <3>1. (\E l : ppc' = [ppc EXCEPT ![p] = l]) /\ (work' = work \/ work' = [work EXCEPT ![p] = Nothing])
        BY Zenon, <1>10 DEF Pushed, Return, Goto
      <3>2. ppc'["committer"] = ppc["committer"] /\ work'["committer"] = work["committer"]
        BY Zenon, <2>2, <3>1, <1>t DEF Producers
      <3> QED
        BY SMTT(30), <2>1, <3>2, <1>q, <1>f
    <2>3. CASE p = "committer" /\ work[p].kind = "finish"
      <3>1. ppc' = [ppc EXCEPT !["committer"] = "await"]
        BY Zenon, <1>10, <2>3 DEF Pushed, Goto
      <3> QED
        BY Zenon, <3>1, <1>t DEF Upstream, Producers
    <2>4. CASE p = "committer" /\ work[p].kind # "finish"
      BY Zenon, <2>1, <2>4, <1>1, <1>f DEF Upstream
    <2> QED
      BY Zenon, <2>2, <2>3, <2>4
  <1>11. ASSUME NEW p \in Producers, DisplaySanitizerEnd(p) PROVE FALSE
    <2>1. ppc[p] = "await" /\ tool[p] > ToolNum
      BY Zenon, <1>11 DEF DisplaySanitizerEnd
    <2>2. p = "committer"
      BY Zenon, <2>1 DEF IndInv, CallInv, Producers, InDoRecord, ClientPcs, ClientQuiet
    <2>3. t < tool["committer"]
      <3>1. tool["committer"] \in Nat /\ ToolNum \in Nat /\ t \in 1..ToolNum
        BY SMTT(30), CheckerAssumption DEF Tools, IndInv, TypeOK, Producers
      <3> QED
        BY SMTT(30), <2>1, <2>2, <3>1
    <2> QED
      BY Zenon, <2>1, <2>2, <2>3 DEF IndInv, DoneInv
  <1>12. CASE ConsumerActs \/ UNCHANGED vars
    <2>1. UNCHANGED <<pending, ppc, work>>
      BY Zenon, <1>12, ConsumerFrame DEF vars, pipeline, producer
    <2> QED
      BY Zenon, <2>1, <1>q, <1>f
  <1> QED
    BY Zenon, <1>2, <1>3, <1>4, <1>5, <1>6, <1>7, <1>8, <1>9, <1>10, <1>11, <1>12, Steps

(* The context of kernel k: in the consumer's hands, or on its way. *)
HasContext(t, k) == ctxKernel[t] = k \/ \E e \in Unprocessed(t) : e.kind = "kernel" /\ e.kernel = k

(* It stays, unless the consumer moves on to a later kernel. *)
LEMMA ContextStays ==
  ASSUME IndInv, [Next]_vars, ~firstError_, NEW t \in Tools, NEW k, HasContext(t, k),
         cpc[t] = "consume" /\ args[t].kind = "kernel" /\ ctxKernel[t] = k => ctxKernel'[t] = k
  PROVE  HasContext(t, k)'
  <1>1. CASE ctxKernel[t] = k
    <2>1. ctxKernel'[t] = k
      BY Zenon, <1>1, CtxStep
    <2> QED
      BY Zenon, <2>1 DEF HasContext
  <1>2. ASSUME NEW e \in Unprocessed(t), e.kind = "kernel", e.kernel = k PROVE HasContext(t, k)'
    <2>1. CASE e \in Unprocessed(t)'
      BY Zenon, <2>1, <1>2 DEF HasContext
    <2>2. CASE e \notin Unprocessed(t)'
      <3>1. cpc[t] = "consume" /\ e = args[t] /\ (HandleContext(t) \/ Consume(t) \/ args[t].kind = "stop")
        BY Zenon, <2>2, Departures
      <3>2. HandleContext(t)
        BY Zenon, <3>1, <1>2 DEF Consume
      <3>3. ctxKernel'[t] = k
        BY Zenon, <3>1, <3>2, <1>2 DEF HandleContext, IndInv, TypeOK
      <3> QED
        BY Zenon, <3>3 DEF HasContext
    <2> QED
      BY Zenon, <2>1, <2>2
  <1> QED
    BY Zenon, <1>1, <1>2 DEF HasContext

(* Every step keeps the context of each batch in front of it.              *)
LEMMA ContextStep ==
  ASSUME IndInv, [Next]_vars
  PROVE  ContextInv'
  <1> SUFFICES ASSUME ~firstError_', NEW t \in Tools
               PROVE  /\ sanKernel'[t] = Told(t)'
                      /\ HasContext(t, Told(t))'
                      /\ \A ev \in Unprocessed(t)' : IsBatch(ev) =>
                           /\ HasContext(t, ev.kernel)'
                           /\ ~Filtered(t, ev.kernel)
                           /\ ev.kernel \in closed' =>
                                ppc'["client"] = "finish_drain" /\ ev.kernel = kernel' /\ Upstream' # {}
    BY Zenon DEF ContextInv, HasContext, IsBatch, Filtered
  <1>t. kernel \in Nat /\ ctxKernel[t] \in Nat
    BY CheckerAssumption DEF IndInv, TypeOK
  <1>f. ~firstError_
    BY Zenon, KernelProgress
  <1>i. /\ sanKernel[t] = Told(t)
        /\ HasContext(t, Told(t))
        /\ \A ev \in Unprocessed(t) : IsBatch(ev) =>
             /\ HasContext(t, ev.kernel)
             /\ ~Filtered(t, ev.kernel)
             /\ ev.kernel \in closed => ppc["client"] = "finish_drain" /\ ev.kernel = kernel /\ Upstream # {}
    BY Zenon, <1>f DEF IndInv, ContextInv, HasContext
  <1>k. \/ Told(t)' = Told(t) /\ sanKernel'[t] = sanKernel[t]
        \/ SetInfoTool /\ ppc["client"] = "kernel_push" /\ tool["client"] = t /\ Told(t)' = kernel /\ sanKernel'[t] = kernel
    BY Zenon, <1>f, KernelProgress
  <1>1. sanKernel'[t] = Told(t)'
    BY Zenon, <1>k, <1>i
  <1>2. HasContext(t, Told(t))'
    <2>1. CASE Told(t)' = Told(t)
      <3>1. ASSUME cpc[t] = "consume", args[t].kind = "kernel", ctxKernel[t] = Told(t) PROVE FALSE
        <4>1. args[t] \in Unprocessed(t)
          BY Zenon, <3>1 DEF Unprocessed
        <4>2. /\ ctxKernel[t] < args[t].kernel /\ args[t].kernel <= kernel
              /\ NotTold(t) => args[t].kernel < kernel
          BY Zenon, <3>1, <4>1 DEF IndInv, KernelInv
        <4>3. args[t].kernel \in Nat
          <5>1. args[t] \in Events
            BY Zenon DEF IndInv, TypeOK
          <5> QED
            BY <5>1, EventFields, CheckerAssumption
        <4> QED
          BY SMTT(30), <3>1, <4>2, <4>3, <1>t DEF Told
      <3> DEFINE k == Told(t)
      <3>2. HasContext(t, k)
        BY Zenon, <1>i
      <3>3. cpc[t] = "consume" /\ args[t].kind = "kernel" /\ ctxKernel[t] = k => ctxKernel'[t] = k
        BY Zenon, <3>1
      <3> HIDE DEF k
      <3>4. \E kk : kk = k /\ (ctxKernel'[t] = kk \/ \E e \in Unprocessed(t)' : e.kind = "kernel" /\ e.kernel = kk)
        <4>1. ASSUME NEW kk, kk = k
              PROVE  ctxKernel'[t] = kk \/ \E e \in Unprocessed(t)' : e.kind = "kernel" /\ e.kernel = kk
          <5>1. HasContext(t, kk)'
            BY Zenon, <1>f, <3>2, <3>3, <4>1, ContextStays
          <5> QED
            BY Zenon, <5>1 DEF HasContext
        <4> QED
          BY Zenon, <4>1
      <3> QED
        BY Zenon, <2>1, <3>4 DEF HasContext, k
    <2>2. CASE SetInfoTool /\ ppc["client"] = "kernel_push" /\ tool["client"] = t /\ Told(t)' = kernel
      <3>1. PushTo(t, Event("kernel", kernel, 0))
        BY Zenon, <2>2 DEF SetInfoTool
      <3>2. Event("kernel", kernel, 0) \in Events
        <4>1. 0 \in 0..MaxWork
          BY SMTT(30), CheckerAssumption
        <4> QED
          BY Zenon, <4>1, EventType DEF IndInv, TypeOK, Kinds
      <3>3. queue'[t] = Append(queue[t], Event("kernel", kernel, 0))
        BY ZenonT(30), <3>1, PushLine DEF IndInv
      <3>4. /\ Len(queue[t]) \in Nat /\ Len(queue[t]) + 1 \in DOMAIN queue'[t]
            /\ queue'[t][Len(queue[t]) + 1] = Event("kernel", kernel, 0)
        BY SMTT(30), <3>2, <3>3, AppendFacts DEF IndInv, TypeOK
      <3>5. Event("kernel", kernel, 0) \in Unprocessed(t)'
        BY Zenon, <3>4 DEF Unprocessed
      <3>6. Event("kernel", kernel, 0).kind = "kernel" /\ Event("kernel", kernel, 0).kernel = kernel
        BY Zenon DEF Event
      <3> QED
        BY Zenon, <2>2, <3>5, <3>6 DEF HasContext
    <2> QED
      BY Zenon, <2>1, <2>2, <1>k
  <1>3. ASSUME NEW ev \in Unprocessed(t)', IsBatch(ev)
        PROVE  /\ HasContext(t, ev.kernel)'
               /\ ~Filtered(t, ev.kernel)
               /\ ev.kernel \in closed' =>
                    ppc'["client"] = "finish_drain" /\ ev.kernel = kernel' /\ Upstream' # {}
    <2>e. ev \in Events /\ ev.kernel \in Nat
      <3>1. TypeOK'
        BY ZenonT(30), TypeStep DEF IndInv
      <3>2. ev \in Events
        BY <3>1, <1>3 DEF TypeOK, Unprocessed
      <3> QED
        BY SMTT(30), <3>2, EventFields, CheckerAssumption
    <2>1. CASE ev \in Unprocessed(t)
      <3>1. /\ HasContext(t, ev.kernel) /\ ~Filtered(t, ev.kernel)
            /\ ev.kernel \in closed => ppc["client"] = "finish_drain" /\ ev.kernel = kernel /\ Upstream # {}
        BY Zenon, <2>1, <1>3, <1>i
      <3>2. HasContext(t, ev.kernel)'
        <4>1. ASSUME cpc[t] = "consume", args[t].kind = "kernel", ctxKernel[t] = ev.kernel PROVE FALSE
          <5>1. args[t] \in Unprocessed(t) /\ args[t] # ev
            BY Zenon, <4>1, <1>3 DEF Unprocessed, IsBatch
          <5>2. ctxKernel[t] < args[t].kernel
            BY Zenon, <4>1, <5>1 DEF IndInv, KernelInv
          <5>3. PICK i \in DOMAIN queue[t] : ev = queue[t][i]
            BY Zenon, <2>1, <5>1 DEF Unprocessed
          <5>4. Before(args[t], ev)
            BY Zenon, <4>1, <5>3 DEF IndInv, OrderInv
          <5>5. args[t].kernel <= ev.kernel
            BY ZenonT(30), <4>1, <5>4, <1>3 DEF Before, Carries, IsBatch
          <5>6. args[t].kernel \in Nat
            <6>1. args[t] \in Events
              BY Zenon DEF IndInv, TypeOK
            <6> QED
              BY SMTT(30), <6>1, EventFields, CheckerAssumption
          <5> QED
            BY SMTT(30), <4>1, <5>2, <5>5, <5>6, <2>e
        <4> QED
          BY ZenonT(30), <1>f, <3>1, <4>1, ContextStays
      <3>3. ASSUME ev.kernel \in closed'
            PROVE  ppc'["client"] = "finish_drain" /\ ev.kernel = kernel' /\ Upstream' # {}
        <4>1. \/ UNCHANGED closed /\ (ppc["client"] = "finish_drain" => ppc'["client"] = "finish_drain" \/ Drained)
              \/ /\ closed' = closed \cup {kernel} /\ ppc["client"] = "idle"
                 /\ ppc'["client"] = "finish_drain" /\ Upstream' # {}
                 /\ kernel' = kernel
          BY Zenon, KernelProgress
        <4>2. CASE ev.kernel \in closed
          <5>1. ppc["client"] = "finish_drain" /\ ev.kernel = kernel /\ Upstream # {}
            BY Zenon, <4>2, <3>1
          <5>2. ~Drained
            BY <5>1 DEF Drained, Upstream
          <5>3. ppc'["client"] = "finish_drain"
            BY Zenon, <4>1, <5>1, <5>2
          <5>4. kernel' = kernel
            BY Zenon, <5>1, KernelProgress
          <5>5. Upstream' # {}
            BY Zenon, <1>f, <5>1, <5>4, <2>1, <1>3, FinishStays
          <5> QED
            BY Zenon, <5>1, <5>3, <5>4, <5>5
        <4>3. CASE ev.kernel \notin closed
          BY Zenon, <3>3, <4>1, <4>3
        <4> QED
          BY Zenon, <4>2, <4>3
      <3> QED
        BY Zenon, <3>1, <3>2, <3>3
    <2>2. CASE NewFor(t, ev)
      <3>1. /\ ppc["committer"] = "push" /\ ev = work["committer"] /\ ~NeedFilter(t, ev) /\ PushTool("committer")
            /\ ppc' = ppc /\ work' = work /\ pending' = pending /\ kernel' = kernel /\ isKernelWithDBI_' = isKernelWithDBI_
        BY SMTT(30), <2>2, <2>e, <1>3, NewNumber DEF IsBatch, Event
      <3>2. ev \in Upstream /\ Upstream' = Upstream
        BY Zenon, <3>1 DEF Upstream
      <3>3. ev.kernel = Running /\ ppc["client"] # "kernel_push"
        BY ZenonT(60), <1>3, <3>1, <3>2 DEF IndInv, PendingInv, ClientQuiet
      <3>4. Told(t) = Running /\ Told(t)' = Told(t)
        BY ZenonT(60), <3>1, <3>3 DEF Told, NotTold, Running
      <3>5. HasContext(t, ev.kernel)'
        BY Zenon, <1>2, <3>3, <3>4 DEF HasContext
      <3>6. ~Filtered(t, ev.kernel)
        <4>1. isKernelWithDBI_ <=> Running \in DbiKernels
          BY Zenon, <1>f DEF IndInv, FinishInv
        <4>2. ev.kind # "record"
          BY Zenon, <1>3 DEF IsBatch
        <4> QED
          BY Zenon, <4>1, <4>2, <3>1, <3>3 DEF NeedFilter, Filtered
      <3>7. closed' = closed
        BY Zenon, <3>1 DEF PushTool, client
      <3>8. ev.kernel \in closed => ppc["client"] = "finish_drain"
        BY Zenon, <1>f, <1>3, <3>2 DEF IndInv, FinishInv
      <3>9. ppc["client"] = "finish_drain" => Running = kernel
        BY Zenon DEF Running
      <3> QED
        BY SMTT(30), <3>1, <3>2, <3>3, <3>5, <3>6, <3>7, <3>8, <3>9
    <2> QED
      BY ZenonT(30), <2>1, <2>2, <1>3, Arrivals
  <1> QED
    BY Zenon, <1>1, <1>2, <1>3

----------------------------------------------------------------------------
(* Verdicts.                                                               *)

(* What a step may do to error counts, verdicts and faulty kernels.        *)
LEMMA OutcomeStep ==
  ASSUME IndInv, [Next]_vars
  PROVE  \/ UNCHANGED <<errors, faulty, verdicts>>
         \/ \E t \in Tools : /\ cpc[t] = "consume" /\ IsBatch(args[t])
                             /\ errors' = [errors EXCEPT ![t] = TRUE]
                             /\ faulty' = faulty \cup {args[t].kernel}
                             /\ UNCHANGED <<verdicts, kernel>>
         \/ /\ DisplaySanitizerEnd("committer") /\ UNCHANGED <<faulty, kernel, closed>>
            /\ verdicts' = Append(verdicts, [kernel |-> work["committer"].kernel,
                                             errors |-> \E t \in Tools : errors[t]])
  <1>1. CASE ConsumerActs
    <2>1. PICK t \in Tools : ConsumerStep(t) \/ SpuriousWake(t)
      BY Zenon, <1>1 DEF ConsumerActs
    <2>2. CASE Consume(t)
      BY Zenon, <2>2 DEF Consume, IsBatch, client
    <2>3. CASE ~Consume(t)
      BY ZenonT(60), Zenon, <2>1, <2>3 DEF ConsumerStep, TakeUnlocked, TakeLocked, GoForLock, Sleep, SpuriousWake, HandleContext,
                               CheckFinishProduce, WaitAfterConsumed, Stop, history, outcome
    <2> QED
      BY Zenon, <2>2, <2>3
  <1>2. CASE CallSetInfo \/ SetInfoDrained \/ SetInfoTool \/ SetInfoReturns \/ \E kind \in {"block", "finish"} : DoBatch(kind)
    BY Zenon, <1>2 DEF CallSetInfo, SetInfoDrained, SetInfoTool, SetInfoReturns, DoBatch, history, outcome
  <1>3. CASE DoBatchReturns \/ CaptureMemcheckCompletion \/ CallFinish \/ FinishDrained \/ FinishJoined
    BY ZenonT(60), Zenon, <1>3 DEF DoBatchReturns, CaptureMemcheckCompletion, CallFinish, FinishDrained, FinishJoined, history, outcome
  <1>4. CASE \/ \E p \in {"client", "foreign"} : DoRecord(p) \/ RecordDrained(p)
             \/ CommitterFails \/ DispatchMark \/ CommitterTakes
    BY ZenonT(60), Zenon, <1>4 DEF DoRecord, RecordDrained, CommitterFails, DispatchMark, CommitterTakes, history, outcome
  <1>5. CASE \E p \in Producers : LowerFinishProduce(p) \/ PushTool(p) \/ Pushed(p) \/ AwaitTool(p)
    BY ZenonT(60), Zenon, <1>5 DEF LowerFinishProduce, PushTool, Pushed, AwaitTool, history, outcome
  <1>6. ASSUME NEW p \in Producers, DisplaySanitizerEnd(p)
        PROVE  /\ DisplaySanitizerEnd("committer") /\ UNCHANGED <<faulty, kernel, closed>>
               /\ verdicts' = Append(verdicts, [kernel |-> work["committer"].kernel,
                                                errors |-> \E t \in Tools : errors[t]])
    <2>1. p = "committer"
      BY Zenon, <1>6 DEF DisplaySanitizerEnd, IndInv, CallInv, Producers, InDoRecord, ClientPcs, ClientQuiet
    <2> QED
      BY ZenonT(60), Zenon, <1>6, <2>1 DEF DisplaySanitizerEnd, history, client
  <1>7. CASE UNCHANGED vars
    BY ZenonT(60), Zenon, <1>7 DEF vars, history, outcome
  <1> QED
    BY ZenonT(60), Zenon, <1>1, <1>2, <1>3, <1>4, <1>5, <1>6, <1>7, Steps

(* What holds when the verdict is printed: the kernel is the client's, it  *)
(* is closed, and none of its batches is unprocessed.                      *)
LEMMA VerdictTime ==
  ASSUME IndInv, DisplaySanitizerEnd("committer")
  PROVE  /\ work["committer"].kernel = kernel /\ kernel \in closed /\ IsBatch(work["committer"])
         /\ work["committer"] \in Upstream
         /\ \A t \in Tools : \A ev \in Unprocessed(t) : IsBatch(ev) => ev.kernel # kernel
         /\ pending = <<>>
  <1>1. ppc["committer"] = "await" /\ tool["committer"] > ToolNum
    BY Zenon DEF DisplaySanitizerEnd
  <1>2. /\ IsBatch(work["committer"]) /\ work["committer"].kind = "finish" /\ pending = <<>>
        /\ work["committer"] \in Upstream
    BY Zenon, <1>1 DEF IndInv, PendingInv, Upstream
  <1>3. ppc["client"] = "finish_drain" /\ work["committer"].kernel = Running
    BY Zenon, <1>2 DEF IndInv, PendingInv
  <1>4. kernel \in closed /\ Running = kernel
    BY Zenon, <1>3 DEF IndInv, CallInv, Running
  <1>5. ASSUME NEW t \in Tools PROVE t < tool["committer"]
    <2>1. tool["committer"] \in Nat /\ ToolNum \in Nat /\ t \in 1..ToolNum
      BY SMTT(30), CheckerAssumption DEF Tools, IndInv, TypeOK, Producers
    <2> QED
      BY SMTT(30), <1>1, <2>1
  <1>6. \A t \in Tools : \A ev \in Unprocessed(t) : IsBatch(ev) => ev.kernel # kernel
    BY Zenon, <1>1, <1>5 DEF IndInv, DoneInv
  <1> QED
    BY Zenon, <1>2, <1>3, <1>4, <1>6

(* Every step keeps verdicts complete and error counts until then.         *)
LEMMA VerdictStep ==
  ASSUME IndInv, [Next]_vars
  PROVE  VerdictInv' /\ VerdictCoversErrors'
  <1>v. VerdictInv /\ VerdictCoversErrors /\ TypeOK
    BY Zenon DEF IndInv
  <1>t. /\ kernel \in Nat /\ errors \in [Tools -> BOOLEAN]
        /\ verdicts \in Seq([kernel : 0..MaxKernels, errors : BOOLEAN])
        /\ \A t \in Tools : args[t] \in Events
    BY <1>v, CheckerAssumption DEF TypeOK
  <1>k. \E t \in Tools : TRUE
    BY SMTT(30), CheckerAssumption DEF Tools
  <1>c. closed \subseteq closed' /\ (kernel' = kernel \/ kernel' = kernel + 1)
    BY Zenon, <1>k, KernelProgress
  <1>u. UpstreamGrows
    BY Zenon, PendingStep
  <1>o. ASSUME NEW k, k \in closed,
               \A e \in Upstream : IsBatch(e) => e.kernel # k,
               \A t \in Tools : \A ev \in Unprocessed(t) : IsBatch(ev) => ev.kernel # k
        PROVE  /\ k \in closed'
               /\ \A e \in Upstream' : IsBatch(e) => e.kernel # k
               /\ \A t \in Tools : \A ev \in Unprocessed(t)' : IsBatch(ev) => ev.kernel # k
    <2>1. k \in closed'
      BY Zenon, <1>c, <1>o
    <2>2. \A e \in Upstream' : IsBatch(e) => e.kernel # k
      BY Zenon, <1>o, <1>u DEF UpstreamGrows
    <2>3. ASSUME NEW t \in Tools, NEW ev \in Unprocessed(t)', IsBatch(ev) PROVE ev.kernel # k
      <3>1. CASE ev \in Unprocessed(t)
        BY Zenon, <1>o, <2>3, <3>1
      <3>2. CASE NewFor(t, ev) /\ ev \in Events
        <4>1. ppc["committer"] = "push" /\ ev = work["committer"]
          BY SMTT(30), <2>3, <3>2, NewNumber DEF IsBatch, Event
        <4>2. ev \in Upstream
          BY Zenon, <4>1 DEF Upstream
        <4> QED
          BY Zenon, <1>o, <2>3, <4>2
      <3> QED
        BY Zenon, <2>3, <3>1, <3>2, Arrivals
    <2> QED
      BY Zenon, <2>1, <2>2, <2>3
  <1>i. \A i \in DOMAIN verdicts :
          /\ verdicts[i].kernel \in closed'
          /\ \A e \in Upstream' : IsBatch(e) => e.kernel # verdicts[i].kernel
          /\ \A t \in Tools : \A ev \in Unprocessed(t)' : IsBatch(ev) => ev.kernel # verdicts[i].kernel
    <2> SUFFICES ASSUME NEW i \in DOMAIN verdicts
                 PROVE  /\ verdicts[i].kernel \in closed'
                        /\ \A e \in Upstream' : IsBatch(e) => e.kernel # verdicts[i].kernel
                        /\ \A t \in Tools : \A ev \in Unprocessed(t)' : IsBatch(ev) => ev.kernel # verdicts[i].kernel
      BY Zenon
    <2>1. /\ verdicts[i].kernel \in closed
          /\ \A e \in Upstream : IsBatch(e) => e.kernel # verdicts[i].kernel
          /\ \A t \in Tools : \A ev \in Unprocessed(t) : IsBatch(ev) => ev.kernel # verdicts[i].kernel
      BY Zenon, <1>v DEF VerdictInv
    <2> QED
      BY Zenon, <2>1, <1>o
  <1>f. /\ faulty \subseteq 0..kernel
        /\ kernel \in faulty => \/ \E i \in DOMAIN verdicts : verdicts[i].kernel = kernel
                                \/ \E t \in Tools : errors[t]
    BY Zenon, <1>v DEF VerdictInv
  <1>1. CASE UNCHANGED <<errors, faulty, verdicts>>
    <2>1. faulty' \subseteq 0..kernel'
      BY SMTT(30), <1>1, <1>f, <1>c, <1>t
    <2>2. kernel' \in faulty' => kernel' = kernel
      BY SMTT(30), <1>1, <1>f, <1>c, <1>t
    <2>3. VerdictInv'
      BY Zenon, <1>1, <1>i, <1>f, <2>1, <2>2 DEF VerdictInv
    <2> QED
      BY Zenon, <1>1, <1>v, <2>3 DEF VerdictCoversErrors
  <1>2. ASSUME NEW t \in Tools, cpc[t] = "consume", IsBatch(args[t]), errors' = [errors EXCEPT ![t] = TRUE],
               faulty' = faulty \cup {args[t].kernel}, UNCHANGED <<verdicts, kernel>>
        PROVE  VerdictInv' /\ VerdictCoversErrors'
    <2>1. args[t] \in Unprocessed(t)
      BY Zenon, <1>2 DEF Unprocessed
    <2>2. args[t].kernel <= kernel
      BY Zenon, <2>1, <1>2 DEF IndInv, KernelInv
    <2>3. args[t].kernel \in Nat
      BY SMTT(30), <1>t, EventFields, CheckerAssumption
    <2>4. faulty' \subseteq 0..kernel'
      <3>1. args[t].kernel \in 0..kernel
        BY SMTT(30), <2>2, <2>3, <1>t
      <3>2. faulty' = faulty \cup {args[t].kernel} /\ kernel' = kernel
        BY Zenon, <1>2
      <3> QED
        BY ZenonT(60), <3>1, <3>2, <1>f
    <2>5. errors'[t]
      BY Zenon, <1>2, <1>t
    <2>6. VerdictInv'
      BY Zenon, <1>2, <1>i, <2>4, <2>5 DEF VerdictInv
    <2>7. \A i \in DOMAIN verdicts : verdicts[i].kernel # args[t].kernel
      BY Zenon, <2>1, <1>2, <1>v DEF VerdictInv
    <2>8. VerdictCoversErrors'
      BY Zenon, <1>2, <2>7, <1>v DEF VerdictCoversErrors
    <2> QED
      BY Zenon, <2>6, <2>8
  <1>3. CASE /\ DisplaySanitizerEnd("committer") /\ UNCHANGED <<faulty, kernel, closed>>
             /\ verdicts' = Append(verdicts, [kernel |-> work["committer"].kernel,
                                              errors |-> \E t \in Tools : errors[t]])
    <2> DEFINE found == \E t \in Tools : errors[t]
               v == [kernel |-> work["committer"].kernel, errors |-> found]
    <2>1. /\ work["committer"].kernel = kernel /\ kernel \in closed /\ IsBatch(work["committer"])
          /\ work["committer"] \in Upstream
          /\ \A t \in Tools : \A ev \in Unprocessed(t) : IsBatch(ev) => ev.kernel # kernel
          /\ pending = <<>>
      BY Zenon, <1>3, VerdictTime
    <2>2. v \in [kernel : 0..MaxKernels, errors : BOOLEAN] /\ v.kernel = kernel /\ v.errors = found
      <3>1. found \in BOOLEAN
        BY Zenon
      <3>2. work["committer"].kernel \in 0..MaxKernels
        BY Zenon, <2>1, <1>v DEF TypeOK
      <3> HIDE DEF found
      <3> QED
        BY Zenon, <3>1, <3>2, <2>1
    <2>3. verdicts' = Append(verdicts, v)
      BY ZenonT(30), <1>3
    <2> HIDE DEF v
    <2>4. /\ DOMAIN verdicts' = 1..(Len(verdicts) + 1) /\ DOMAIN verdicts = 1..Len(verdicts) /\ Len(verdicts) \in Nat
          /\ \A i \in 1..Len(verdicts) : verdicts'[i] = verdicts[i]
          /\ verdicts'[Len(verdicts) + 1] = v
      BY SMTT(30), <2>2, <2>3, <1>t, AppendFacts
    <2>5. \A i \in DOMAIN verdicts' : (i \in DOMAIN verdicts /\ verdicts'[i] = verdicts[i]) \/ verdicts'[i] = v
      BY SMTT(30), <2>4
    <2>6. \E i \in DOMAIN verdicts' : verdicts'[i].kernel = kernel
      <3>1. Len(verdicts) + 1 \in DOMAIN verdicts'
        BY SMTT(30), <2>4
      <3> QED
        BY Zenon, <3>1, <2>2, <2>4
    <2>7. /\ kernel \in closed'
          /\ \A e \in Upstream' : IsBatch(e) => e.kernel # kernel
          /\ \A t \in Tools : \A ev \in Unprocessed(t)' : IsBatch(ev) => ev.kernel # kernel
      <3>1. /\ pending' = pending /\ ppc' = [ppc EXCEPT !["committer"] = "idle"]
            /\ UNCHANGED <<queue, cpc, args, closed>>
        BY Zenon, <1>3 DEF DisplaySanitizerEnd, Return, Goto, pipeline, queues, consumer, client
      <3>2. ppc'["committer"] = "idle"
        BY Zenon, <3>1, <1>v DEF TypeOK, Producers
      <3>3. Upstream' = {}
        BY SMTT(30), <3>1, <3>2, <2>1 DEF Upstream
      <3>4. \A t \in Tools : Unprocessed(t)' = Unprocessed(t)
        BY Zenon, <3>1 DEF Unprocessed
      <3> QED
        BY Zenon, <3>1, <3>3, <3>4, <2>1
    <2>8. VerdictInv'
      <3>1. \A i \in DOMAIN verdicts' :
              /\ verdicts'[i].kernel \in closed'
              /\ \A e \in Upstream' : IsBatch(e) => e.kernel # verdicts'[i].kernel
              /\ \A t \in Tools : \A ev \in Unprocessed(t)' : IsBatch(ev) => ev.kernel # verdicts'[i].kernel
        BY ZenonT(30), <2>5, <2>7, <2>2, <1>i
      <3>2. faulty' \subseteq 0..kernel' /\ kernel' = kernel
        BY Zenon, <1>3, <1>f
      <3> QED
        BY ZenonT(60), <3>1, <3>2, <2>6 DEF VerdictInv
    <2>9. VerdictCoversErrors'
      <3>1. \A i \in DOMAIN verdicts : verdicts[i].kernel # kernel
        BY Zenon, <2>1, <1>v DEF VerdictInv
      <3>2. kernel \in faulty => found
        BY Zenon, <3>1, <1>f
      <3>3. \A i \in DOMAIN verdicts : verdicts[i].kernel \in faulty => verdicts[i].errors
        BY Zenon, <1>v DEF VerdictCoversErrors
      <3> HIDE DEF found
      <3>4. ASSUME NEW i \in DOMAIN verdicts', verdicts'[i].kernel \in faulty' PROVE verdicts'[i].errors
        <4>1. CASE verdicts'[i] = v
          BY SMTT(30), <4>1, <3>4, <3>2, <2>2, <1>3
        <4>2. CASE i \in DOMAIN verdicts /\ verdicts'[i] = verdicts[i]
          BY Zenon, <4>2, <3>3, <3>4, <1>3
        <4> QED
          BY ZenonT(30), <4>1, <4>2, <2>5
      <3> QED
        BY Zenon, <3>4 DEF VerdictCoversErrors
    <2> QED
      BY Zenon, <2>8, <2>9
  <1> QED
    BY ZenonT(60), <1>1, <1>2, <1>3, OutcomeStep

----------------------------------------------------------------------------
(* The theorems.                                                           *)

(* The invariant holds initially.                                          *)
LEMMA InitHolds == Init => IndInv
  <1> SUFFICES ASSUME Init PROVE IndInv
    BY Zenon
  <1>t. TypeOK
    BY Zenon, TypeInit
  <1>n. ToolNum \in Nat \ {0} /\ Tools = 1..ToolNum
    BY Zenon, CheckerAssumption DEF Tools
  <1>1. /\ pending = <<>> /\ verdicts = <<>> /\ ready = {} /\ faulty = {} /\ closed = {}
        /\ kernel = 0 /\ seq = 0 /\ isKernelWithDBI_ = FALSE
        /\ ppc["client"] = "idle" /\ ppc["committer"] = "idle" /\ ppc["foreign"] = "idle"
        /\ \A t \in Tools : /\ queue[t] = <<>> /\ cpc[t] = "top" /\ sanKernel[t] = 0 /\ ctxKernel[t] = 0
    BY Zenon DEF Init, Producers
  <1>2. Upstream = {} /\ \A t \in Tools : Unprocessed(t) = {} /\ ~NotTold(t) /\ Told(t) = 0
    BY SMTT(30), <1>1 DEF Upstream, Unprocessed, NotTold, Told
  <1>3. 0 \notin DbiKernels /\ Running = 0
    BY SMTT(30), <1>1, CheckerAssumption DEF Running
  <1>4. CallInv
    BY ZenonT(30), <1>1 DEF CallInv, InDoRecord, Finishing, ClientPcs
  <1>5. PendingInv
    BY SMTT(30), <1>1, <1>2 DEF PendingInv, ClientQuiet
  <1>6. FinishInv
    BY ZenonT(30), <1>1, <1>2, <1>3 DEF FinishInv
  <1>7. OrderInv
    BY SMTT(30), <1>1 DEF OrderInv
  <1>8. SeqInv /\ MarkInv
    BY ZenonT(60), <1>1, <1>2 DEF SeqInv, MarkInv
  <1>9. KernelInv /\ DoneInv /\ StopInv
    BY SMTT(30), <1>1, <1>2 DEF KernelInv, DoneInv, StopInv
  <1>10. ContextInv
    BY ZenonT(60), <1>1, <1>2 DEF ContextInv
  <1>11. VerdictInv /\ VerdictCoversErrors
    BY SMTT(30), <1>1, <1>2 DEF VerdictInv, VerdictCoversErrors
  <1> QED
    BY SMTT(30), <1>t, <1>4, <1>5, <1>6, <1>7, <1>8, <1>9, <1>10, <1>11 DEF IndInv

(* Every step keeps the invariant.                                         *)
LEMMA StepHolds == IndInv /\ [Next]_vars => IndInv'
  <1> SUFFICES ASSUME IndInv, [Next]_vars PROVE IndInv'
    BY Zenon
  <1>1. TypeOK'
    BY Zenon, TypeStep DEF IndInv
  <1> QED
    BY SMTT(30), <1>1, CallStep, PendingStep, OrderStep, SeqStep, MarkStep, KernelStep,
       DoneStep, ContextStep, StopStep,
       VerdictStep DEF IndInv

(* All of the invariant holds in every reachable state of Checker; in      *)
(* particular the variables keep their types.                              *)
THEOREM Invariance == Spec => []IndInv
  BY InitHolds, StepHolds, PTL DEF Spec

(* Every variable of Checker keeps its type, in every execution.           *)
THEOREM TypeCorrect == Spec => []TypeOK
  <1>1. IndInv => TypeOK
    BY Zenon DEF IndInv
  <1> QED
    BY <1>1, Invariance, PTL

(* DisplaySanitizerEnd never prints "No error detected." for a kernel in   *)
(* which one of the tools found an error: errorCounts_ is taken when every *)
(* tool that was given a batch of the kernel has processed it.             *)
THEOREM VerdictIsRight == Spec => []VerdictCoversErrors
  <1>1. IndInv => VerdictCoversErrors
    BY Zenon DEF IndInv
  <1> QED
    BY <1>1, Invariance, PTL

(* A batch under consumption and what its context says. *)
LEMMA BatchContext ==
  ASSUME IndInv, ~firstError_, NEW t \in Tools, cpc[t] = "consume", IsBatch(args[t])
  PROVE  ctxKernel[t] = args[t].kernel /\ ~Filtered(t, args[t].kernel)
  <1>1. args[t] \in Unprocessed(t)
    BY Zenon DEF Unprocessed
  <1>2. /\ \/ ctxKernel[t] = args[t].kernel
           \/ \E e \in Unprocessed(t) : e.kind = "kernel" /\ e.kernel = args[t].kernel
        /\ ~Filtered(t, args[t].kernel)
    BY ZenonT(60), <1>1 DEF IndInv, ContextInv
  <1>3. ASSUME NEW e \in Unprocessed(t), e.kind = "kernel", e.kernel = args[t].kernel PROVE FALSE
    <2>1. e # args[t]
      BY ZenonT(60), <1>3 DEF IsBatch
    <2>2. PICK i \in DOMAIN queue[t] : e = queue[t][i]
      BY Zenon, <1>3, <2>1 DEF Unprocessed
    <2>3. Before(args[t], e)
      BY ZenonT(60), <2>2 DEF IndInv, OrderInv
    <2>4. args[t].kernel < e.kernel
      BY ZenonT(30), <1>3, <2>3 DEF Before, Carries, IsBatch
    <2>5. args[t].kernel \in Nat
      <3>1. args[t] \in Events
        BY Zenon DEF IndInv, TypeOK
      <3> QED
        BY SMTT(30), <3>1, EventFields, CheckerAssumption
    <2> QED
      BY SMTT(30), <1>3, <2>4, <2>5
  <1> QED
    BY Zenon, <1>2, <1>3

(* As long as no parse has failed, a tool processes a batch under the      *)
(* RuntimeContext of its own kernel, which SetKernelInfo sent ahead of it  *)
(* through the same queue, and only if the tool is not filtered for it.    *)
THEOREM BatchHasItsContext == Spec => []BatchUnderItsContext
  <1>1. IndInv => BatchUnderItsContext
    BY Zenon, BatchContext DEF BatchUnderItsContext
  <1> QED
    BY <1>1, Invariance, PTL

(* A batch of a kernel that was ended by KERNEL_FINISH meets the sanitizer *)
(* state of that kernel, though SetKernelInfo re-initialises sanitizers    *)
(* from the calling thread.                                                *)
THEOREM BatchHasItsSanitizer == Spec => []SanitizerStateOfKernel
  <1>1. ASSUME IndInv PROVE SanitizerStateOfKernel
    <2> SUFFICES ASSUME ~firstError_, NEW t \in Tools, cpc[t] = "consume", IsBatch(args[t]), args[t].kernel \in closed
                 PROVE  sanKernel[t] = args[t].kernel
      BY Zenon DEF SanitizerStateOfKernel
    <2>1. args[t] \in Unprocessed(t)
      BY Zenon DEF Unprocessed
    <2>2. ppc["client"] = "finish_drain" /\ args[t].kernel = kernel /\ sanKernel[t] = Told(t)
      BY ZenonT(60), <1>1, <2>1 DEF IndInv, ContextInv
    <2> QED
      BY Zenon, <2>2 DEF Told, NotTold
  <1> QED
    BY <1>1, Invariance, PTL

(* The future of a completion mark is ready only when memcheck has         *)
(* processed everything the client handed in before the mark, wherever it  *)
(* was: in the pipeline, with the committer or in memcheck's queue.        *)
THEOREM MarksAreBarriers == Spec => []MarkAfterEarlierWork
  <1>1. ASSUME IndInv PROVE MarkAfterEarlierWork
    <2> SUFFICES ASSUME NEW n \in ready
                 PROVE  /\ \A ev \in Unprocessed(Memcheck) : ev.seq \notin 1..(n - 1)
                        /\ \A i \in DOMAIN pending : pending[i].seq > n
                        /\ ppc["committer"] \in {"lower", "push"} => work["committer"].seq > n
      BY Zenon DEF MarkAfterEarlierWork
    <2>1. /\ \A ev \in Unprocessed(Memcheck) : ev.seq > 0 => n < ev.seq
          /\ \A e \in Upstream : n < e.seq
      BY Zenon, <1>1 DEF IndInv, MarkInv
    <2>2. n \in Nat
      BY SMTT(30), <1>1, CheckerAssumption DEF IndInv, TypeOK
    <2>3. ASSUME NEW ev \in Unprocessed(Memcheck), ev.seq \in 1..(n - 1) PROVE FALSE
      <3>1. ev.seq > 0 /\ ev.seq \in Nat /\ ev.seq < n
        BY SMTT(30), <2>2, <2>3
      <3> QED
        BY SMTT(30), <3>1, <2>1, <2>2
    <2>4. ASSUME NEW e \in Upstream PROVE e.seq > n
      <3>1. e \in Events
        BY SMTT(30), <1>1 DEF Upstream, IndInv, TypeOK, Producers
      <3>2. e.seq \in Nat
        BY SMTT(30), <3>1, EventFields, CheckerAssumption
      <3> QED
        BY SMTT(30), <3>2, <2>1, <2>2
    <2>5. \A i \in DOMAIN pending : pending[i] \in Upstream
      BY Zenon DEF Upstream
    <2>6. ppc["committer"] \in {"lower", "push"} => work["committer"] \in Upstream
      BY Zenon DEF Upstream
    <2> QED
      BY Zenon, <2>3, <2>4, <2>5, <2>6
  <1> QED
    BY <1>1, Invariance, PTL

(* STOP is the last thing a consumer is given, and nothing is on its way   *)
(* to it then: Finish discards no work.                                    *)
THEOREM StopIsLast == Spec => []StopDiscardsNothing
  <1>1. ASSUME IndInv PROVE StopDiscardsNothing
    <2> SUFFICES ASSUME NEW t \in Tools, cpc[t] = "gone" \/ (cpc[t] = "consume" /\ args[t].kind = "stop")
                 PROVE  queue[t] = <<>> /\ pending = <<>> /\ \A p \in {"committer", "foreign"} : ppc[p] = "idle"
      BY Zenon DEF StopDiscardsNothing
    <2>1. ppc["client"] \in {"joining", "finished"}
      BY Zenon, <1>1 DEF IndInv, StopInv, Unprocessed
    <2>2. pending = <<>> /\ \A p \in {"committer", "foreign"} : ppc[p] = "idle"
      BY Zenon, <1>1, <2>1 DEF IndInv, PendingInv, ClientQuiet, CallInv, Finishing
    <2>3. queue[t] = <<>>
      <3>1. CASE cpc[t] = "gone"
        BY Zenon, <1>1, <3>1 DEF IndInv, StopInv
      <3>2. CASE cpc[t] = "consume" /\ args[t].kind = "stop"
        <4>1. \A i \in DOMAIN queue[t] : Before(args[t], queue[t][i])
          BY Zenon, <1>1, <3>2 DEF IndInv, OrderInv
        <4>2. DOMAIN queue[t] = {}
          BY Zenon, <3>2, <4>1 DEF Before
        <4>3. queue[t] \in Seq(Events)
          BY Zenon, <1>1 DEF IndInv, TypeOK
        <4> QED
          BY ZenonT(60), <4>2, <4>3, EmptyFacts
      <3> QED
        BY Zenon, <3>1, <3>2
    <2> QED
      BY Zenon, <2>2, <2>3
  <1> QED
    BY <1>1, Invariance, PTL
=============================================================================
