---------------------------- MODULE SyncSanitizer ----------------------------
(***************************************************************************)
(* SyncSanitizer: finds set_flags without a wait_flag, set_flags and       *)
(* wait_flags that repeat the last instruction of their pipe, threads that *)
(* miss a barrier (reported by the device) and kernels that hang.          *)
(*                                                                         *)
(* It sees the events of a kernel core by core, each core in program       *)
(* order, and reports at the end of the kernel.  The replay that tells     *)
(* which pipes hang is Replayer; here its result is that none or all do.   *)
(***************************************************************************)
EXTENDS Integers, Sequences

CONSTANTS Cores,           \* 0..n-1
          Pipes, FlagIds,
          Jobs             \* checkBlock: --block-id, or -1; maxKernels; maxEvents: of a kernel;
                           \* maxErrors: threads reported by the device

VARIABLES job,
          kernel,          \* the number of the kernel, 0 before the first
          phase,           \* "idle" or "run"
          seen,            \* the events of the kernel so far
          syncEvents_,     \* per synchronisation id: the instructions without partner
          pipeRedundancyEvents_,  \* per pipe: its last instruction
          redundancyInfo_,
          syncThreadsInfo_,
          report           \* what the last kernel's end reported

vars == <<job, kernel, phase, seen, syncEvents_, pipeRedundancyEvents_, redundancyInfo_,
          syncThreadsInfo_, report>>

Flags == [op : {"SET_FLAG", "WAIT_FLAG"}, core : Cores, src : Pipes, dst : Pipes, id : FlagIds,
          generated : BOOLEAN]

Other(op, core, pipe) ==
  [op |-> op, core |-> core, src |-> pipe, dst |-> pipe, id |-> 0, generated |-> FALSE]

Others == {Other(op, c, p) : op \in {"MEM", "PIPE_BARRIER"}, c \in Cores, p \in Pipes}

(* A pipe does not synchronise with itself.                                *)
Events == {e \in Flags : e.src # e.dst} \cup Others

IsFlag(e) == e.op \in {"SET_FLAG", "WAIT_FLAG"}

None == [op |-> "NONE"]

(* CalcSetFlagSyncID and CalcWaitFlagSyncID: the fields, and which it is.  *)
SyncID(op, e) == <<op, e.core, e.src, e.dst, e.id>>

SyncIDs == {SyncID(op, e) : op \in {"SET_FLAG", "WAIT_FLAG"}, e \in {f \in Flags : f.src # f.dst}}

PopBack(s) == SubSeq(s, 1, Len(s) - 1)

Partner(op) == IF op = "SET_FLAG" THEN "WAIT_FLAG" ELSE "SET_FLAG"

NoReport == [kernel |-> 0, unpaired |-> [i \in {} |-> <<>>], redundant |-> <<>>, threads |-> <<>>, stuck |-> {}]

Init ==
  /\ job \in Jobs
  /\ kernel = 0 /\ phase = "idle" /\ seen = <<>>
  /\ syncEvents_ = [i \in SyncIDs |-> <<>>]
  /\ pipeRedundancyEvents_ = [p \in Pipes |-> None]
  /\ redundancyInfo_ = <<>> /\ syncThreadsInfo_ = <<>>
  /\ report = NoReport

SetKernelInfo_kept ==
  /\ phase = "idle" /\ kernel < job.maxKernels
  /\ kernel' = kernel + 1 /\ phase' = "run" /\ seen' = <<>>
  /\ syncEvents_' = [i \in SyncIDs |-> <<>>]
  /\ redundancyInfo_' = <<>>
  /\ report' = NoReport
  /\ UNCHANGED <<syncThreadsInfo_, pipeRedundancyEvents_>>

(* Init clears all of the last kernel but the threads' errors.             *)
SetKernelInfo ==
  /\ phase = "idle" /\ kernel < job.maxKernels
  /\ kernel' = kernel + 1 /\ phase' = "run" /\ seen' = <<>>
  /\ syncEvents_' = [i \in SyncIDs |-> <<>>]
  /\ pipeRedundancyEvents_' = [p \in Pipes |-> None]
  /\ redundancyInfo_' = <<>>
  /\ report' = NoReport
  /\ UNCHANGED syncThreadsInfo_

IsTargetBlockId(core) == job.checkBlock \in {-1, core}

DoMatchCheck_ordered(e) ==
  LET self == SyncID(e.op, e)
      peer == SyncID(Partner(e.op), e)
  IN IF ~IsFlag(e) THEN syncEvents_
     ELSE IF e.op = "WAIT_FLAG" /\ syncEvents_[peer] # <<>> THEN [syncEvents_ EXCEPT ![peer] = PopBack(@)]
     ELSE [syncEvents_ EXCEPT ![self] = Append(@, e)]

(* A waiting partner is taken away, the youngest first; else e waits.      *)
DoMatchCheck(e) ==
  LET self == SyncID(e.op, e)
      peer == SyncID(Partner(e.op), e)
  IN IF ~IsFlag(e) THEN syncEvents_
     ELSE IF syncEvents_[peer] # <<>> THEN [syncEvents_ EXCEPT ![peer] = PopBack(@)]
     ELSE [syncEvents_ EXCEPT ![self] = Append(@, e)]

GetPipeType(e) == IF e.op = "WAIT_FLAG" THEN e.dst ELSE e.src

(* The same instruction of the same core as the last one of its pipe.      *)
Repeats(e, last) == IsFlag(e) /\ last = e

(* Other instructions of the pipe end its memory (a buffer request is kept *)
(* but equals no flag); barriers and what the preprocessing put in are     *)
(* skipped.                                                                *)
LastAfter(e, last) ==
  IF e.generated \/ e.op = "PIPE_BARRIER" THEN last ELSE IF IsFlag(e) THEN e ELSE None

DoEvent(e) ==
  LET pipe == GetPipeType(e)
      last == pipeRedundancyEvents_[pipe]
  IN /\ phase = "run" /\ Len(seen) < job.maxEvents
     /\ seen # <<>> => seen[Len(seen)].core <= e.core
     /\ seen' = Append(seen, e)
     /\ IF IsTargetBlockId(e.core)
        THEN /\ syncEvents_' = DoMatchCheck(e)
             /\ pipeRedundancyEvents_' = [pipeRedundancyEvents_ EXCEPT ![pipe] = LastAfter(e, last)]
             /\ redundancyInfo_' = IF ~e.generated /\ Repeats(e, last)
                                   THEN redundancyInfo_ \o <<last, e>> ELSE redundancyInfo_
        ELSE UNCHANGED <<syncEvents_, pipeRedundancyEvents_, redundancyInfo_>>
     /\ UNCHANGED <<kernel, phase, syncThreadsInfo_, report>>

(* The device found a thread that missed a barrier of this kernel.         *)
ParseOnlineError ==
  /\ phase = "run" /\ Len(syncThreadsInfo_) < job.maxErrors
  /\ syncThreadsInfo_' = Append(syncThreadsInfo_, kernel)
  /\ UNCHANGED <<kernel, phase, seen, syncEvents_, pipeRedundancyEvents_, redundancyInfo_, report>>

(* Only set_flags are reported as unpaired.                                *)
ReportUnpairedInfo == [i \in {j \in SyncIDs : j[1] = "SET_FLAG"} |-> syncEvents_[i]]

KernelFinish(stuck) ==
  /\ phase = "run"
  /\ phase' = "idle"
  /\ report' = [kernel |-> kernel,
                unpaired |-> ReportUnpairedInfo,
                redundant |-> redundancyInfo_,
                threads |-> syncThreadsInfo_,
                stuck |-> stuck]
  /\ UNCHANGED <<kernel, seen, syncEvents_, pipeRedundancyEvents_, redundancyInfo_, syncThreadsInfo_>>

Next ==
  /\ \/ SetKernelInfo
     \/ \E e \in Events : DoEvent(e)
     \/ ParseOnlineError
     \/ \E stuck \in {{}, Pipes} : KernelFinish(stuck)
  /\ UNCHANGED job

Spec == Init /\ [][Next]_vars
=============================================================================
