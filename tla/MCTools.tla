------------------------------ MODULE MCTools ------------------------------
(* SyncSanitizer and RegisterSanitizer against what their reports are to   *)
(* mean, and PeerAccess with a history of resets.  They share nothing but  *)
(* the process: a job runs one of them.                                    *)
EXTENDS PeerAccess, Sequences, TLC

CONSTANTS Cores, Pipes, FlagIds, Jobs,
          PhysCores, Blocks, Registers, Unchecked, Values, MaxKernels

ASSUME ToolsAssumption == Cores \subseteq Int /\ Blocks \subseteq Int

VARIABLES job, kernel, phase, seen, syncEvents_, pipeRedundancyEvents_, redundancyInfo_,
          syncThreadsInfo_, report,                         \* SyncSanitizer
          place, next, regValActual_, written, regReport,   \* RegisterSanitizer
          quiet            \* the devices reset since they were last named in an Enable

Sync == INSTANCE SyncSanitizer
Reg == INSTANCE RegisterSanitizer WITH report <- regReport

peerVars == <<vars, quiet>>
syncVars == <<job, seen, syncEvents_, pipeRedundancyEvents_, redundancyInfo_, syncThreadsInfo_, report>>
regVars == <<place, next, regValActual_, written, regReport>>

MCInit == Init /\ quiet = {} /\ Sync!Init /\ Reg!Init

PeerNext ==
  \/ /\ \/ \E s \in Sanitizers : Create(s) \/ Destroy(s)
        \/ \E s \in Sanitizers, p \in Pids \cup {NoPid}, d \in Devs, ready \in BOOLEAN :
              SetDeviceInfo(s, p, d, ready)
        \/ \E s \in Sanitizers, new \in SUBSET Addrs : HostRecord(s, new)
        \/ \E p \in Pids, d, e \in Devs : Disable(p, d, e)
        \/ \E s \in Sanitizers, access \in SUBSET Addrs : CheckRemote(s, access)
        \/ Clear
     /\ UNCHANGED quiet
  \/ \E p \in Pids, d, e \in Devs : Enable(p, d, e) /\ quiet' = quiet \ {<<p, d>>, <<p, e>>}
  \/ \E p \in Pids, d \in Devs : Reset(p, d) /\ quiet' = quiet \cup {<<p, d>>}

MCNext ==
  \/ job.tool = "sync" /\ Sync!Next /\ UNCHANGED <<peerVars, regVars>>
  \/ job.tool = "register" /\ Reg!Next /\ UNCHANGED <<peerVars, syncVars>>
  \/ job.tool = "peer" /\ PeerNext /\ UNCHANGED <<syncVars, kernel, phase, regVars>>

MCSpec == MCInit /\ [][MCNext]_<<peerVars, syncVars, kernel, phase, regVars>>

-----------------------------------------------------------------------------

Positions == DOMAIN seen

IsChecked(e) == job.checkBlock \in {-1, e.core}

CountOf(flag, e) ==
  Cardinality({i \in Positions : IsChecked(seen[i]) /\ Sync!SyncID(seen[i].op, seen[i]) = Sync!SyncID(flag, e)})

(* The set_flags reported as unpaired (DoMatchCheck) are as many as a core *)
(* has more set_flags than wait_flags of a pair of pipes and an id, in     *)
(* whatever order they came.                                               *)
UnpairedExact ==
  report # Sync!NoReport =>
    \A i \in DOMAIN report.unpaired :
      LET e == [core |-> i[2], src |-> i[3], dst |-> i[4], id |-> i[5]]
          surplus == CountOf("SET_FLAG", e) - CountOf("WAIT_FLAG", e)
      IN Len(report.unpaired[i]) = IF surplus > 0 THEN surplus ELSE 0

(* Positions i < j repeat each other: the same instruction of the same     *)
(* core, and nothing of its pipe between them but barriers and what the    *)
(* preprocessing put in.                                                   *)
RepeatAt(i, j) ==
  /\ i < j /\ seen[i] = seen[j] /\ Sync!IsFlag(seen[j]) /\ ~seen[j].generated
  /\ IsChecked(seen[j])
  /\ \A k \in i+1..j-1 : \/ seen[k].generated \/ seen[k].op = "PIPE_BARRIER"
                         \/ Sync!GetPipeType(seen[k]) # Sync!GetPipeType(seen[j])

Repeated == {j \in Positions : \E i \in Positions : RepeatAt(i, j)}

Rank(j) == Cardinality({k \in Repeated : k <= j})

(* The pairs reported as redundant (DoRedundancyCheck) are the repetitions *)
(* of this kernel, no more and no fewer, in their order; the last core's   *)
(* and the last kernel's instructions are never taken for a repetition.    *)
RedundantExact ==
  report # Sync!NoReport =>
    /\ Len(report.redundant) = 2 * Cardinality(Repeated)
    /\ \A j \in Repeated : /\ report.redundant[2 * Rank(j) - 1] = seen[j]
                           /\ report.redundant[2 * Rank(j)] = seen[j]

(* The report of the synchronisation check is exact: the unpaired and the  *)
(* redundant instructions of this kernel, and nothing of another one.      *)
SyncReportExact == UnpairedExact /\ RedundantExact

(* A register is reported (DoEvents at KERNEL_FINISH) exactly when the     *)
(* last block of this kernel that wrote it on that core left another value *)
(* than the default, with that block: nothing of the kernel before, and    *)
(* nothing a later block on the same core put right.                       *)
ReportsLeftovers ==
  phase = "idle" /\ kernel > 0 /\ job.tool = "register" =>
    regReport = {<<place[w[1]], w[2], w[1]>> : w \in
               {w \in written : /\ w[2] \notin Unchecked
                                /\ Reg!Stored(w[2], w[3]) # Reg!regDftVal(w[2])
                                /\ \A x \in written : x[2] = w[2] /\ place[x[1]] = place[w[1]] => x[1] <= w[1]}}

(* After a reset no access from or to the device is granted until the host *)
(* enables one that names it again (PeerAccessManager::Apply, RESET).      *)
ResetCutsBoth ==
  \A p \in Pids, d \in Devs : <<p, d>> \in quiet =>
    \A s \in alive : \A access \in SUBSET Addrs :
      /\ sources[s] = <<p, d>> => ~Grants(s, access)
      /\ Grants(s, access) /\ sources[s][1] = p =>
           \E e \in Devs \ {d} : <<sources[s][2], e>> \in relations[p]
                                 /\ devices[p][e] # Nobody /\ access \subseteq covers[devices[p][e]]

Symmetry == Permutations(Sanitizers)

-----------------------------------------------------------------------------
Job(tool, checkBlock, maxKernels, maxEvents, maxErrors) ==
  [tool |-> tool, checkBlock |-> checkBlock, maxKernels |-> maxKernels, maxEvents |-> maxEvents,
   maxErrors |-> maxErrors]

(* One kernel of four events; two kernels, with the check of one block     *)
(* only; two kernels that write registers; sanitizers of two processes.    *)
MCJobs == {Job("sync", -1, 1, 4, 0), Job("sync", 1, 2, 2, 1), Job("register", -1, 2, 0, 0), Job("peer", -1, 0, 0, 0)}
=============================================================================
