------------------------------ MODULE RaceAlg ------------------------------
(***************************************************************************)
(* The race algorithms of one kernel (race_sanitizer/alg_framework:        *)
(* RaceAlgBase, RaceAlgImpl within a block, CrossCoreRaceAlgImpl between   *)
(* blocks).  Events collect in the queue of PIPE_S.  KERNEL_FINISH starts  *)
(* the second stage, a task of its own: the PipeLine replays the kernel    *)
(* with one vector clock per pipe, the memory events take the time of      *)
(* their pipe along, and the checker compares those times afterwards.      *)
(*                                                                         *)
(* An event met on PIPE_S that runs on another pipe is issued: PIPE_S      *)
(* ticks, and a TIME event that carries its clock goes ahead of it.        *)
(***************************************************************************)
EXTENDS Integers, Sequences, FiniteSets, FiniteSetsExt, TLC, VectorClock

CONSTANTS PipeNum,      \* pipes 0 (PIPE_S) .. PipeNum - 1
          Kernels,      \* the kernels: type, num (blocks), alg (the algorithm)
                        \* and max, the bound on the events of one block
          Shapes(_, _, _)  \* (kernel, block, events so far) -> what may follow

ASSUME RaceAssumption ==
  /\ PipeNum \in Nat \ {0}
  /\ \A k \in Kernels : /\ k.type \in {"AIVEC", "AICUBE", "MIX"}
                        /\ k.num \in Nat \ {0} /\ (k.type = "MIX" => k.num % 3 = 0)
                        /\ k.alg \in {"RaceAlgImpl", "CrossCoreRaceAlgImpl"}

VARIABLES ques, state, pipeState, deviceIndex, blockIndex, pipeIndex,
          blockPopped, devicePopped, blockStuck, deviceStuck, stuckDeviceNum,
          phase,     \* "collect", "replay" (stage 2) or "finished" (isFinished_)
          kernelInfo,  \* the kernel, and which algorithm checks it
          program    \* the events collected, per block

INSTANCE SyncOps WITH Join <- Merge

Blocks   == 0..(kernelInfo.num - 1)
AllPipes == {0} \X Blocks \X (0..(PipeNum - 1))
Epoch    == [p \in AllPipes |-> 1]

(* What an algorithm has a handler for: RaceAlgImpl has none for soft      *)
(* flags, signals and barriers.                                            *)
AllOps == {"MEM", "SET_FLAG", "WAIT_FLAG", "FFTS_SYNC", "WAIT_FLAG_DEV", "WAIT_INTRA_BLOCK",
           "IB_SET", "IB_WAIT", "MSTX_SET", "MSTX_WAIT", "SIGNAL_SET", "SIGNAL_WAIT",
           "BARRIER", "GET_BUF", "RLS_BUF"}
Handled(alg) == IF alg = "CrossCoreRaceAlgImpl" THEN AllOps
                ELSE AllOps \ {"IB_SET", "IB_WAIT", "SIGNAL_SET", "SIGNAL_WAIT", "BARRIER"}

(* Which handlers advance the clock before they store it, and after they   *)
(* merged into it.                                                         *)
TickFirst == {"SET_FLAG", "FFTS_SYNC", "IB_SET", "MSTX_SET", "SIGNAL_SET", "MEM"}
TickLast  == {"WAIT_FLAG", "SIGNAL_WAIT", "BARRIER", "TIME"}

GetBuf(s, e, b, t) ==
  LET times == At(s.que, <<"rls", b, e.buf>>)
  IN  CASE Len(times) < e.rls -> Stalled(s, t)
        [] e.rls > 0 /\ Len(times) = e.rls -> Done(s, JoinAll({times[i] : i \in DOMAIN times} \cup {t}))
        [] OTHER -> Done(s, t)

Handle(s, b, e, t) ==
  CASE e.op = "TIME"             -> Done(s, Merge(e.time, t))
    [] e.op \notin Handled(s.alg) -> Done(s, t)
    [] e.op = "MEM"              -> Done(s, t)
    [] e.op = "SET_FLAG"         -> Store(s, <<"flag", b, e.key>>, t)
    [] e.op = "WAIT_FLAG"        -> Take(s, <<"flag", b, e.key>>, t)
    [] e.op = "FFTS_SYNC"        -> SetBlockSyncInfo(s, e, b, t)
    [] e.op = "WAIT_FLAG_DEV"    -> GetBlockSyncInfo(s, e, b, t)
    [] e.op = "WAIT_INTRA_BLOCK" -> GetIntraBlockSyncInfo(s, e, b, t)
    [] e.op = "IB_SET"           -> SetBlockSoftSyncInfo(s, e, b, t)
    [] e.op = "IB_WAIT"          -> GetBlockSoftSyncInfo(s, e, t)
    [] e.op = "MSTX_SET"         -> Store(s, <<"mstx", e.key>>, t)
    [] e.op = "MSTX_WAIT"        -> GetMstxCrossInfo(s, e, t)
    [] e.op = "SIGNAL_SET"       -> SignalAccumulate(s, e, t)
    [] e.op = "SIGNAL_WAIT"      -> SignalWait(s, e, t)
    [] e.op = "BARRIER"          -> BarrierWait(s, e.used, e.used, CoreId(s, b), t)
    [] e.op = "GET_BUF"          -> GetBuf(s, e, b, t)
    [] e.op = "RLS_BUF"          -> Store(s, <<"rls", b, e.buf>>, t)

(* The state behind func_: the databases, the clocks vc_, and the memory   *)
(* events given to the checker with their times.                           *)
Perform(s, q, e) ==
  LET acts == e.op \in Handled(s.sync.alg) \cup {"TIME"}
      r    == Handle(s.sync, q[2], e, IF acts /\ e.op \in TickFirst THEN Tick(s.vc[q], q) ELSE s.vc[q])
      now  == IF acts /\ r.ok /\ e.op \in TickLast THEN Tick(r.t, q) ELSE r.t
  IN  [ok |-> r.ok, to |-> <<>>, push |-> <<>>,
       s |-> [sync |-> r.s, vc |-> [s.vc EXCEPT ![q] = now],
              mem |-> IF acts /\ e.op = "MEM" THEN s.mem \cup {[event |-> e, at |-> q, vt |-> now]}
                      ELSE s.mem]]

Issue_bare(s, q, e) ==
  [ok |-> TRUE, s |-> [s EXCEPT !.vc[q] = Tick(@, q)], to |-> <<0, e.block, e.pipe>>, push |-> <<e>>]
Issue(s, q, e) ==
  LET now == Tick(s.vc[q], q)
  IN  [ok |-> TRUE, s |-> [s EXCEPT !.vc[q] = now], to |-> <<0, e.block, e.pipe>>,
       push |-> <<[op |-> "TIME", pipe |-> e.pipe, block |-> e.block, time |-> now], e>>]

ProcessEvent(s, q, e) == IF e.pipe # q[3] THEN Issue(s, q, e) ELSE Perform(s, q, e)

INSTANCE PipeLine WITH DeviceNum <- 1, blockNum <- kernelInfo.num, Func <- ProcessEvent

own   == <<phase, kernelInfo, program>>
place == <<deviceIndex, blockIndex, pipeIndex, blockPopped, devicePopped,
           blockStuck, deviceStuck, stuckDeviceNum>>
vars  == <<ques, state, pipeState, place, own>>

Init == /\ kernelInfo \in Kernels
        /\ ques = [q \in Queues |-> <<>>]
        /\ state = [sync |-> EmptySync(kernelInfo) @@ [alg |-> kernelInfo.alg], vc |-> [p \in AllPipes |-> Epoch], mem |-> {}]
        /\ ContainerInit /\ pipeState = "CHECK_ALL_DEVICE"
        /\ phase = "collect"
        /\ program = [b \in Blocks |-> <<>>]

(* The parser counts the releases that precede a get. *)
Releases(b, e) == Len(SelectSeq(program[b], LAMBDA f : f.op = "RLS_BUF" /\ f.buf = e.buf))
Stamp(b, e) ==
  LET ev == e @@ [block |-> b, no |-> Len(program[b]) + 1]
  IN  IF e.op = "GET_BUF" THEN ev @@ [rls |-> Releases(b, e)] ELSE ev

Collect(b, e) ==
  /\ phase = "collect"
  /\ \A c \in Blocks : c > b => program[c] = <<>>
  /\ Len(program[b]) < kernelInfo.max
  /\ program' = [program EXCEPT ![b] = Append(@, Stamp(b, e))]
  /\ state' = [state EXCEPT !.sync = CacheMstxCrossSet(@, e)]
  /\ ques' = [ques EXCEPT ![<<0, b, PIPE_S>>] = Append(@, Stamp(b, e))]
  /\ UNCHANGED <<phase, kernelInfo, pipeState, place>>

(* SubmitStage2. *)
KernelFinish ==
  /\ phase = "collect"
  /\ phase' = "replay"
  /\ UNCHANGED <<ques, state, pipeState, place, kernelInfo, program>>

Replay == phase = "replay" /\ Run /\ UNCHANGED own

(* The task ends: memChecker_.RunAlgorithm, isFinished_. *)
Finish ==
  /\ phase = "replay" /\ pipeState \in {"EXIT", "EXCEPTION"}
  /\ phase' = "finished"
  /\ UNCHANGED <<ques, state, pipeState, place, kernelInfo, program>>

(* The results were read; the algorithm is not used again. *)
Idle == phase = "finished" /\ UNCHANGED vars

Next == \/ \E b \in Blocks : \E e \in Shapes(kernelInfo, b, program[b]) : Collect(b, e)
        \/ KernelFinish \/ Replay \/ Finish \/ Idle

Spec == Init /\ [][Next]_vars /\ WF_vars(Replay) /\ WF_vars(Finish)
-----------------------------------------------------------------------------
Events(b) == Range(program[b])
AllEvents == UNION {Events(b) : b \in Blocks}
Races == {<<m, n>> \in state.mem \X state.mem : Concurrent(m.vt, n.vt, m.at, n.at)}

=============================================================================
