------------------------------ MODULE CrossNpu ------------------------------
(***************************************************************************)
(* The race check across devices (CrossNpuChecker::Run and                 *)
(* CrossNpuRaceAlgImpl).  When the user's program has ended the records of *)
(* all devices are replayed as one: the kernels of each device are pushed  *)
(* in turn, a barrier of all blocks and pipes closes each kernel, and      *)
(* FINISH runs the PipeLine over the queues of all devices.                *)
(*                                                                         *)
(* FFTS, soft and MSTX flags and core barriers belong to one kernel of one *)
(* device, set_flag / wait_flag to a block of a device whatever the        *)
(* kernel, signals and barriers across devices to everyone.  Buffers have  *)
(* no handler here.  All kernels are MIX kernels of the same size, so that *)
(* a block has one number everywhere.                                      *)
(***************************************************************************)
EXTENDS Integers, Sequences, FiniteSets, FiniteSetsExt, TLC, VectorClock

CONSTANTS DeviceNum, BlockNum, PipeNum,
          Jobs,     \* what the devices ran: kernels (the number each launched) and
                    \* max, the bound on the events of a block in a kernel
          Shapes(_, _, _, _)  \* (job, device, block, events so far) -> what may follow

ASSUME NpuAssumption == /\ DeviceNum \in Nat \ {0} /\ PipeNum \in Nat \ {0}
                        /\ BlockNum \in Nat \ {0} /\ BlockNum % 3 = 0
                        /\ \A j \in Jobs : j.kernels \in Nat \ {0}

VARIABLES ques, state, pipeState, deviceIndex, blockIndex, pipeIndex,
          blockPopped, devicePopped, blockStuck, deviceStuck, stuckDeviceNum,
          phase,     \* "collect", "replay" or "finished" (isFinished_)
          at,        \* the device and the kernel CrossNpuChecker::Run is at
          job,       \* what the devices ran
          program    \* the events of each device, kernel and block

INSTANCE SyncOps WITH Join <- Merge

Devices  == 0..(DeviceNum - 1)
Kernels  == 0..(job.kernels - 1)
Blocks   == 0..(BlockNum - 1)
AllPipes == Devices \X Blocks \X (0..(PipeNum - 1))

(* Which databases an event meets. *)
Scope(e) == CASE e.op \in {"SIGNAL_SET", "SIGNAL_WAIT", "NPU_BARRIER"} -> <<>>
              [] e.op \in {"SET_FLAG", "WAIT_FLAG"} -> <<e.dev>>
              [] OTHER -> <<e.dev, e.kernel>>
Scopes == {<<>>} \cup {<<d>> : d \in Devices} \cup (Devices \X Kernels)

TickFirst == {"SET_FLAG", "FFTS_SYNC", "IB_SET", "MSTX_SET", "MEM"}
TickLast  == {"WAIT_FLAG", "SIGNAL_WAIT", "BARRIER", "NPU_BARRIER", "KERNEL_FINISH", "TIME"}

KernelRank == BlockNum * PipeNum

Handle(s, q, e, t) ==
  LET b == q[2] IN
  CASE e.op = "TIME"             -> Done(s, Merge(e.time, t))
    [] e.op = "MEM"              -> Done(s, t)
    [] e.op = "SET_FLAG"         -> Store(s, <<"flag", b, e.key>>, t)
    [] e.op = "WAIT_FLAG"        -> Take(s, <<"flag", b, e.key>>, t)
    [] e.op = "FFTS_SYNC"        -> SetBlockSyncInfo(s, e, b, t)
    [] e.op = "WAIT_FLAG_DEV"    -> GetBlockSyncInfo(s, e, b, t)
    [] e.op = "WAIT_INTRA_BLOCK" -> GetIntraBlockSyncInfo(s, e, b, t)
    [] e.op = "IB_SET"           -> SetBlockSoftSyncInfo(s, e, b, t)
    [] e.op = "IB_WAIT"          -> GetBlockSoftSyncInfo(s, e, t)
    [] e.op = "MSTX_SET"         -> Store(s, <<"mstx", e.key>>, t)
    [] e.op = "MSTX_WAIT"        -> GetMstxCrossInfo(s, e, t)
    [] e.op = "SIGNAL_SET"       -> SignalSet(s, e, t)
    [] e.op = "SIGNAL_WAIT"      -> SignalWait(s, e, t)
    [] e.op = "BARRIER"          -> BarrierWait(s, <<1, e.used>>, e.used, CoreId(s, b), t)
    [] e.op = "NPU_BARRIER"      -> BarrierWait(s, <<e.devs, e.used>>, e.devs * e.used,
                                                <<e.dev, CoreId(s, b)>>, t)
    [] e.op = "KERNEL_FINISH"    -> BarrierWait(s, <<"kernel">>, KernelRank, <<b, q[3]>>, t)
    [] OTHER                     -> Done(s, t)

Perform(s, q, e) ==
  LET r   == Handle(s.sync[Scope(e)], q, e, IF e.op \in TickFirst THEN Tick(s.vc[q], q) ELSE s.vc[q])
      now == IF r.ok /\ e.op \in TickLast THEN Tick(r.t, q) ELSE r.t
  IN  [ok |-> r.ok, to |-> <<>>, push |-> <<>>,
       s |-> [sync |-> [s.sync EXCEPT ![Scope(e)] = r.s], vc |-> [s.vc EXCEPT ![q] = now],
              mem |-> IF e.op = "MEM" THEN s.mem \cup {[event |-> e, at |-> q, vt |-> now]}
                      ELSE s.mem]]

(* An event met on PIPE_S goes to its pipe, behind the clock of PIPE_S. *)
Issue_bare(s, q, e) ==
  [ok |-> TRUE, s |-> s, to |-> <<e.dev, e.block, e.pipe>>, push |-> <<e>>]
Issue(s, q, e) ==
  LET now  == Tick(s.vc[q], q)
      time == [op |-> "TIME", pipe |-> e.pipe, block |-> e.block, dev |-> e.dev,
               kernel |-> e.kernel, time |-> now]
  IN  [ok |-> TRUE, s |-> [s EXCEPT !.vc[q] = now], to |-> <<e.dev, e.block, e.pipe>>,
       push |-> <<time, e>>]

ProcessEvent(s, q, e) == IF e.pipe # q[3] THEN Issue(s, q, e) ELSE Perform(s, q, e)

INSTANCE PipeLine WITH blockNum <- BlockNum, Func <- ProcessEvent

own   == <<phase, at, job, program>>
place == <<deviceIndex, blockIndex, pipeIndex, blockPopped, devicePopped,
           blockStuck, deviceStuck, stuckDeviceNum>>
vars  == <<ques, state, pipeState, place, own>>

Init == /\ job \in Jobs
        /\ ques = [q \in Queues |-> <<>>]
        /\ state = [sync |-> [c \in Scopes |-> EmptySync([type |-> "MIX", num |-> BlockNum])],
                    vc |-> [p \in AllPipes |-> [q \in AllPipes |-> 1]], mem |-> {}]
        /\ ContainerInit /\ pipeState = "CHECK_ALL_DEVICE"
        /\ phase = "collect" /\ at = <<0, 0>>
        /\ program = [c \in Devices \X Kernels \X Blocks |-> <<>>]

Collect(b, e) ==
  LET p  == program[<<at[1], at[2], b>>]
      ev == e @@ [block |-> b, dev |-> at[1], kernel |-> at[2], no |-> Len(p) + 1]
  IN  /\ phase = "collect" /\ at[1] \in Devices /\ at[2] \in Kernels
      /\ \A c \in Blocks : c > b => program[<<at[1], at[2], c>>] = <<>>
      /\ Len(p) < job.max
      /\ program' = [program EXCEPT ![<<at[1], at[2], b>>] = Append(@, ev)]
      /\ state' = [state EXCEPT !.sync[at] = CacheMstxCrossSet(@, e)]
      /\ ques' = [ques EXCEPT ![<<at[1], b, PIPE_S>>] = Append(@, ev)]
      /\ UNCHANGED <<phase, at, job, pipeState, place>>

(* CreateKernelBarrier: one event per pipe, the one of PIPE_S last. *)
Closing(b) == [i \in 1..PipeNum |-> [op |-> "KERNEL_FINISH", pipe |-> i % PipeNum, block |-> b,
                                     dev |-> at[1], kernel |-> at[2]]]
KernelFinish ==
  /\ phase = "collect" /\ at[1] \in Devices /\ at[2] \in Kernels
  /\ ques' = [q \in Queues |-> IF q[1] = at[1] /\ q[3] = PIPE_S THEN ques[q] \o Closing(q[2])
                               ELSE ques[q]]
  /\ at' = IF at[2] + 1 < job.kernels THEN <<at[1], at[2] + 1>> ELSE <<at[1] + 1, 0>>
  /\ UNCHANGED <<state, phase, job, program, pipeState, place>>

(* The FINISH record. *)
Start ==
  /\ phase = "collect" /\ at[1] = DeviceNum
  /\ phase' = "replay"
  /\ UNCHANGED <<ques, state, at, job, program, pipeState, place>>

Replay == phase = "replay" /\ Run /\ UNCHANGED own

Finish ==
  /\ phase = "replay" /\ pipeState \in {"EXIT", "EXCEPTION"}
  /\ phase' = "finished"
  /\ UNCHANGED <<ques, state, at, job, program, pipeState, place>>

(* The checker runs once. *)
Idle == phase = "finished" /\ UNCHANGED vars

Next == \/ \E b \in Blocks :
             \E e \in Shapes(job, at[1], b, IF at[1] = DeviceNum THEN <<>> ELSE program[<<at[1], at[2], b>>]) :
               Collect(b, e)
        \/ KernelFinish \/ Start \/ Replay \/ Finish \/ Idle

Spec == Init /\ [][Next]_vars /\ WF_vars(Replay) /\ WF_vars(Finish)
-----------------------------------------------------------------------------
AllEvents == UNION {Range(program[c]) : c \in DOMAIN program}
Races == {<<m, n>> \in state.mem \X state.mem : Concurrent(m.vt, n.vt, m.at, n.at)}

(* The barrier carries the clocks of everything before it: an access of an *)
(* earlier kernel happens before each access of a later one.               *)
KernelsOrdered ==
  \A m, n \in state.mem :
    m.event.dev = n.event.dev /\ m.event.kernel < n.event.kernel => m.vt[m.at] <= n.vt[m.at]

(* PipeLine::Run returns for every program, so that the check across       *)
(* devices, the last thing the tool does, comes to an end.                 *)
ReplayEnds == (phase = "replay") ~> (phase = "finished")
=============================================================================
