------------------------------ MODULE PipeLine ------------------------------
(***************************************************************************)
(* PipeLine::Run over an EventContainer (core/framework/pipe_line.cpp,     *)
(* event_container.cpp): one queue of events per device, block and pipe.   *)
(* The loop walks the queues in a fixed order and offers the front event   *)
(* of the current one to func_, which executes it or stalls.  A pass over  *)
(* the pipes of a block that pops nothing leaves the block, a pass over    *)
(* the blocks of a device that pops nothing leaves the device, and when    *)
(* the counter of stuck devices reaches the number of devices the loop     *)
(* gives up (EXCEPTION).                                                   *)
(*                                                                         *)
(* Func is func_: what an event does to the state of the replaying         *)
(* algorithm, and the events it pushes (an event met in the queue of       *)
(* PIPE_S is moved to the queue of its own pipe).  The pop counters are    *)
(* compared with zero only, so they are Booleans here.                     *)
(***************************************************************************)
EXTENDS Integers, Sequences

CONSTANTS DeviceNum, PipeNum,
          Func(_, _, _)   \* Func(state, queue, event): [ok, s, push]

VARIABLES blockNum,    \* blockNum_, which Init sets
          ques,        \* [Queues -> Seq of events]
          state,       \* what the algorithm behind func_ keeps
          pipeState,   \* PipeState of the loop
          deviceIndex, blockIndex, pipeIndex,
          blockPopped, devicePopped,     \* the pop counters are not zero
          blockStuck, deviceStuck,       \* isBlockStuck_, isDeviceStuck_
          stuckDeviceNum

container == <<deviceIndex, blockIndex, pipeIndex, blockPopped, devicePopped,
               blockStuck, deviceStuck, stuckDeviceNum>>
lineVars  == <<ques, state, pipeState, container>>

Queues == (0..(DeviceNum - 1)) \X (0..(blockNum - 1)) \X (0..(PipeNum - 1))
PIPE_S == 0
Cur    == <<deviceIndex, blockIndex, pipeIndex>>

BlockEmpty(d, b) == \A p \in 0..(PipeNum - 1) : ques[<<d, b, p>>] = <<>>
DeviceEmpty(d)   == \A b \in 0..(blockNum - 1) : BlockEmpty(d, b)
AllEmpty         == \A q \in Queues : ques[q] = <<>>

(* EventContainer::Init, and a PipeLine that has not run. *)
ContainerInit == /\ deviceIndex = 0 /\ blockIndex = 0 /\ pipeIndex = 0
                 /\ blockPopped = FALSE /\ devicePopped = FALSE
                 /\ blockStuck = FALSE /\ deviceStuck = FALSE
                 /\ stuckDeviceNum = 0
ContainerReset == /\ deviceIndex' = 0 /\ blockIndex' = 0 /\ pipeIndex' = 0
                  /\ blockPopped' = FALSE /\ devicePopped' = FALSE
                  /\ blockStuck' = FALSE /\ deviceStuck' = FALSE
                  /\ stuckDeviceNum' = 0
-----------------------------------------------------------------------------
CheckAllDevice ==
  /\ pipeState = "CHECK_ALL_DEVICE"
  /\ pipeState' = IF AllEmpty THEN "EXIT" ELSE "CHECK_CUR_DEVICE"
  /\ UNCHANGED <<ques, state, container>>

CountStuck_never == IF deviceStuck THEN stuckDeviceNum ELSE 0
CountStuck == IF deviceStuck THEN stuckDeviceNum + 1 ELSE 0

SwitchToNextDevice ==
  /\ deviceIndex' = (deviceIndex + 1) % DeviceNum
  /\ blockIndex' = 0 /\ pipeIndex' = 0
  /\ blockPopped' = FALSE /\ devicePopped' = FALSE
  /\ blockStuck' = FALSE /\ deviceStuck' = FALSE

LeaveDevice == deviceStuck \/ DeviceEmpty(deviceIndex)

StayOnDevice ==
  /\ pipeState = "CHECK_CUR_DEVICE" /\ ~LeaveDevice
  /\ pipeState' = "CHECK_CUR_BLOCK"
  /\ UNCHANGED <<ques, state, container>>

NextDevice ==
  /\ pipeState = "CHECK_CUR_DEVICE" /\ LeaveDevice
  /\ CountStuck # DeviceNum
  /\ stuckDeviceNum' = CountStuck
  /\ SwitchToNextDevice
  /\ pipeState' = "CHECK_ALL_DEVICE"
  /\ UNCHANGED <<ques, state>>

GiveUp ==
  /\ pipeState = "CHECK_CUR_DEVICE" /\ LeaveDevice
  /\ CountStuck = DeviceNum
  /\ stuckDeviceNum' = CountStuck
  /\ pipeState' = "EXCEPTION"
  /\ UNCHANGED <<ques, state, deviceIndex, blockIndex, pipeIndex, blockPopped,
                 devicePopped, blockStuck, deviceStuck>>

LeaveBlock == blockStuck \/ BlockEmpty(deviceIndex, blockIndex)

StayOnBlock ==
  /\ pipeState = "CHECK_CUR_BLOCK" /\ ~LeaveBlock
  /\ pipeState' = "CHECK_CUR_PIPE"
  /\ UNCHANGED <<ques, state, container>>

AfterPass(popped) == IF popped THEN 0 ELSE stuckDeviceNum

(* SwitchToNextBlock: a full pass over the blocks decides deviceStuck. *)
NextBlock ==
  LET next == (blockIndex + 1) % blockNum IN
  /\ pipeState = "CHECK_CUR_BLOCK" /\ LeaveBlock
  /\ blockIndex' = next /\ pipeIndex' = 0
  /\ blockPopped' = FALSE /\ blockStuck' = FALSE
  /\ deviceStuck' = IF next = 0 THEN ~devicePopped ELSE deviceStuck
  /\ devicePopped' = (next # 0 /\ devicePopped)
  /\ stuckDeviceNum' = AfterPass(next = 0 /\ devicePopped)
  /\ pipeState' = "CHECK_CUR_DEVICE"
  /\ UNCHANGED <<ques, state, deviceIndex>>

(* SwitchToNextPipe: a full pass over the pipes decides blockStuck. *)
SwitchToNextPipe ==
  LET next == (pipeIndex + 1) % PipeNum IN
  /\ pipeIndex' = next
  /\ blockStuck' = IF next = PIPE_S THEN ~blockPopped ELSE blockStuck
  /\ blockPopped' = (next # PIPE_S /\ blockPopped)
  /\ pipeState' = "CHECK_CUR_BLOCK"
  /\ UNCHANGED <<deviceIndex, blockIndex, devicePopped, deviceStuck, stuckDeviceNum>>

SkipPipe ==
  /\ pipeState = "CHECK_CUR_PIPE" /\ ques[Cur] = <<>>
  /\ SwitchToNextPipe
  /\ UNCHANGED <<ques, state>>

EnterPipe ==
  /\ pipeState = "CHECK_CUR_PIPE" /\ ques[Cur] # <<>>
  /\ pipeState' = "PROCESS_EVENT"
  /\ UNCHANGED <<ques, state, container>>

Popped(r) == [q \in Queues |->
                LET old == IF q = Cur THEN Tail(ques[q]) ELSE ques[q]
                IN  IF r.to = q THEN old \o r.push ELSE old]

ProcessOk ==
  LET r == Func(state, Cur, Head(ques[Cur])) IN
  /\ pipeState = "PROCESS_EVENT" /\ r.ok
  /\ ques' = Popped(r)
  /\ state' = r.s
  /\ blockPopped' = TRUE /\ devicePopped' = TRUE
  /\ pipeState' = "CHECK_CUR_PIPE"
  /\ UNCHANGED <<deviceIndex, blockIndex, pipeIndex, blockStuck, deviceStuck, stuckDeviceNum>>

ProcessStalled ==
  LET r == Func(state, Cur, Head(ques[Cur])) IN
  /\ pipeState = "PROCESS_EVENT" /\ ~r.ok
  /\ state' = r.s
  /\ SwitchToNextPipe
  /\ UNCHANGED ques

Run == \/ CheckAllDevice
       \/ StayOnDevice \/ NextDevice \/ GiveUp
       \/ StayOnBlock \/ NextBlock
       \/ SkipPipe \/ EnterPipe
       \/ ProcessOk \/ ProcessStalled

=============================================================================
