------------------------------ MODULE Replayer ------------------------------
(***************************************************************************)
(* PipelineReplayer (core/framework/pipeline_replayer.cpp): synccheck      *)
(* finds with it the waits of a kernel that no set ever answers, and       *)
(* initcheck the order in which to apply the memory accesses.              *)
(*                                                                         *)
(* One object serves kernel after kernel, of any type and number of        *)
(* blocks.  SetKernelInfo calls Init; Do                                   *)
(* collects the events of a block in the queue of PIPE_S; the event of     *)
(* KERNEL_FINISH runs the PipeLine.  A synchronisation event met in the    *)
(* queue of another pipe moves to the queue of its own; a memory access    *)
(* stays in the queue of PIPE_S and is reported when it is met.            *)
(*                                                                         *)
(* An event is its record (op, pipe and operands), its block and its place *)
(* in the block's program.                                                 *)
(***************************************************************************)
EXTENDS SyncOps

CONSTANTS PipeNum,      \* pipes 0 (PIPE_S) .. PipeNum - 1
          Kernels,      \* the kernels: type, num (blocks), and the bounds of a
                        \* block: max events, each op once if once
          Shapes(_, _)  \* (kernel, block) -> the events the block is made of

ASSUME ReplayAssumption ==
  /\ PipeNum \in Nat \ {0}
  /\ \A k \in Kernels : /\ k.type \in {"AIVEC", "AICUBE", "MIX"}
                        /\ k.num \in Nat \ {0} /\ (k.type = "MIX" => k.num % 3 = 0)

Ops == {"READ", "WRITE", "MEMCPY", "OTHER", "SET_FLAG", "WAIT_FLAG", "FFTS_SYNC", "WAIT_FLAG_DEV",
        "WAIT_INTRA_BLOCK", "IB_SET", "IB_WAIT", "MSTX_SET", "MSTX_WAIT", "BARRIER", "GET_BUF", "RLS_BUF"}

ASSUME ShapesAssumption ==
  \A k \in Kernels : \A b \in 0..(k.num - 1) : \A e \in Shapes(k, b) :
    /\ {"op", "pipe"} \subseteq DOMAIN e /\ e.op \in Ops /\ e.pipe \in 0..(PipeNum - 1)
    /\ e.op = "FFTS_SYNC" => "mode" \in DOMAIN e /\ e.mode \in {0, 1, 2, 4}
    /\ e.op \in {"GET_BUF", "RLS_BUF"} => "buf" \in DOMAIN e

VARIABLES ques, state, pipeState, deviceIndex, blockIndex, pipeIndex,
          blockPopped, devicePopped, blockStuck, deviceStuck, stuckDeviceNum,
          phase,      \* "collect", "replay" or "finished" (isFinished_)
          kernelInfo, \* the kernel
          program     \* the events collected, per block

(* The replayer drops the times. *)
NoTime == "t"

MemOps == {"READ", "WRITE"}

(* vecSubBlockDim of an FFTS event, when it is valid, replaces dim; a wait *)
(* carries 0.                                                              *)
SetVecSubBlockDim_ignored(s, e) == s
SetVecSubBlockDim(s, e) == IF e.op = "FFTS_SYNC" /\ e.dim \in 1..2
                           THEN [s EXCEPT !.dim = e.dim] ELSE s

(* A get of a buffer waits for the releases that precede it in the program *)
(* (rlsCount) and for one release more than there were gets.               *)
GetBuf_uncounted(s, e, b) ==
  LET c == <<"rls", b, e.buf>>
  IN  IF Len(At(s.got, c)) > Len(At(s.que, c)) THEN Stalled(s, NoTime)
      ELSE Done([s EXCEPT !.got = PushAll(@, {c}, NoTime)], NoTime)
GetBuf(s, e, b) ==
  LET c    == <<"rls", b, e.buf>>
      n    == Len(At(s.que, c))
      used == Len(At(s.got, c))
  IN  IF n < e.rls \/ used > n THEN Stalled(s, NoTime)
      ELSE Done([s EXCEPT !.got = PushAll(@, {c}, NoTime)], NoTime)

Handle(s, b, e) ==
  CASE e.op \in MemOps          -> Done(s, NoTime)
    [] e.op = "OTHER"            -> Done(s, NoTime)
    [] e.op = "SET_FLAG"         -> Store(s, <<"flag", b, e.key>>, NoTime)
    [] e.op = "WAIT_FLAG"        -> Take(s, <<"flag", b, e.key>>, NoTime)
    [] e.op = "FFTS_SYNC"        -> SetBlockSyncInfo(SetVecSubBlockDim(s, e), e, b, NoTime)
    [] e.op = "WAIT_FLAG_DEV"    -> GetBlockSyncInfo(s, e, b, NoTime)
    [] e.op = "WAIT_INTRA_BLOCK" -> GetIntraBlockSyncInfo(s, e, b, NoTime)
    [] e.op = "IB_SET"           -> SetBlockSoftSyncInfo(s, e, b, NoTime)
    [] e.op = "IB_WAIT"          -> GetBlockSoftSyncInfo(s, e, NoTime)
    [] e.op = "MSTX_SET"         -> Store(s, <<"mstx", e.key>>, NoTime)
    [] e.op = "MSTX_WAIT"        -> GetMstxCrossInfo(s, e, NoTime)
    [] e.op = "BARRIER"          -> BarrierWait(s, e.used, e.used, CoreId(s, b), NoTime)
    [] e.op = "GET_BUF"          -> GetBuf(s, e, b)
    [] e.op = "RLS_BUF"          -> Store(s, <<"rls", b, e.buf>>, NoTime)

RunsOn(e) == e.pipe
Migrates_all(q, e) == RunsOn(e) # q[3]
Migrates(q, e) == e.op \notin MemOps /\ RunsOn(e) # q[3]
ProcessEvent(s, q, e) ==
  LET r == Handle(s, e.block, e) IN
  IF Migrates(q, e)
  THEN [ok |-> TRUE, s |-> s, to |-> <<0, e.block, RunsOn(e)>>, push |-> <<e>>]
  ELSE [ok |-> r.ok, s |-> r.s, to |-> <<>>, push |-> <<>>]

INSTANCE PipeLine WITH DeviceNum <- 1, blockNum <- kernelInfo.num, Func <- ProcessEvent

Blocks == 0..(kernelInfo.num - 1)

own   == <<phase, kernelInfo, program>>
place == <<deviceIndex, blockIndex, pipeIndex, blockPopped, devicePopped,
           blockStuck, deviceStuck, stuckDeviceNum>>
vars  == <<ques, state, pipeState, place, own>>

Init == /\ kernelInfo \in Kernels
        /\ ques = [q \in Queues |-> <<>>]
        /\ state = EmptySync(kernelInfo)
        /\ ContainerInit /\ pipeState = "CHECK_ALL_DEVICE"
        /\ phase = "collect"
        /\ program = [b \in Blocks |-> <<>>]
-----------------------------------------------------------------------------
Events(b) == Range(program[b])
OfBuf(e, op, buf) == e.op = op /\ e.buf = buf

(* What the parser makes of a shape: the count of the releases that        *)
(* precede a get, and both accesses of a copy between blocks of memory     *)
(* (EventContainer::Push).                                                 *)
Releases(b, e) == Cardinality({f \in Events(b) : OfBuf(f, "RLS_BUF", e.buf)})
Over(r, e) == [x \in DOMAIN r \cup DOMAIN e |-> IF x \in DOMAIN r THEN r[x] ELSE e[x]]
Stamp(b, e) ==
  LET ev == Over([block |-> b, no |-> Len(program[b]) + 1], e)
  IN  CASE e.op = "GET_BUF" -> <<Over([rls |-> Releases(b, e)], ev)>>
        [] e.op = "MEMCPY"  -> <<[ev EXCEPT !.op = "READ"],
                                 [ev EXCEPT !.op = "WRITE", !.no = @ + 1]>>
        [] OTHER            -> <<ev>>

(* The blocks of a kernel are parsed one after another. *)
Collect(b, e) ==
  /\ phase = "collect"
  /\ \A c \in Blocks : c > b => program[c] = <<>>
  /\ Len(program[b]) < kernelInfo.max
  /\ kernelInfo.once => \A i \in DOMAIN program[b] : program[b][i].op # e.op
  /\ program' = [program EXCEPT ![b] = @ \o Stamp(b, e)]
  /\ state' = CacheMstxCrossSet(state, e)
  /\ ques' = [ques EXCEPT ![<<0, b, PIPE_S>>] = @ \o Stamp(b, e)]
  /\ UNCHANGED <<phase, kernelInfo, pipeState, place>>

KernelFinish ==
  /\ phase = "collect"
  /\ phase' = "replay"
  /\ UNCHANGED <<ques, state, pipeState, place, kernelInfo, program>>

Replay == phase = "replay" /\ Run /\ UNCHANGED own

Ended == pipeState \in {"EXIT", "EXCEPTION"}
Finish ==
  /\ phase = "replay" /\ Ended
  /\ phase' = "finished"
  /\ UNCHANGED <<ques, state, pipeState, place, kernelInfo, program>>

(* SetKernelInfo of the next kernel: Init. *)
Cleared_kept(k) == [state EXCEPT !.type = k.type, !.num = k.num]
Cleared(k) == EmptySync(k)
NoEvents(k) == [q \in {0} \X (0..(k.num - 1)) \X (0..(PipeNum - 1)) |-> <<>>]
NextKernel(k) ==
  /\ phase = "finished"
  /\ phase' = "collect" /\ kernelInfo' = k
  /\ program' = [b \in 0..(k.num - 1) |-> <<>>]
  /\ ques' = NoEvents(k)
  /\ state' = Cleared(k)
  /\ ContainerReset /\ pipeState' = "CHECK_ALL_DEVICE"

Next == \/ \E b \in Blocks : \E e \in Shapes(kernelInfo, b) : Collect(b, e)
        \/ KernelFinish \/ Replay \/ Finish
        \/ \E k \in Kernels : NextKernel(k)

Spec == Init /\ [][Next]_vars /\ WF_vars(Replay) /\ WF_vars(Finish)
-----------------------------------------------------------------------------
Waiting   == UNION {Range(ques[q]) : q \in Queues}
Executed(e) == e \notin Waiting
IsMem(e)    == e.op \in MemOps

(* The accesses of a block are reported in the order of its program,       *)
(* although the synchronisation events around them move to other queues:   *)
(* initcheck applies them in this order.                                   *)
AccessesInOrder ==
  \A b \in Blocks : \A e, f \in Events(b) :
    IsMem(e) /\ IsMem(f) /\ f.no < e.no /\ Executed(e) => Executed(f)

Ran(b, P(_)) == Cardinality({e \in Events(b) : Executed(e) /\ P(e)})

(* The cores that take part in FFTS: a MIX kernel has dim vector cores per *)
(* cube core, numbered densely.                                            *)
Dim       == IF \E b \in Blocks : \E e \in Events(b) : e.op = "FFTS_SYNC" /\ e.dim = 1
             THEN 1 ELSE 2
IsCube(b) == IsAIC(kernelInfo, b)
Number(b) == CoreId(kernelInfo, b)
Cores     == {b \in Blocks : IsCube(b) \/ Number(b) < AIVCount([state EXCEPT !.dim = Dim])}
AiCore(b) == IF IsCube(b) THEN Number(b) ELSE Number(b) \div Dim
Team(b)     == {i \in Cores : IsCube(i) = IsCube(b)}
Partners(b) == {i \in Cores : IsCube(i) # IsCube(b) /\ AiCore(i) = AiCore(b)}
Pair(b)     == {i \in Team(b) : AiCore(i) = AiCore(b)}
Sets(b, m, f) == Ran(b, LAMBDA e : e.op = "FFTS_SYNC" /\ e.mode = m /\ e.flag = f)
Waits(b, op, f) == Ran(b, LAMBDA e : e.op = op /\ e.flag = f)
Fewest(cores, m, f) == Min({Sets(i, m, f) : i \in cores})

(* The waits a core may pass: in mode 0 as often as every core of its kind *)
(* has set the flag, in mode 1 as often as both vector cores of its AI     *)
(* core, in mode 2 as often as all its partners on the other side.  What   *)
(* the databases hold for it is this number less the waits it has passed,  *)
(* in whatever order sets and waits were replayed, whenever a block is     *)
(* left.  In mode 4 the flags of a vector core and of its cube core are    *)
(* paired; the cube core's flags from AivFlags on belong to the second     *)
(* vector core.                                                            *)
BlockLeft == phase # "collect" /\ pipeState \in {"CHECK_CUR_DEVICE", "EXIT", "EXCEPTION"}
FftsTokens ==
    \A b \in Cores : \A f \in {e.flag : e \in {x \in Events(b) : x.op = "WAIT_FLAG_DEV"}} :
      Len(At(state.que, <<"wait", b, f>>)) + Waits(b, "WAIT_FLAG_DEV", f) =
        Fewest(Team(b), 0, f) + Fewest(Partners(b), 2, f)
          + (IF IsCube(b) THEN 0 ELSE Fewest(Pair(b), 1, f))
Twin(b, f) ==
  IF IsCube(b) THEN <<CHOOSE i \in Partners(b) : Dim = 1 \/ Number(i) % Dim = f \div AivFlags, f % AivFlags>>
  ELSE <<CHOOSE i \in Partners(b) : TRUE, IF Dim = 1 THEN f ELSE f + AivFlags * (Number(b) % Dim)>>
IntraTokens ==
    \A b \in Cores : \A f \in {e.flag : e \in {x \in Events(b) : x.op = "WAIT_INTRA_BLOCK"}} :
      Len(At(state.que, <<"intra", b, f>>)) + Waits(b, "WAIT_INTRA_BLOCK", f) =
        Sets(Twin(b, f)[1], 4, Twin(b, f)[2])
FlagTokens == BlockLeft => FftsTokens /\ IntraTokens

(* ParseMstxCrossCoreBarrier puts a barrier on PIPE_S.  In the kernels     *)
(* AllWait allows it is a barrier of all the blocks, with one kind of core *)
(* (a vector core and a cube core of a MIX kernel may share a core id).    *)
AllWait ==
  \A k \in Kernels : \A b \in 0..(k.num - 1) : \A e \in Shapes(k, b) : e.op = "BARRIER" =>
    k.type # "MIX" /\ e.pipe = PIPE_S /\ "used" \in DOMAIN e /\ e.used = k.num

(* No core passes its k-th barrier before every core of the barrier has    *)
(* come to its own k-th barrier.                                           *)
Passed(b) == Ran(b, LAMBDA e : e.op = "BARRIER")
AtBarrier(b) == LET q == ques[<<0, b, PIPE_S>>] IN q # <<>> /\ Head(q).op = "BARRIER"
BarrierTogether ==
  \A b, c \in Blocks : Passed(b) > Passed(c) => Passed(b) = Passed(c) + 1 /\ AtBarrier(c)

(* A buffer is got only after as many releases of it as precede the get in *)
(* the program, on whatever pipes, and is never got twice without a        *)
(* release between (ProcessGetRlsBufSyncEvent): at most one get more than  *)
(* releases has passed.                                                    *)
GetAfterReleases ==
  \A b \in Blocks : \A e \in Events(b) : e.op = "GET_BUF" /\ Executed(e) =>
    LET released == Ran(b, LAMBDA f : OfBuf(f, "RLS_BUF", e.buf))
    IN  /\ released >= Cardinality({f \in Events(b) : OfBuf(f, "RLS_BUF", e.buf) /\ f.no < e.no})
        /\ Ran(b, LAMBDA f : OfBuf(f, "GET_BUF", e.buf)) <= released + 1

(* The replay of a kernel ends, whatever the program waits for. *)
ReplayEnds == (phase = "replay") ~> (phase = "finished")
=============================================================================
