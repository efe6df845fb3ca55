----------------------------- MODULE MCReplayer -----------------------------
(***************************************************************************)
(* Instances of Replayer: one small alphabet of events per family of       *)
(* synchronisation, and the reference the verdict is compared with.        *)
(***************************************************************************)
EXTENDS Replayer

NoJoin(a, b) == a

(* set_flag / wait_flag between PIPE_S and two pipes, and the accesses of  *)
(* those pipes.                                                            *)
Flag(op, src, dst) ==
  [op |-> op, pipe |-> IF op = "SET_FLAG" THEN src ELSE dst, key |-> <<src, dst>>]
FlagShapes(b) ==
  {Flag("SET_FLAG", 1, 2), Flag("WAIT_FLAG", 1, 2), Flag("SET_FLAG", 2, 0),
   Flag("WAIT_FLAG", 2, 0), [op |-> "WRITE", pipe |-> 1], [op |-> "MEMCPY", pipe |-> 2]}

(* FFTS on one AI core of a MIX kernel: blocks 0 and 1 are vector cores,   *)
(* block 2 is the cube core.  Waits of modes 0 to 2 on PIPE_S or pipe 1.   *)
Ffts(mode, flag, dim) == [op |-> "FFTS_SYNC", pipe |-> 1, mode |-> mode, flag |-> flag, dim |-> dim]
Await(op, flag, pipe) == [op |-> op, pipe |-> pipe, flag |-> flag, dim |-> 0]
ModeShapes(mode, b) ==
  IF mode = 1 /\ b = 2 THEN {} ELSE {Ffts(mode, 0, 2), Await("WAIT_FLAG_DEV", 0, 0)}
(* With vecSubBlockDim 1 the vector cores of two AI cores are blocks 0 and *)
(* 1, their cube cores blocks 2 and 5; block 2 stays idle.                 *)
OneVectorShapes(mode, b) ==
  IF b \in (IF mode = 0 THEN {0, 1} ELSE {0, 1, 5})
  THEN {Ffts(mode, 0, 1), IF mode = 4 THEN Await("WAIT_INTRA_BLOCK", 0, 1) ELSE Await("WAIT_FLAG_DEV", 0, 0)}
  ELSE {}
(* The cube core's flags from 16 on are block 1's. *)
IntraShapes(b) ==
  IF b < 2 THEN {Ffts(4, 1, 2), Await("WAIT_INTRA_BLOCK", 1, 1)}
  ELSE {Ffts(4, f, 2) : f \in {1, 17}} \cup {Await("WAIT_INTRA_BLOCK", f, 1) : f \in {1, 17}}

(* Barriers of two cores, and a buffer that pipe 1 gets and two pipes      *)
(* release (when two pipes get it, the verdict depends on their order).    *)
TokenShapes(b) ==
  {[op |-> "BARRIER", pipe |-> 0, used |-> 2], [op |-> "GET_BUF", pipe |-> 1, buf |-> 0],
   [op |-> "RLS_BUF", pipe |-> 1, buf |-> 0], [op |-> "RLS_BUF", pipe |-> 2, buf |-> 0]}
(* One block with a longer program on the buffer.                          *)
BufferShapes(b) == {e \in TokenShapes(b) : e.op # "BARRIER"}
(* MSTX flags with waits of several cores, and soft flags: a set may be    *)
(* overwritten or skipped, so that the verdict depends on the schedule.    *)
SoftShapes(b) ==
  {[op |-> "MSTX_SET", pipe |-> 1, key |-> 0],
   [op |-> "MSTX_WAIT", pipe |-> 0, key |-> 0, more |-> TRUE],
   [op |-> "IB_SET", pipe |-> 0, id |-> 0], [op |-> "IB_WAIT", pipe |-> 0, id |-> 0, peer |-> -1],
   [op |-> "IB_WAIT", pipe |-> 0, id |-> 0, peer |-> 1 - b], [op |-> "OTHER", pipe |-> 1]}

(* The kernels of two AI cores have each event at most once in a block.    *)
Kernel(name, type, num, max) ==
  [name |-> name, type |-> type, num |-> num, max |-> max, once |-> num = 6]
MCKernels ==
  {Kernel("flags", "AIVEC", 1, 4), Kernel("tokens", "AIVEC", 2, 2), Kernel("soft", "AIVEC", 2, 2),
   Kernel("buffer", "AIVEC", 1, 4),
   Kernel("mode 0", "MIX", 3, 2), Kernel("mode 1", "MIX", 3, 2), Kernel("mode 2", "MIX", 3, 2),
   Kernel("mode 4", "MIX", 3, 2), Kernel("one vector, mode 0", "MIX", 6, 2),
   Kernel("one vector, mode 2", "MIX", 6, 2), Kernel("one vector, mode 4", "MIX", 6, 2)}
MCShapes(k, b) ==
  CASE k.name = "flags" -> FlagShapes(b)
    [] k.name = "tokens" -> TokenShapes(b)
    [] k.name = "soft" -> SoftShapes(b)
    [] k.name = "buffer" -> BufferShapes(b)
    [] k.name = "mode 0" -> ModeShapes(0, b)
    [] k.name = "mode 1" -> ModeShapes(1, b)
    [] k.name = "mode 2" -> ModeShapes(2, b)
    [] k.name = "mode 4" -> IntraShapes(b)
    [] k.name = "one vector, mode 0" -> OneVectorShapes(0, b)
    [] k.name = "one vector, mode 2" -> OneVectorShapes(2, b)
    [] k.name = "one vector, mode 4" -> OneVectorShapes(4, b)
(* Where they have barriers, all their blocks wait at them. *)
ASSUME BarriersOfAll == AllWait

(***************************************************************************)
(* The reference: a machine in which the pipes of a block run side by      *)
(* side.  An event may run once those before it on its own pipe and on     *)
(* PIPE_S have run.  CanFinish says that some schedule runs everything.    *)
(***************************************************************************)
AllEvents == UNION {Events(b) : b \in Blocks}
Holds(f, e) == f.no < e.no /\ f.pipe \in {e.pipe, PIPE_S}
Ready(done) == {e \in AllEvents \ done : \A f \in Events(e.block) : Holds(f, e) => f \in done}
RECURSIVE CanFinish(_, _)
CanFinish(s, done) ==
  \/ done = AllEvents
  \/ \E e \in Ready(done) :
       LET r == Handle(s, e.block, e)
       IN  /\ r.ok \/ r.s # s
           /\ CanFinish(r.s, IF r.ok THEN done \cup {e} ELSE done)

(* What the databases hold when the replay of this kernel starts. *)
RECURSIVE Counted(_, _)
Counted(s, es) == IF es = {} THEN s
                  ELSE LET e == CHOOSE x \in es : TRUE
                       IN  Counted(CacheMstxCrossSet(s, e), es \ {e})

(* The verdict depends on the program of this kernel alone: the replay     *)
(* runs to the end exactly when some schedule of the pipes can.  Where an  *)
(* MSTX or soft flag may be overwritten or skipped the schedule decides,   *)
(* and nothing is promised.                                                *)
VerdictIsReference ==
  phase = "finished" /\ kernelInfo.name # "soft" => (pipeState = "EXIT" <=> CanFinish(Counted(EmptySync(kernelInfo), AllEvents), {}))
=============================================================================
