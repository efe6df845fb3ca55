-------------------------- MODULE RegisterSanitizer --------------------------
(***************************************************************************)
(* RegisterSanitizer: the last value each core wrote to each register of   *)
(* interest, and at the end of a kernel a report of those that were not    *)
(* put back to their default.  The values are filed by physical core; a    *)
(* block runs on one of them, and several blocks may share one.            *)
(***************************************************************************)
EXTENDS Integers, FiniteSets

CONSTANTS PhysCores,       \* 0..MAX_AICORE_NUM-1
          Blocks,          \* 0..n-1
          Registers,       \* "CTRL" and others
          Unchecked,       \* those g_regInfoTbl leaves out of the check
          Values,          \* of a write; of CTRL only bit 56 counts
          MaxKernels

VARIABLES kernel, phase,
          place,           \* the core each block of the kernel runs on
          next,            \* blocks below have delivered all their events
          regValActual_,   \* per core and register: value and block of the last write
          written,         \* the writes of this kernel: <<block, register, value>>, the last ones
          report           \* the <<core, register, block>> reported

vars == <<kernel, phase, place, next, regValActual_, written, report>>

regDftVal(reg) == IF reg = "VECTOR_MASK_0" THEN 1 ELSE 0

Bit56(v) == v % 2

Stored(reg, v) == IF reg = "CTRL" THEN Bit56(v) ELSE v

Default == [c \in PhysCores |-> [r \in Registers |-> [val |-> regDftVal(r), block |-> 0]]]

Init ==
  /\ kernel = 0 /\ phase = "idle" /\ place = [b \in Blocks |-> 0] /\ next = 0
  /\ regValActual_ = Default /\ written = {} /\ report = {}

SetKernelInfo_kept ==
  /\ phase = "idle" /\ kernel < MaxKernels
  /\ kernel' = kernel + 1 /\ phase' = "run" /\ next' = 0
  /\ place' \in [Blocks -> PhysCores]
  /\ written' = {} /\ report' = {}
  /\ UNCHANGED regValActual_

SetKernelInfo ==
  /\ phase = "idle" /\ kernel < MaxKernels
  /\ kernel' = kernel + 1 /\ phase' = "run" /\ next' = 0
  /\ place' \in [Blocks -> PhysCores]
  /\ regValActual_' = Default /\ written' = {} /\ report' = {}

(* The events of the blocks come in the order of the blocks.               *)
RegisterEvent(b, reg, v) ==
  /\ phase = "run" /\ b >= next
  /\ next' = b
  /\ regValActual_' = [regValActual_ EXCEPT ![place[b]][reg] = [val |-> Stored(reg, v), block |-> b]]
  /\ written' = {w \in written : ~(w[1] = b /\ w[2] = reg)} \cup {<<b, reg, v>>}
  /\ UNCHANGED <<kernel, phase, place, report>>

KernelFinish ==
  /\ phase = "run"
  /\ phase' = "idle"
  /\ report' = {<<x[1], x[2], regValActual_[x[1]][x[2]].block>> : x \in
                 {y \in PhysCores \X (Registers \ Unchecked) : regValActual_[y[1]][y[2]].val # regDftVal(y[2])}}
  /\ UNCHANGED <<kernel, place, next, regValActual_, written>>

Next ==
  \/ SetKernelInfo
  \/ \E b \in Blocks, reg \in Registers, v \in Values : RegisterEvent(b, reg, v)
  \/ KernelFinish

Spec == Init /\ [][Next]_vars
=============================================================================
