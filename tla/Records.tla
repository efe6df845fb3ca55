------------------------------ MODULE Records ------------------------------
(***************************************************************************)
(* A core that runs an instrumented kernel, the records it leaves in its   *)
(* region of global memory, and the host that reads them back:             *)
(*   plugin/ccec/*.cpp                the stubs, called beside each        *)
(*                                    instruction of the kernel;           *)
(*   plugin/record_*_instructions.h   what each call records;              *)
(*   plugin/recorder.h                how records reach memory;            *)
(*   core/framework/kernel_block.cpp  the host's walk over the region;     *)
(*   core/framework/record_parse*.cpp the memory events of a record.       *)
(*                                                                         *)
(* The kernel is a sequence of sets of operations: at step pc the core     *)
(* executes an operation of the pc-th set.  chip is the state of the core  *)
(* itself (how its mask is read, the mask, the memory that its compare     *)
(* mask was loaded from); regs is what the tool knows of it.  The probes   *)
(* that follow a write of a special register leave no record unless the    *)
(* register check is on, which it is not here.                             *)
(***************************************************************************)
EXTENDS Integers, Sequences, FractalEvents

CONSTANTS Programs,     \* name -> [arch, blockType, cacheSize, steps]
          Mb,           \* MB_TO_BYTES, in units of StepSize
          CacheLineSize,\* CACHE_LINE_SIZE, in the same units
          OperandSpace  \* the distance between the operands of an instruction

ASSUME SizesAssumption ==
    /\ Mb \in Nat \ {0} /\ CacheLineSize \in Nat /\ CacheLineSize < Mb
    /\ \A p \in DOMAIN Programs : Programs[p].cacheSize \in Nat \ {0}

VARIABLES job,        \* the name of the program and what the tool knows of its core
          pc,         \* its next step
          regs,       \* the registers that the tool follows
          chip,       \* the registers of the core
          gm,         \* the core's region: head and records
          dumped,     \* every record handed to DumpRecord outside a fuse scope
          calls,      \* the operations executed, with the range of their records
          serialNo,   \* RuntimeContext::serialNo_
          lastType,   \* KernelBlock::lastRecordType_
          serials     \* the serial numbers given to the records read so far

vars == <<job, pc, regs, chip, gm, dumped, calls, serialNo, lastType, serials>>

Arch == job.arch

-----------------------------------------------------------------------------
(***************************************************************************)
(* Recorder.                                                               *)
(***************************************************************************)
\* sizeof(RecordType) + sizeof(Record).
StepSize(r) == IF r.type \in {"ELEMENT", "CMPMASK_OP"} THEN 1 ELSE 2

RecordBlockHead == [offset |-> 0, writeOffset |-> 0, recordCount |-> 0, recordWriteCount |-> 0,
                    mstxFuseScopeDepth |-> 0, records |-> <<>>]

DumpSimdRecord_gap(g, r, cacheSize) ==
    LET fits == g.writeOffset + CacheLineSize + StepSize(r) < cacheSize * Mb
        counted == [g EXCEPT !.recordCount = @ + 1, !.offset = @ + StepSize(r)]
    IN  IF ~fits THEN counted
        ELSE [counted EXCEPT !.records = Append(@, r), !.writeOffset = @ + StepSize(r),
                             !.recordWriteCount = @ + 1]
DumpSimdRecord(g, r, cacheSize) ==
    LET fits == /\ g.writeOffset + CacheLineSize + StepSize(r) < cacheSize * Mb
                /\ g.recordCount = g.recordWriteCount
        counted == [g EXCEPT !.recordCount = @ + 1, !.offset = @ + StepSize(r)]
    IN  IF ~fits THEN counted
        ELSE [counted EXCEPT !.records = Append(@, r), !.writeOffset = @ + StepSize(r),
                             !.recordWriteCount = @ + 1]

IsInMstxFuseScope(g) == g.mstxFuseScopeDepth > 0
DumpRecord(g, r, cacheSize) == IF IsInMstxFuseScope(g) THEN g ELSE DumpSimdRecord(g, r, cacheSize)
DumpAll(g, rs, cacheSize) == FoldLeft(LAMBDA h, r : DumpRecord(h, r, cacheSize), g, rs)

SetMstxFuseScope(g, enter) ==
    [g EXCEPT !.mstxFuseScopeDepth = IF enter THEN @ + 1 ELSE IF @ > 0 THEN @ - 1 ELSE 0]

-----------------------------------------------------------------------------
(***************************************************************************)
(* The operations of a kernel.                                             *)
(***************************************************************************)
Init ==
    /\ \E p \in DOMAIN Programs :
         job = [name |-> p, arch |-> Programs[p].arch, blockType |-> Programs[p].blockType,
                cacheSize |-> Programs[p].cacheSize, length |-> Len(Programs[p].steps)]
    /\ pc = 1
    /\ regs = InitRegister
    /\ chip = [count |-> FALSE, mask |-> NoMask.set, bound |-> NoAddr]
    /\ gm = RecordBlockHead
    /\ dumped = <<>> /\ calls = <<>>
    /\ serialNo = 0 /\ lastType = "BLOCK_FINISH" /\ serials = <<>>

Running == pc <= job.length
\* The calls the kernel can make next.
Ops == IF Running THEN Programs[job.name].steps[pc] ELSE {}

Execute(op, records) ==
    /\ gm' = DumpAll(gm, records, job.cacheSize)
    /\ dumped' = IF IsInMstxFuseScope(gm) THEN dumped ELSE dumped \o records
    /\ calls' = Append(calls, [op |-> op, chip |-> chip, first |-> Len(dumped) + 1, last |-> Len(dumped')])
    /\ pc' = pc + 1
    /\ UNCHANGED <<job, serialNo, lastType, serials>>

SetMaskCount(op) ==
    /\ op.kind = "set_mask_count"
    /\ regs' = set_mask_count(regs) /\ chip' = [chip EXCEPT !.count = TRUE] /\ Execute(op, <<>>)
SetMaskNorm(op) ==
    /\ op.kind = "set_mask_norm"
    /\ regs' = set_mask_norm(regs) /\ chip' = [chip EXCEPT !.count = FALSE] /\ Execute(op, <<>>)
SetVectorMask(op) ==
    /\ op.kind = "set_vector_mask"
    /\ regs' = RecordVectorMask(regs, op.half, op.bits)
    /\ chip' = [chip EXCEPT !.mask = {b \in @ : b \div 64 # op.half} \cup {b + 64 * op.half : b \in op.bits}]
    /\ Execute(op, <<>>)
SetCmpmask(op) ==
    /\ op.kind = "set_cmpmask"
    /\ regs' = set_cmpmask(regs, op.addr) /\ chip' = [chip EXCEPT !.bound = op.addr] /\ Execute(op, <<>>)
GetCmpmask(op) ==
    /\ op.kind = "get_cmpmask"
    /\ UNCHANGED <<regs, chip>> /\ Execute(op, get_cmpmask(op.addr))
MoveVa(op) ==
    /\ op.kind = "MOVEVA"
    /\ regs' = RecordVAdPara(regs, op.va, op.bitOffset, op.xn, op.xm) /\ UNCHANGED chip /\ Execute(op, <<>>)
Ldva(op) ==
    /\ op.kind = "ldva"
    /\ regs' = RecordLdva(regs, op.va, op.words, op.h) /\ UNCHANGED chip /\ Execute(op, <<LdvaRecord(op.addr)>>)
SetRegister(op) ==
    /\ op.kind = "set_register"
    /\ regs' = RecordRegister(regs, op.name, op.word) /\ UNCHANGED chip /\ Execute(op, <<>>)
FuseScope(op) ==
    /\ op.kind = "fuse_scope"
    /\ gm' = SetMstxFuseScope(gm, op.enter)
    /\ calls' = Append(calls, [op |-> op, chip |-> chip, first |-> Len(dumped) + 1, last |-> Len(dumped)])
    /\ pc' = pc + 1
    /\ UNCHANGED <<job, regs, chip, dumped, serialNo, lastType, serials>>

\* A stub of the table; a comparison leaves its result in the compare mask.
Stub_bound(op) == regs
Stub(op) == IF op.row \in Vcmp THEN ClearCmpMaskAddr(regs) ELSE regs
Vector(op) ==
    /\ op.kind = "vector"
    /\ regs' = Stub(op)
    /\ chip' = IF op.row \in Vcmp THEN [chip EXCEPT !.bound = NoAddr] ELSE chip
    /\ Execute(op, <<IF op.form = "config" THEN RecordOpConfigFunc(op.row, op.addrs, op.config, regs, Arch)
                     ELSE RecordOpFunc(op.row, op.addrs, op.args, regs)>>)

Calc(op, records) == UNCHANGED <<regs, chip>> /\ Execute(op, records)
Vsel(op) == op.kind = "vsel" /\ Calc(op, RecordVselOpFunc(regs, op.t, op.mode, op.addrs, op.args))
Vreduce(op) == op.kind = "vreduce" /\ Calc(op, RecordVreduceFunc(regs, op.t, op.pattern, op.addrs, op.args))
Vreducev2(op) ==
    /\ op.kind = "vreducev2"
    /\ Calc(op, RecordVreducev2Func(regs, op.t, op.addrs, ParseVredecev2Config(op.config), op.compare))
Vgather(op) ==
    /\ op.kind = "vgather"
    /\ Calc(op, RecordVgatherOpConfFunc(regs, op.bits, op.dst, op.src, op.offsets, op.config, Arch))
Vgatherb(op) ==
    /\ op.kind = "vgatherb"
    /\ Calc(op, RecordVgatherbConfigFunc(regs, op.bits, op.dst, op.src, op.offsets, op.config, Arch))
Vmrgsort4(op) ==
    /\ op.kind = "vmrgsort4"
    /\ Calc(op, IF Arch = "C310"
                THEN RecordVmrgsort4C310(op.dst, op.src, op.lists, op.repeat, op.used, op.allStored)
                ELSE RecordVmrgsort4OpFunc(op.t, op.dst, op.src, op.repeat, op.lists, op.used, Arch))
RegionProposal(op, isExtract) ==
    LET a == ParseVecRegProCoordConfig(op.config)
    IN  Calc(op, RecordVRegPropCoorOpFunc(op.t, op.dst, op.src, a.repeat, a.regionRange, isExtract))
Vextract(op) == op.kind = "vextract" /\ RegionProposal(op, TRUE)
Vconcat(op) == op.kind = "vconcat" /\ RegionProposal(op, FALSE)
ScatterVnchwconv(op) ==
    /\ op.kind = "scatter_vnchwconv"
    /\ Calc(op, IF Arch = "C310"
                THEN RecordScatterVnchwconvA5(regs, op.dst, op.src, op.config, op.b8, op.dstHigh, op.srcHigh)
                ELSE RecordScatterVnchwconvEvent(regs, op.dst, op.src, Field(op.config, 56, 8), Field(op.config, 0, 16),
                                                 Field(op.config, 16, 16), op.b8, op.dstHigh, op.srcHigh))
Vbs32(op) == op.kind = "vbs32A5" /\ Calc(op, RecordVbs32A5(op.t, op.addrs[1], op.addrs[2], op.addrs[3], op.config))
Mad(op) == op.kind = "mad" /\ Calc(op, RecordMatrixOpConfigFunc(op.addrs, op.config, op.bits))
Mmad(op) == op.kind = "mmad" /\ Calc(op, RecordMmadA5(op.addrs, op.config, op.bits))

Move(op) == op.kind = "move" /\ Calc(op, <<RecordMove(op, regs.spr)>>)

-----------------------------------------------------------------------------
(***************************************************************************)
(* The host, when the kernel has finished.                                 *)
(***************************************************************************)
\* A record that belongs to the moment of the one before it.
SameMoment_gather(type, last) ==
    \/ type = "ELEMENT" /\ last = "VGATHER"
    \/ type = "VSEL_OP" /\ last = "CMPMASK_OP"
SameMoment(type, last) ==
    \/ type = "ELEMENT" /\ last \in {"VGATHER", "ELEMENT"}
    \/ type = "VSEL_OP" /\ last = "CMPMASK_OP"
    \/ type \in {"UNARY_OP", "BINARY_OP", "DMA_MOV", "MOV_ALIGN"} /\ last = "MSTX_STUB"

ParseSimdRecord ==
    LET i == Len(serials) + 1
    IN  /\ ~Running /\ i <= Len(gm.records)
        /\ serialNo' = IF SameMoment(gm.records[i].type, lastType) THEN serialNo ELSE serialNo + 1
        /\ lastType' = gm.records[i].type
        /\ serials' = Append(serials, serialNo')
        /\ UNCHANGED <<job, pc, regs, chip, gm, dumped, calls>>

\* CreateKernelBlock: the cache size that the user is told to run with.
ExtendCacheSize_floor(g) == (g.offset - g.writeOffset) \div Mb
ExtendCacheSize(g) ==
    IF g.recordWriteCount < g.recordCount THEN (g.offset - g.writeOffset) \div Mb + 1 ELSE 0

Next ==
    \/ \E op \in Ops :
         \/ SetMaskCount(op) \/ SetMaskNorm(op) \/ SetVectorMask(op) \/ SetCmpmask(op) \/ GetCmpmask(op)
         \/ MoveVa(op) \/ Ldva(op) \/ SetRegister(op) \/ Move(op) \/ FuseScope(op) \/ Vector(op) \/ Vsel(op)
         \/ Vreduce(op) \/ Vreducev2(op) \/ Vgather(op) \/ Vgatherb(op) \/ Vmrgsort4(op) \/ Vextract(op)
         \/ Vconcat(op) \/ ScatterVnchwconv(op) \/ Vbs32(op) \/ Mad(op) \/ Mmad(op)
    \/ ParseSimdRecord

Spec == Init /\ [][Next]_vars

-----------------------------------------------------------------------------
(***************************************************************************)
(* Properties.                                                             *)
(***************************************************************************)
ReadBack == ~Running /\ Len(serials) = Len(gm.records)
RecordsOf(c) == SubSeq(dumped, c.first, c.last)
Parse(r) == IF r.type \in MoveTypes THEN ParseMove(r) ELSE ParseCalc(r, job.blockType)
EventsOf(c) == FlattenSeq([i \in DOMAIN RecordsOf(c) |-> Parse(RecordsOf(c)[i])])
\* The calls whose records all reached memory.
KeptCalls(kind) == {c \in {calls[i] : i \in DOMAIN calls} : c.op.kind = kind /\ c.last <= gm.recordWriteCount
                                                              /\ c.first <= c.last}

\* Lanes of a repeat, and the active ones as <<repeat, lane>>: those of the
\* mask, or a number of elements that makes up for the number of repeats
\* (for vcopy, the number of elements of every repeat).
LanesOf(row) == LET i == CHOOSE j \in DOMAIN row.ops : row.ops[j].num > 0
                IN  (row.ops[i].num * 256) \div row.ops[i].bits
ActiveLanes(c) ==
    LET lanes == LanesOf(c.op.row)
        count == Field(c.chip.mask, 0, 30)
        repeats == 0 .. c.op.args.repeat - 1
    IN  IF ~c.chip.count THEN repeats \X (c.chip.mask \cap 0 .. lanes - 1)
        ELSE IF c.op.row.type = "VCOPY_OP" THEN repeats \X (0 .. count - 1)
        ELSE {<<n \div lanes, n % lanes>> : n \in 0 .. count - 1}
\* The bytes of a set of lanes of operand i.
LaneBytes(op, i, lanes) ==
    LET bits == op.row.ops[i].bits
        perBlock == 256 \div bits
        arg == op.row.from[i]
        At(r, l) == op.addrs[arg] + ((l \div perBlock) * op.args.bs[arg] + r * op.args.rs[arg]) * 32
                      + ((l % perBlock) * bits) \div 8
        width == IF bits < 8 THEN 1 ELSE bits \div 8
    IN  {At(p[1], p[2]) + b : p \in lanes, b \in 0 .. width - 1}
Whole(op) == (0 .. op.args.repeat - 1) \X (0 .. LanesOf(op.row) - 1)
\* The bytes of the events of operand i.
Touched(c, i, opTypes) ==
    BytesOfAll(SelectSeq(OpsOf(EventsOf(c), opTypes),
                         LAMBDA e : e.addr \div OperandSpace = c.op.addrs[c.op.row.from[i]] \div OperandSpace))
\* The tool takes the lanes of the high half of the mask for lanes of 32 bits
\* as well, and half a byte at the end of elements of 4 bits is lost.
MaskFits(c) ==
    \A i \in DOMAIN c.op.row.ops :
      /\ ~c.chip.count /\ c.chip.mask # NoMask.set => c.chip.mask \subseteq 0 .. LanesOf(c.op.row) - 1
      /\ c.chip.count /\ c.op.row.ops[i].bits = 4 => Field(c.chip.mask, 0, 30) % 2 = 0
Accumulates(row) == row.instr \in {"vmadd", "vmaddrelu", "vmla", "vaxpy"}

\* The memory events of an instruction that works lane by lane are those of
\* its active lanes: every byte of an active lane of every operand is in an
\* event of the right kind, by count nothing else is, and by mask nothing
\* outside the repeats of the operand.  What counts is the mask that the core
\* had at the call, however the arguments were passed (stub, config word,
\* ParseVectorMask, MaskModeProcess and the ParseRecord functions together).
ActiveBytes ==
    ReadBack => \A c \in KeptCalls("vector") :
      c.op.row.lanewise /\ MaskFits(c) =>
        \A i \in {j \in DOMAIN c.op.row.ops : c.op.row.ops[j].num > 0} :
          LET active == LaneBytes(c.op, i, ActiveLanes(c))
              reads == Touched(c, i, {"READ", "MEMCPY_BLOCKS"})
              touched == IF i = 1 THEN Touched(c, i, {"WRITE", "MEMCPY_BLOCKS"}) ELSE reads
          IN  /\ active \subseteq touched
              /\ i = 1 /\ Accumulates(c.op.row) => active \subseteq reads
              /\ touched \subseteq IF c.chip.count THEN active ELSE LaneBytes(c.op, i, Whole(c.op))

\* A select reads the memory that the compare mask of the core was loaded
\* from, and no other: a comparison in between, whose result replaces the
\* mask, unbinds that memory (RecordCmpMaskLoad and ClearCmpMaskAddr).
SelectReadsBoundMask ==
    ReadBack => \A c \in KeptCalls("vsel") :
      {e.addr : e \in {RecordsOf(c)[i] : i \in {j \in DOMAIN RecordsOf(c) : RecordsOf(c)[j].type = "CMPMASK_OP"}}}
        = {c.chip.bound} \ {NoAddr}

\* The records of one instruction happen at one moment: they get one serial
\* number, however many they are, and the instructions after it a larger one
\* unless they consist of single elements or of a select (ParseSimdRecord).
InstructionIsOneMoment ==
    \A k \in DOMAIN calls : \A i, j \in DOMAIN serials :
      /\ i \in calls[k].first .. calls[k].last /\ j \in calls[k].first .. calls[k].last => serials[i] = serials[j]
      /\ i < calls[k].first /\ j = calls[k].first =>
           /\ serials[i] <= serials[j]
           /\ gm.records[j].type \notin {"ELEMENT", "VSEL_OP"} => serials[i] < serials[j]

\* However full the region is, the host reads a prefix of what the core
\* recorded: a small record never slips in after a large one was left out
\* (DumpSimdRecord).
KeptIsAPrefix ==
    /\ gm.recordCount = Len(dumped)
    /\ gm.records = SubSeq(dumped, 1, gm.recordWriteCount)

\* "please use --cache-size=N to run the operator again": with the size that
\* the tool advises, the same records fit (CreateKernelBlock).
AdvisedCacheSuffices ==
    LET again == DumpAll(RecordBlockHead, dumped, job.cacheSize + ExtendCacheSize(gm))
    IN  again.recordWriteCount = again.recordCount
\* <<a, b>> when a move turns b bytes into a bytes, for the moves that lose
\* and repeat nothing.
Ratio(r) ==
    CASE r.type = "DMA_MOV" /\ ~r.byteMode /\ r.padMode \in 0 .. 5 -> <<GetPadModeScaleValue(r.padMode), 1>>
      [] r.type = "DMA_MOV" /\ ~r.byteMode /\ r.padMode \in 6 .. 8 -> <<1, GetPadModeScaleValue(r.padMode)>>
      [] r.type = "DMA_MOV_CONV_RELU" /\ r.dataType[1] = "B32" /\ IsSupportFor32(r) > 0 -> <<IsSupportFor32(r), 32>>
      [] r.type = "DMA_MOV_DEPTH_WISE" /\ r.dataType[1] = "B32" /\ r.crMode \notin Keeps -> <<1, 2>>
      [] r.type = "MOV_CBUF_TO_BT" /\ r.dataType \in {"F16", "B16"} -> <<2, 1>>
      [] r.type = "MOV_FP" -> <<r.quantPreBits, 32>>
      [] OTHER -> <<1, 1>>
PureCopies ==
    {"DMA_MOV", "DMA_MOV_CONV_RELU", "DMA_MOV_DEPTH_WISE", "MOV_L1_TO_UB", "MOV_UB_TO_L1", "MOV_UB_TO_UB",
     "MOV_CBUF_TO_BT", "MOV_CBUF_TO_FB", "DMA_MOV_ND2NZ", "DMA_MOV_ND2NZ_D", "DMA_MOV_DN2NZ_D", "MOV_ALIGN",
     "MOV_ALIGN_V2", "ND_DMA_OUT_TO_UB", "LOAD_2D", "LOAD_2D_TRANSPOSE", "LOAD_L1_2D", "LOAD_L1_2D_TRANSPOSE",
     "LOAD_B2", "MOV_FP"}
IsCopy(r) ==
    /\ r.type \in PureCopies
    /\ r.type = "DMA_MOV" => ~r.byteMode
    /\ r.type = "MOV_FP" =>
         /\ r.dualDstMode = 0
         /\ r.channelSplit => r.quantPreBits = 32
         /\ r.int4ChannelMerge => r.nSize % 64 = 0

\* A move that only copies, widens or narrows its elements writes as many
\* elements as it reads, each at a place of its own, whichever overload the
\* kernel called, whatever the registers held before, and whether the blocks
\* go up or down in memory; no event of a move starts below address 0 (the
\* fields of the configuration words, the Record*Event functions and the
\* ParseRecord functions together).
CopiesConserve ==
    ReadBack => \A k \in DOMAIN calls :
      LET events == EventsOf(calls[k])
          r == RecordsOf(calls[k])[1]
          read == Cardinality(BytesOfAll(OpsOf(events, {"READ"})))
          written == Cardinality(BytesOfAll(OpsOf(events, {"WRITE"})))
      IN  calls[k].last <= gm.recordWriteCount =>
            /\ \A i \in DOMAIN events : events[i].opType \in {"READ", "WRITE"} => events[i].addr >= 0
            /\ calls[k].op.kind = "move" /\ IsCopy(r) /\ written > 0 => read * Ratio(r)[1] = written * Ratio(r)[2]
=============================================================================
