---------------------------- MODULE RecordCalc -----------------------------
(***************************************************************************)
(* The records that the instrumented vector and matrix instructions leave  *)
(* (plugin/record_calc_instructions.h, plugin/record_ctrl_instructions.h   *)
(* and the special stubs of plugin/ccec/calc_instructions).                *)
(*                                                                         *)
(* A 64-bit configuration word is the set of its bits that are one.  The   *)
(* registers of a core that the tool follows are                           *)
(*   [maskMode |-> "NORM" or "COUNT", vectorMask |-> a subset of 0 .. 127, *)
(*    cmpMaskAddr |-> an address or NoAddr, va |-> 8 registers of 8        *)
(*    block numbers, spr |-> the words of the special registers].          *)
(* An operator gives the sequence of records that a call leaves.           *)
(***************************************************************************)
EXTENDS Integers, Sequences, FiniteSetsExt, VectorInstrs, MemOpInfo

NoAddr == -1
VaNames == 0 .. 7

\* The unsigned number in the bits lo .. lo + width - 1 of a word.
Field(config, lo, width) ==
    MapThenSumSet(LAMBDA b : 2 ^ (b - lo), config \cap (lo .. lo + width - 1))

\* The special registers that the tool follows: those of the moves, and those
\* whose values are checked when the kernel ends.
MoveRegisters ==
    {"sprPadCntNdDma", "sprLoop0StrideNdDma", "sprLoop1StrideNdDma", "sprLoop2StrideNdDma", "sprLoop3StrideNdDma",
     "sprLoop4StrideNdDma", "sprMte2NzPara"}
AlignRegisters ==
    {"sprLoopSizeUb2Out", "sprLoop1StrideUb2Out", "sprLoop2StrideUb2Out", "sprLoopSizeOut2Ub", "sprLoop1StrideOut2Ub",
     "sprLoop2StrideOut2Ub", "sprLoopSizeOut2L1", "sprLoop1StrideOut2L1", "sprLoop2StrideOut2L1"}
CubeRegisters ==
    {"sprMTE2SrcPara", "sprLoop3Para", "sprChannelPara", "sprFmatrix", "sprFmatrixB", "sprFmatrixDual0",
     "sprFmatrixDual1", "sprL3dRpt", "sprL3dRptB", "sprPadding", "sprPaddingB"}
Load3DRegisters == {"fmatrix", "fmatrixB", "l3dRpt"}
NdRegisters == {"ndParaConfig"}
CheckedRegisters == {"ctrl", "fftsBaseAddr", "fpc", "quantPre", "quantPost", "lreluAlpha"}
Registers ==
    MoveRegisters \cup AlignRegisters \cup CubeRegisters \cup Load3DRegisters \cup NdRegisters \cup CheckedRegisters

InitRegister ==
    [maskMode |-> "NORM", vectorMask |-> NoMask.set, cmpMaskAddr |-> NoAddr,
     va |-> [v \in VaNames |-> [e \in 0 .. 7 |-> 0]], spr |-> [name \in Registers |-> IF name = "ctrl" THEN {3} ELSE {}]]

-----------------------------------------------------------------------------
ParseUnaryConfig(config, arch) ==
    [repeat |-> Field(config, 56, 8),
     bs |-> <<Field(config, 0, 16), Field(config, 16, 16)>>,
     rs |-> IF arch = "C220"
            THEN <<Field(config, 32, 8) + 256 * Field(config, 52, 4), Field(config, 40, 12)>>
            ELSE <<Field(config, 32, 8), Field(config, 40, 8)>>]

ParseBinaryConfig(config) ==
    [repeat |-> Field(config, 56, 8),
     bs |-> <<Field(config, 0, 8), Field(config, 8, 8), Field(config, 16, 8)>>,
     rs |-> <<Field(config, 24, 8), Field(config, 32, 8), Field(config, 40, 8)>>]

ParseReduceConfig(config) ==
    [repeat |-> Field(config, 56, 8), bs |-> <<1, Field(config, 16, 16)>>,
     rs |-> <<Field(config, 0, 16), Field(config, 32, 16)>>]

ParseVecDupConfig(config, arch) ==
    [repeat |-> Field(config, 56, 8), bs |-> <<Field(config, 0, 16)>>,
     rs |-> <<Field(config, 32, 8) + (IF arch = "C220" THEN 256 * Field(config, 52, 4) ELSE 0)>>]

ParseUnaryOpWithOffsetConf(config) ==
    [repeat |-> Field(config, 56, 8), bs |-> <<1, 1>>,
     rs |-> <<Field(config, 32, 8), Field(config, 40, 8)>>, offsetAddr |-> Field(config, 0, 30)]

\* The word of vgather and vgatherb.
ParseVgatherConfig(config) ==
    [repeat |-> Field(config, 56, 8), dstBlockStride |-> Field(config, 40, 8),
     dstRepeatStride |-> Field(config, 32, 8) + 256 * Field(config, 52, 4),
     offsetAddr |-> Field(config, 0, 30)]

ParseVredecev2Config(config) ==
    [repeat |-> 256 * Field(config, 56, 8) + Field(config, 0, 8),
     src0BlockStride |-> Field(config, 8, 8), patternMode |-> Field(config, 16, 8),
     src0RepeatStride |-> Field(config, 24, 16), src1RepeatStride |-> Field(config, 40, 16)]

ParseVecRegProCoordConfig(config) ==
    [repeat |-> Field(config, 56, 8), regionRange |-> Field(config, 16, 3)]

ParseMadConfig(config) ==
    [m |-> Field(config, 0, 12), k |-> Field(config, 12, 12), n |-> Field(config, 24, 12),
     unitFlag |-> Field(config, 55, 2), kDirectionAlign |-> 58 \in config,
     cmatrixSource |-> 62 \in config, cmatrixInitVal |-> 63 \in config]

\* The arguments that the config word of an instruction stands for.
ArgsOfConfig(row, config, arch) ==
    CASE row.layout = "unary" -> ParseUnaryConfig(config, arch)
      [] row.layout = "zero" -> ParseUnaryConfig({}, arch)
      [] row.layout = "binary" -> ParseBinaryConfig(config)
      [] row.layout = "reduce" -> ParseReduceConfig(config)
      [] row.layout = "dup" -> ParseVecDupConfig(config, arch)
      [] row.layout = "scatter" -> ParseUnaryOpWithOffsetConf(config)

-----------------------------------------------------------------------------
(***************************************************************************)
(* The registers.                                                          *)
(***************************************************************************)
\* The mask that a record takes from the registers when it is written.
ParseVectorMask(regs, useMask) ==
    IF ~useMask THEN NoMask
    ELSE IF regs.maskMode = "NORM" THEN [mode |-> "NORM", set |-> regs.vectorMask]
    ELSE [mode |-> "COUNT", mask0 |-> Field(regs.vectorMask, 0, 30)]

RecordRegister(regs, name, word) == [regs EXCEPT !.spr[name] = word]
\* The control register carries the mode of the mask as bit 56; a write of the
\* whole control register does not change the mode that records take.
set_mask_count(regs) == [RecordRegister(regs, "ctrl", regs.spr["ctrl"] \cup {56}) EXCEPT !.maskMode = "COUNT"]
set_mask_norm(regs) == [RecordRegister(regs, "ctrl", regs.spr["ctrl"] \ {56}) EXCEPT !.maskMode = "NORM"]
\* Half 0 or half 1 of the vector mask.
RecordVectorMask(regs, reg_idx, bits) ==
    CASE reg_idx = 0 -> [regs EXCEPT !.vectorMask = bits \cup (@ \cap 64 .. 127)]
      [] reg_idx = 1 -> [regs EXCEPT !.vectorMask = {b + 64 : b \in bits} \cup (@ \cap 0 .. 63)]
      [] OTHER -> regs
set_cmpmask(regs, addr) == [regs EXCEPT !.cmpMaskAddr = addr]
ClearCmpMaskAddr(regs) == [regs EXCEPT !.cmpMaskAddr = NoAddr]

\* MOVEVA: two of the eight block numbers of an address register.
ExtractVaBits(value) == (value \div 32) % 8192
RecordVAdPara(regs, v, bitOffset, xn, xm) ==
    IF bitOffset \notin {0, 2, 4, 6} THEN regs
    ELSE [regs EXCEPT !.va[v][bitOffset] = ExtractVaBits(xn),
                      !.va[v][bitOffset + 1] = ExtractVaBits(xm)]
\* An address register loaded from memory, with the read of the 32 bytes.
\* The register is the low or the high half of them.
RecordLdva(regs, v, words, h) == [regs EXCEPT !.va[v] = [e \in 0 .. 7 |-> words[IF h THEN e + 8 ELSE e]]]
LdvaRecord(src) == [type |-> "LDVA", addr |-> src, size |-> 32]

\* ParseVaRegister: an even register and the one after it.
ParseVaRegister(regs, v) == IF v % 2 = 0 THEN <<regs.va[v], regs.va[v + 1]>>
                            ELSE [i \in 1 .. 2 |-> [e \in 0 .. 7 |-> 0]]

RecordCmpMask(addr, accessType, size) ==
    [type |-> "CMPMASK_OP", addr |-> addr, accessType |-> accessType, size |-> size]
get_cmpmask(dst) == <<RecordCmpMask(dst, "WRITE", 16)>>

-----------------------------------------------------------------------------
(***************************************************************************)
(* Unary, binary and reducing instructions and vector_dup: the layout of   *)
(* the operands, the repeat count and the mask.                            *)
(***************************************************************************)
OperandOf(row, i, addrs, args) ==
    LET op == row.ops[i]
    IN  Operand(addrs[row.from[i]], op.bits, op.num, op.size,
                IF op.bs = Given THEN args.bs[row.from[i]] ELSE op.bs,
                IF op.rs = Given THEN args.rs[row.rsFrom[i]] ELSE op.rs)

RecordOpFunc(row, addrs, args, regs) ==
    [type |-> row.type, instr |-> row.instr, repeat |-> args.repeat, factor |-> row.factor,
     ops |-> [i \in DOMAIN row.ops |-> OperandOf(row, i, addrs, args)],
     mask |-> ParseVectorMask(regs, row.masked)]

RecordOpConfigFunc(row, addrs, config, regs, arch) ==
    RecordOpFunc(row, addrs, ArgsOfConfig(row, config, arch), regs)

-----------------------------------------------------------------------------
(***************************************************************************)
(* Select, squeeze and gather.                                             *)
(***************************************************************************)
\* What a select reads of the compare mask bound by set_cmpmask, if one is.
RecordCmpMaskLoad(regs, t, selectMode) ==
    IF regs.cmpMaskAddr = NoAddr THEN <<>>
    ELSE <<RecordCmpMask(regs.cmpMaskAddr, "READ",
                         CASE selectMode = 0 -> 256 \div BitsOf(t)
                           [] selectMode = 1 -> BitsOf(t) \div 8
                           [] OTHER -> 8)>>

RecordVselOpFunc(regs, t, selectMode, addrs, args) ==
    RecordCmpMaskLoad(regs, t, selectMode)
      \o (IF selectMode = 3 THEN <<>> ELSE <<RecordOpFunc(VselMode(t, selectMode), addrs, args, regs)>>)

\* vreduce by pattern: pattern 0 is read from memory, the other ones keep
\* every second, every fourth or every element.
VreduceRow(t, patternMode) ==
    LET kept == IF patternMode < 3 THEN 4 ELSE IF patternMode < 7 THEN 2 ELSE 8
    IN  IF patternMode = 0
        THEN Shaped(Row("vreduce", "VREDUCEV2_BINARY", "binary",
                        <<Shape(BitsOf(t), 8, 32, 1, 8), Lanes(t, 8),
                          Shape(BitsOf(t), 1, 256 \div BitsOf(t), 1, Given)>>))
        ELSE Shaped(Row("vreduce", "VREDUCEV2_UNARY", "binary",
                        <<Shape(BitsOf(t), kept, 32, 1, kept), Lanes(t, 8)>>))
RecordVreduceFunc(regs, t, patternMode, addrs, args) ==
    <<RecordOpFunc(VreduceRow(t, patternMode), addrs, args, regs)>>

\* The compare mask is two words of bits in memory; elements of 16 bits take
\* both, the second one first.
ParseCompareMask(words, t) == IF BitsOf(t) = 16 THEN [mask0 |-> words[2], mask1 |-> words[1]]
                              ELSE [mask0 |-> words[1], mask1 |-> {}]
\* compare is what memory holds at the second source.
RecordVreducev2Func(regs, t, addrs, args, compare) ==
    <<[type |-> "VREDUCEV2", dst |-> addrs[1], src0 |-> addrs[2], src1 |-> addrs[3],
       repeat |-> args.repeat, src0BlockStride |-> args.src0BlockStride,
       patternMode |-> args.patternMode, src0RepeatStride |-> args.src0RepeatStride,
       src1RepeatStride |-> args.src1RepeatStride % 256, dataBytes |-> BitsOf(t) \div 8,
       compareMask |-> ParseCompareMask(compare, t), mask |-> ParseVectorMask(regs, TRUE)]>>

ElementRecord(accessType, addr, bits, num, size) ==
    [type |-> "ELEMENT", accessType |-> accessType, addr |-> addr,
     dataBits |-> bits, blockNum |-> num, blockSize |-> size]

UbSize(arch) == IF arch = "C220" THEN 196608 ELSE 262144

\* One read for each entry of the table of offsets, as far as the table lies
\* in the unified buffer.
ParseElementRecord(vg, offsets, elementNum, elementBlockSize, arch) ==
    LET InUb(num) == vg.src + num * 4 < UbSize(arch)
        nums == SelectSeq([i \in 1 .. elementNum |-> i - 1], InUb)
    IN  [i \in DOMAIN nums |-> ElementRecord("READ", offsets[nums[i]] + vg.offsetAddr,
                                             vg.dstDataBits, 1, elementBlockSize)]

\* With lanes left out: the whole table is read, then a read and a write for
\* each active lane of each repeat.
ParseElementRecordMaskNorm(vg, offsets, nNum, arch) ==
    LET lanes == SelectSeq([i \in 1 .. nNum |-> i - 1], LAMBDA num : num \in vg.mask.set)
        size == vg.dstDataBits \div 8
        WriteAddr(rep, num) == vg.dst + num * 4 + rep * vg.dstRepeatStride * 32
        Pair(rep, num) ==
            <<ElementRecord("READ", offsets[num + rep * nNum] + vg.offsetAddr, vg.dstDataBits, 1, size)>>
              \o When(WriteAddr(rep, num) < UbSize(arch),
                      ElementRecord("WRITE", WriteAddr(rep, num), vg.dstDataBits, 1, size))
        \* An address behind the buffer ends the repeat.
        Reached(rep, i) == /\ vg.src + (lanes[i] + rep * nNum) * 4 < UbSize(arch)
                           /\ i > 1 => WriteAddr(rep, lanes[i - 1]) < UbSize(arch)
        Repeat(rep) == FlattenSeq([i \in DOMAIN lanes |->
                                     IF Reached(rep, i) THEN Pair(rep, lanes[i]) ELSE <<>>])
    IN  <<ElementRecord("READ", vg.src, 32, (nNum \div 8) * vg.dstRepeat, 32)>>
          \o FlattenSeq([r \in 1 .. vg.dstRepeat |-> Repeat(r - 1)])

\* vgather (masked, sizeN elements per repeat) and vgatherb (unmasked, blocks
\* of 32 bytes).  The offsets are what the table in memory holds.
RecordVgatherOpFunc(regs, bits, dst, src, offsets, args, sizeN, useMask, arch) ==
    LET mask == ParseVectorMask(regs, useMask)
        count == IF mask.mode = "COUNT" THEN mask.mask0 % 65536 ELSE 0
        vg == [type |-> "VGATHER", dst |-> dst, src |-> src, offsetAddr |-> args.offsetAddr,
               dstDataBits |-> bits, mask |-> mask, dstBlockStride |-> args.dstBlockStride,
               dstRepeatStride |-> args.dstRepeatStride, dstRepeat |-> args.repeat,
               dstBlockNum |-> 8, srcBlockNum |-> (sizeN \div 8) * args.repeat,
               dstBlockSize |-> 32, srcBlockSize |-> 32]
        byCount == [vg EXCEPT !.dstBlockSize = bits \div 8, !.srcBlockSize = 4, !.dstRepeatStride = 1,
                              !.dstRepeat = 1, !.dstBlockNum = count, !.srcBlockNum = count]
        size == IF useMask THEN bits \div 8 ELSE 32
        first == IF mask = NoMask THEN <<vg>> ELSE IF mask.mode = "COUNT" THEN <<byCount>> ELSE <<>>
    IN  first \o (IF src = 0 THEN <<>>
                  ELSE IF mask = NoMask
                  THEN ParseElementRecord(vg, offsets, vg.srcBlockNum * 8, size, arch)
                  ELSE IF mask.mode = "COUNT"
                  THEN ParseElementRecord(byCount, offsets, count, size, arch)
                  ELSE ParseElementRecordMaskNorm(vg, offsets, sizeN, arch))
RecordVgatherOpConfFunc(regs, bits, dst, src, offsets, config, arch) ==
    RecordVgatherOpFunc(regs, bits, dst, src, offsets,
                        [ParseVgatherConfig(config) EXCEPT !.dstBlockStride = 1],
                        IF bits = 32 THEN 64 ELSE 128, TRUE, arch)
RecordVgatherbConfigFunc(regs, bits, dst, src, offsets, config, arch) ==
    RecordVgatherOpFunc(regs, bits, dst, src, offsets, ParseVgatherConfig(config), 8, FALSE, arch)

-----------------------------------------------------------------------------
(***************************************************************************)
(* Merge sort, region proposals, transposition, sort of 32.                *)
(***************************************************************************)
Vmrgsort4Types == [C220 |-> "VMRGSORT4_OP_C220", M200 |-> "VMRGSORT4_OP_M200"]
\* src: four block numbers; lists: four lengths; maskSignal: the lists in use.
RecordVmrgsort4OpFunc(t, dst, src, repeat, lists, maskSignal, arch) ==
    LET srcUnit == IF arch = "C220" THEN 8 ELSE BitsOf(t)
        used == SelectSeq(<<1, 2, 3, 4>>, LAMBDA i : i \in maskSignal)
        totalNum == MapThenSumSet(LAMBDA i : lists[i], maskSignal)
        size == lists[1] * 4 * srcUnit
        whole == [addr |-> 0, dataBits |-> BitsOf(t), blockNum |-> 1, blockSize |-> size,
                  blockStride |-> 1, repeatStride |-> 1]
    IN  CASE repeat = 0 -> <<>>
          [] repeat = 1 ->
               [i \in DOMAIN used |-> ElementRecord("READ", src[used[i]] * srcUnit, BitsOf(t),
                                                    lists[used[i]], srcUnit)]
                 \o <<ElementRecord("WRITE", dst, BitsOf(t), totalNum, srcUnit)>>
          [] OTHER ->
               <<[type |-> Vmrgsort4Types[arch], instr |-> "vmrgsort4", repeat |-> repeat, factor |-> 1,
                  ops |-> <<[whole EXCEPT !.addr = dst], [whole EXCEPT !.addr = src[1] * srcUnit]>>,
                  mask |-> NoMask]>>
RecordVmrgsort4C310(dst, src, lists, repeat, validMask, isAllStored) ==
    <<[type |-> "VMRGSORT4_OP_C310", dst |-> dst, src |-> [i \in 1 .. 4 |-> src[i] * 8],
       elementNum |-> lists, repeat |-> repeat, validMask |-> validMask, isAllStored |-> isAllStored]>>

RecordVRegPropCoorOpFunc(t, dst, src, repeat, regionRange, isExtract) ==
    <<[type |-> "VEC_REGPROPCOOR_OP", dst |-> dst, src |-> src, dataBits |-> BitsOf(t),
       repeat |-> repeat, regionRange |-> regionRange, isExtract |-> isExtract]>>

\* The strides of this instruction are cut to 8 bits, those of its A5 variant
\* are not.
RecordScatterVnchwconvEvent(regs, dst, src, repeat, dstStride, srcStride, b8, dstHigh, srcHigh) ==
    <<[type |-> "SCATTERVNCHWCONV", dst |-> ParseVaRegister(regs, dst), src |-> ParseVaRegister(regs, src),
       repeat |-> repeat, dstStride |-> dstStride % 256, srcStride |-> srcStride % 256,
       b8 |-> b8, dstHighHalf |-> dstHigh, srcHighHalf |-> srcHigh]>>
RecordScatterVnchwconvA5(regs, dst, src, config, b8, dstHigh, srcHigh) ==
    <<[type |-> "SCATTERVNCHWCONV_A5", dst |-> ParseVaRegister(regs, dst), src |-> ParseVaRegister(regs, src),
       repeat |-> Field(config, 56, 8), dstStride |-> Field(config, 0, 16), srcStride |-> Field(config, 16, 16),
       b8 |-> b8, dstHighHalf |-> dstHigh, srcHighHalf |-> srcHigh]>>

RecordVbs32A5(t, dst, src0, src1, config) ==
    <<[type |-> "VBS32_A5", dst |-> dst, src0 |-> src0, src1 |-> src1, dataBits |-> BitsOf(t),
       repeat |-> Field(config, 56, 8)]>>

-----------------------------------------------------------------------------
(***************************************************************************)
(* Matrix multiplication, by fractals.  bits are the widths of the result  *)
(* and of the two sources.                                                 *)
(***************************************************************************)
CeilToFractal(realSize, fractalSize) == (realSize + fractalSize - 1) \div fractalSize

RecordMatrixOpFunc(addrs, a, bits) ==
    LET k0 == 256 \div bits[2]
        k1 == 256 \div (IF bits[3] = 2 THEN bits[2] ELSE bits[3])
        n0 == IF a.n <= 4 /\ bits[2] = 8 /\ bits[3] = 8 THEN 4 ELSE 16
        kA == CeilToFractal(a.k, k0)
        mA == CeilToFractal(a.m, 16)
        nB == CeilToFractal(a.n, n0)
    IN  IF a.m = 0 \/ a.k = 0 \/ a.n = 0 THEN <<>>
        ELSE <<[type |-> "MATRIX_MUL_OP", dst |-> addrs[1], src0 |-> addrs[2], src1 |-> addrs[3],
                m |-> a.m, n |-> a.n, src0Repeat |-> mA,
                src0RepeatStride |-> IF a.kDirectionAlign /\ bits[2] = 32 /\ bits[3] = 32
                                     THEN CeilToFractal(a.k, 16) * 2 ELSE kA,
                dstBlockNum |-> mA * nB, src0BlockNum |-> kA,
                src1BlockNum |-> CeilToFractal(a.k, k1) * nB,
                dstBlockSize |-> 32 * bits[1], src0BlockSize |-> 2 * k0 * bits[2],
                src1BlockSize |-> (k1 * n0 * bits[3]) \div 8,
                accumulates |-> ~a.cmatrixSource /\ ~a.cmatrixInitVal, enUnitFlag |-> a.unitFlag > 1]>>
RecordMatrixOpConfigFunc(addrs, config, bits) == RecordMatrixOpFunc(addrs, ParseMadConfig(config), bits)

RecordMmadA5(addrs, config, bits) ==
    LET a == ParseMadConfig(config)
        mA == CeilToFractal(a.m, 16)
        nB == CeilToFractal(a.n, 16)
        src0BlockNum == mA * CeilToFractal(a.k, 256 \div bits[2])
    IN  <<[type |-> "MMAD_A5", dst |-> addrs[1], src0 |-> addrs[2], src1 |-> addrs[3], m |-> a.m, n |-> a.n,
           \* In GEMV mode the row of matrix A is folded into a fractal.
           src0BlockNum |-> IF 61 \notin config /\ a.m = 1 THEN src0BlockNum \div 16 ELSE src0BlockNum,
           src1BlockNum |-> nB * CeilToFractal(a.k, 256 \div bits[3]), dstBlockNum |-> mA * nB,
           accumulates |-> ~a.cmatrixSource /\ ~a.cmatrixInitVal, enUnitFlag |-> a.unitFlag > 1]>>
=============================================================================
