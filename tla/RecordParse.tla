---------------------------- MODULE RecordParse ----------------------------
(***************************************************************************)
(* The memory events of the records of vector and matrix instructions      *)
(* (core/framework/record_parse.cpp, record_parse_calc.cpp,                *)
(* record_parse_ctrl.cpp).  blockType is "AIVEC" or "AICUBE", the kind of  *)
(* the core that wrote the record.                                         *)
(***************************************************************************)
EXTENDS Integers, Sequences, RecordCalc

Event(record, i, opType) == MemEvent(opType, "UB", record.ops[i], record.repeat)
\* Events that no mask applies to.
Block1(opType, memType, addr, num, size) == MemEvent(opType, memType, Operand(addr, 8, num, size, 1, 1), 1)

ParseVecdupRecord(r, blockType) == MaskModeProcess(Event(r, 1, "WRITE"), r.mask, r.type, blockType)

ParseRecordUnaryOp(r, blockType) ==
    MaskModeProcess(Event(r, 2, "READ"), r.mask, r.type, blockType)
      \o MaskModeProcess(Event(r, 1, "WRITE"), r.mask, r.type, blockType)

\* A ternary instruction reads its destination as well.
ParseRecordBinaryOp(r, blockType) ==
    LET opType == IF r.type = "TERNARY_OP" THEN "MEMCPY_BLOCKS" ELSE "WRITE"
    IN  MaskModeProcess(Event(r, 2, "READ"), r.mask, "LOAD", blockType)
          \o MaskModeProcess(Event(r, 3, "READ"), r.mask, "LOAD", blockType)
          \o MaskModeProcess(Event(r, 1, opType), r.mask, "LOAD", blockType)

\* The second source of a select is not masked in mode 1, which has one block,
\* and also not when it is one block further in every repeat.  Its number of
\* repeats is the one that the first source left behind.
RepeatsLeft(event, mask, blockType) ==
    LET left == MaskModeProcess(event, mask, "LOAD", blockType)
    IN  IF mask.mode = "NORM" \/ left = <<>> THEN event.repeatTimes ELSE left[Len(left)].repeatTimes
ParseRecordVsel(r, blockType) ==
    LET src0 == Event(r, 2, "READ")
        src1 == [Event(r, 3, "READ") EXCEPT !.repeatTimes = RepeatsLeft(src0, r.mask, blockType)]
    IN  MaskModeProcess(src0, r.mask, "LOAD", blockType)
          \o (IF src1.blockNum = 1 \/ src1.repeatStride = 1 THEN <<src1>>
              ELSE MaskModeProcess(src1, r.mask, "LOAD", blockType))
          \o MaskModeProcess(Event(r, 1, "WRITE"), r.mask, "LOAD", blockType)

\* By count, the destination of a reduction has one element for reduceRatio
\* elements of the source.
ReduceRatio(r) ==
    LET dst == r.ops[1]
        src == r.ops[2]
    IN  IF dst.blockNum = 0 \/ dst.blockSize = 0 THEN 0
        ELSE (((src.blockNum * src.blockSize) \div r.factor) \div dst.blockNum) \div dst.blockSize
ParseRecordReduceOp(r, blockType) ==
    LET ratio == ReduceRatio(r)
        dstMask == IF r.mask.mode = "NORM" THEN r.mask
                   ELSE [r.mask EXCEPT !.mask0 = (@ + ratio - 1) \div ratio]
    IN  IF r.mask.mode = "COUNT" /\ ratio = 0 THEN <<>>
        ELSE MaskModeProcess(Event(r, 2, "READ"), r.mask, "LOAD", blockType)
               \o MaskModeProcess(Event(r, 1, "WRITE"), dstMask, "LOAD", blockType)

-----------------------------------------------------------------------------
(***************************************************************************)
(* vreducev2: the elements that a repeat writes are those of the bits set  *)
(* in a pattern or in the compare mask, among the elements it reads.       *)
(***************************************************************************)
CountElemByMask(mask, readCount) == Cardinality(mask \cap 0 .. readCount - 1)

PatternMask(patternMode) ==
    CASE patternMode = 0 -> {}
      [] patternMode \in 1 .. 2 -> {b \in 0 .. 63 : b % 2 = patternMode - 1}
      [] patternMode \in 3 .. 6 -> {b \in 0 .. 63 : b % 4 = patternMode - 3}
      [] patternMode = 7 -> 0 .. 63
CountElemByPattern(patternMode, readCount) ==
    (readCount \div 64) * Cardinality(PatternMask(patternMode))
      + CountElemByMask(PatternMask(patternMode), readCount % 64)

CountElemByCompareMask(mask, dataBytes, readCount) ==
    LET loop == readCount \div 64
        mask1Loop == loop \div 2
        mask0Loop == loop - mask1Loop
        next == IF mask0Loop = mask1Loop THEN mask.mask0 ELSE mask.mask1
    IN  IF dataBytes = 2
        THEN mask0Loop * Cardinality(mask.mask0) + mask1Loop * Cardinality(mask.mask1)
               + CountElemByMask(next, readCount % 64)
        ELSE loop * Cardinality(mask.mask0) + CountElemByMask(mask.mask0, readCount % 64)

ParseReduceV2WriteElemCount(r) ==
    LET elemRead == IF r.mask.mode = "NORM" THEN 256 \div r.dataBytes ELSE r.mask.mask0
    IN  r.repeat * (IF r.patternMode = 0
                    THEN CountElemByCompareMask(r.compareMask, r.dataBytes, elemRead)
                    ELSE CountElemByPattern(r.patternMode, elemRead))

ParseRecordReduceV2(r) ==
    LET bits == 8 * r.dataBytes
        src0 == MemEvent("READ", "UB", Operand(r.src0, bits, 8, 32, r.src0BlockStride, r.src0RepeatStride), r.repeat)
        src1 == MemEvent("READ", "UB", Operand(r.src1, bits, 32 \div r.dataBytes, 1, 1, r.src1RepeatStride * 32),
                         r.repeat)
        size == ParseReduceV2WriteElemCount(r) * r.dataBytes
    IN  (IF r.mask.mode = "NORM" THEN <<src0>> ELSE MaskCountProcessByRepeat(src0, r.mask.mask0))
          \o When(r.patternMode = 0, src1)
          \o <<MemEvent("WRITE", "UB", Operand(r.dst, bits, 1, size, 1, 1), 1)>>

-----------------------------------------------------------------------------
(***************************************************************************)
(* Gather, merge sort, region proposals, transposition, compare mask.      *)
(***************************************************************************)
ParseRecordVgather(r) ==
    <<MemEvent("READ", "UB", Operand(r.src, 32, r.srcBlockNum, r.srcBlockSize, 1, 1), 1),
      MemEvent("WRITE", "UB", Operand(r.dst, r.dstDataBits, r.dstBlockNum, r.dstBlockSize, r.dstBlockStride,
                                      r.dstRepeatStride), r.dstRepeat)>>

ParseRecordElement(r) ==
    <<MemEvent(r.accessType, "UB", Operand(r.addr, r.dataBits, r.blockNum, r.blockSize, 1, 1), 1)>>

ParseRecordCmpMask(r) == <<Block1(r.accessType, "UB", r.addr, 1, r.size)>>

\* A list in use that is empty, lists of different length: no execution.
CheckRecordVms4v2A5(r) ==
    LET someEmpty == \E i \in r.validMask : r.elementNum[i] = 0
    IN  CASE r.isAllStored -> ~someEmpty
          [] ~r.isAllStored /\ r.repeat = 0 -> FALSE
          [] ~r.isAllStored /\ r.repeat = 1 -> ~someEmpty
          [] OTHER -> /\ r.validMask = 1 .. 4
                      /\ \A i \in 2 .. 4 : r.elementNum[i] = r.elementNum[1]
                      /\ r.elementNum[1] # 0
ParseRecordVms4v2A5Repeat1(r) ==
    LET used == SelectSeq(<<1, 2, 3, 4>>, LAMBDA i : i \in r.validMask)
        total == MapThenSumSet(LAMBDA i : r.elementNum[i], r.validMask)
    IN  [i \in DOMAIN used |-> Block1("READ", "UB", r.src[used[i]], r.elementNum[used[i]], 8)]
          \o <<Block1("WRITE", "UB", r.dst, total, 8)>>
ParseRecordVms4v2A5(r) ==
    LET whole == Operand(0, 8, 1, r.elementNum[1] * 32, 1, 1)
    IN  IF ~CheckRecordVms4v2A5(r) THEN <<>>
        ELSE IF r.repeat = 1 \/ r.isAllStored THEN ParseRecordVms4v2A5Repeat1(r)
        ELSE <<MemEvent("READ", "UB", [whole EXCEPT !.addr = r.src[1]], r.repeat),
               MemEvent("WRITE", "UB", [whole EXCEPT !.addr = r.dst], r.repeat)>>

ParseVaRegisterEvents(registers, highHalf, opType, size, stride, repeat) ==
    FlattenSeq([i \in 1 .. 2 |->
      [e \in 1 .. 8 |-> MemEvent(opType, "UB",
                                 Operand(registers[i][e - 1] * 32 + (IF highHalf THEN 16 ELSE 0),
                                         8, 1, size, 1, stride), repeat)]])
ParseRecordScatterVnchwconv(r) ==
    LET size == IF r.b8 THEN 16 ELSE 32
        unit == IF r.b8 THEN 2 ELSE 1
    IN  ParseVaRegisterEvents(r.src, r.b8 /\ r.srcHighHalf, "READ", size, r.srcStride * unit, r.repeat)
          \o ParseVaRegisterEvents(r.dst, r.b8 /\ r.dstHighHalf, "WRITE", size, r.dstStride * unit, r.repeat)

\* Sixteen proposals of eight elements; the instruction moves one element of
\* each between the proposals and a packed vector.
ParseVRegPropCoorOPRecord(r) ==
    LET size == r.dataBits \div 8
    IN  IF r.dataBits \notin {16, 32} \/ r.regionRange > 5 THEN <<>>
        ELSE <<MemEvent(IF r.isExtract THEN "WRITE" ELSE "READ", "UB",
                        Operand(r.src, 8, 1, size * 16, 0, 1), r.repeat),
               MemEvent(IF r.isExtract THEN "READ" ELSE "WRITE", "UB",
                        Operand(r.dst + size * r.regionRange, 8, 16, size, 8, 128), r.repeat)>>

ParseVbs32A5(r) ==
    IF r.repeat = 0 THEN <<>>
    ELSE <<MemEvent("READ", "UB", Operand(r.src0, 8, 1, 4 * r.dataBits, 0, 1), r.repeat),
           MemEvent("READ", "UB", Operand(r.src1, 8, 1, 128, 0, 1), r.repeat),
           MemEvent("WRITE", "UB", Operand(r.dst, 8, 1, 256, 0, 1), r.repeat)>>

-----------------------------------------------------------------------------
(***************************************************************************)
(* Matrix multiplication.  With the unit flag the write of the result is   *)
(* followed by a flag between the cube pipe and the fix pipe.              *)
(***************************************************************************)
CreateUnitFlagSyncEvent(isWriteMode) ==
    LET src == IF isWriteMode THEN "PIPE_M" ELSE "PIPE_FIX"
        dst == IF isWriteMode THEN "PIPE_FIX" ELSE "PIPE_M"
    IN  <<[opType |-> "SET_FLAG", src |-> src, dst |-> dst], [opType |-> "WAIT_FLAG", src |-> src, dst |-> dst]>>

ResultEvent(r, size) ==
    MemEvent(IF r.accumulates THEN "MEMCPY_BLOCKS" ELSE "WRITE", "L0C", Operand(r.dst, 8, r.dstBlockNum, size, 1, 0), 1)
ParseMatrixMulOpRecord(r) ==
    <<MemEvent("READ", "L0A", Operand(r.src0, 8, r.src0BlockNum, r.src0BlockSize, 1, r.src0RepeatStride), r.src0Repeat),
      MemEvent("READ", "L0B", Operand(r.src1, 8, r.src1BlockNum, r.src1BlockSize, 1, 0), 1),
      ResultEvent(r, r.dstBlockSize)>>
      \o (IF r.enUnitFlag THEN CreateUnitFlagSyncEvent(TRUE) ELSE <<>>)
ParseMmadA5Record(r) ==
    <<MemEvent("READ", "L0A", Operand(r.src0, 8, r.src0BlockNum, 512, 1, 0), 1),
      MemEvent("READ", "L0B", Operand(r.src1, 8, r.src1BlockNum, 512, 1, 0), 1),
      ResultEvent(r, 1024)>>
      \o (IF r.enUnitFlag THEN CreateUnitFlagSyncEvent(TRUE) ELSE <<>>)

-----------------------------------------------------------------------------
\* g_parseFuncs, for the records above.
ParseLdvaRecord(r) == <<MemEvent("READ", "UB", Operand(r.addr, 8, 1, r.size, 0, 0), 1)>>

\* g_parseFuncs, for the records of calculations.
ParseCalc(r, blockType) ==
    CASE r.type = "VEC_DUP" -> ParseVecdupRecord(r, blockType)
      [] r.type \in {"UNARY_OP", "VCOPY_OP", "VCONV_DST_S4_OP", "VCONV_SRC_S4_OP", "VREDUCEV2_UNARY",
                     "VMRGSORT4_OP_C220", "VMRGSORT4_OP_M200"} -> ParseRecordUnaryOp(r, blockType)
      [] r.type \in {"BINARY_OP", "TERNARY_OP", "VREDUCEV2_BINARY"} -> ParseRecordBinaryOp(r, blockType)
      [] r.type = "VSEL_OP" -> ParseRecordVsel(r, blockType)
      [] r.type = "REDUCE_OP" -> ParseRecordReduceOp(r, blockType)
      [] r.type = "VREDUCEV2" -> ParseRecordReduceV2(r)
      [] r.type = "VGATHER" -> ParseRecordVgather(r)
      [] r.type = "ELEMENT" -> ParseRecordElement(r)
      [] r.type = "CMPMASK_OP" -> ParseRecordCmpMask(r)
      [] r.type = "VMRGSORT4_OP_C310" -> ParseRecordVms4v2A5(r)
      [] r.type \in {"SCATTERVNCHWCONV", "SCATTERVNCHWCONV_A5"} -> ParseRecordScatterVnchwconv(r)
      [] r.type = "VEC_REGPROPCOOR_OP" -> ParseVRegPropCoorOPRecord(r)
      [] r.type = "VBS32_A5" -> ParseVbs32A5(r)
      [] r.type = "MATRIX_MUL_OP" -> ParseMatrixMulOpRecord(r)
      [] r.type = "MMAD_A5" -> ParseMmadA5Record(r)
      [] r.type = "LDVA" -> ParseLdvaRecord(r)
=============================================================================
