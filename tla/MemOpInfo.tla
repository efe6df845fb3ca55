----------------------------- MODULE MemOpInfo -----------------------------
(***************************************************************************)
(* The memory events that the records of a kernel are turned into, the     *)
(* processing of the vector mask, and the memory operations the address    *)
(* check makes of an event.                                                *)
(*                                                                         *)
(* An event is a block of blockSize bytes, blockNum times at a distance of *)
(* blockStride blocks, the whole repeatTimes times at a distance of        *)
(* repeatStride blocks.  A mask is [mode |-> "NORM", set |-> the lanes] or *)
(* [mode |-> "COUNT", mask0 |-> the number of elements].                   *)
(***************************************************************************)
EXTENDS Integers, Sequences, FiniteSets, SequencesExt

\* The bits of a mask register pair, and the mask that leaves nothing out.
MaskBits == 128
NoMask == [mode |-> "NORM", set |-> 0 .. MaskBits - 1]

\* The layout of one operand of an instruction.
Operand(addr, bits, num, size, blockStride, repeatStride) ==
    [addr |-> addr, dataBits |-> bits, blockNum |-> num, blockSize |-> size,
     blockStride |-> blockStride, repeatStride |-> repeatStride]

\* A memory event: the access of an operand.
MemEvent(opType, memType, operand, repeat) ==
    [opType |-> opType, memType |-> memType, addr |-> operand.addr,
     dataBits |-> operand.dataBits, blockNum |-> operand.blockNum,
     blockSize |-> operand.blockSize, blockStride |-> operand.blockStride,
     repeatTimes |-> repeat, repeatStride |-> operand.repeatStride]

\* size contiguous bytes, as one event.
ElemsOfBlock(event) == (event.blockSize * 8) \div event.dataBits

-----------------------------------------------------------------------------
(***************************************************************************)
(* The vector mask.  Each operator gives the events that stand for the     *)
(* active part of an event.                                                *)
(***************************************************************************)
When(condition, event) == IF condition THEN <<event>> ELSE <<>>

TailOfRepeats(event, nBlock, elems, repeats) ==
    [r \in 1 .. repeats |->
       [event EXCEPT !.repeatTimes = 1, !.blockNum = 1,
                     !.blockSize = (elems * event.dataBits) \div 8,
                     !.addr = event.addr
                                + nBlock * event.blockStride * event.blockSize
                                + (r - 1) * event.repeatStride * event.blockSize]]

\* The same number of elements in each repeat: the full blocks of all repeats,
\* then the incomplete last block of each repeat on its own.
MaskCountProcessByRepeat(event, count) ==
    LET nBlock == count \div ElemsOfBlock(event)
        last == count - nBlock * ElemsOfBlock(event)
    IN  IF ElemsOfBlock(event) = 0 THEN <<>>
        ELSE When(nBlock > 0, [event EXCEPT !.blockNum = nBlock])
               \o (IF last = 0 THEN <<>>
                   ELSE TailOfRepeats(event, nBlock, last, event.repeatTimes))

MaskCountProcessContinuous(event, count) ==
    <<[event EXCEPT !.blockSize = (count * event.dataBits * event.repeatTimes) \div 8,
                    !.blockNum = 1, !.repeatTimes = 1]>>

\* A number of elements that replaces the number of repeats: the full repeats,
\* the full blocks of the last repeat, the rest of the last block.
CountByElements(event, count) ==
    LET elemEachBlock == ElemsOfBlock(event)
        elemEachRepeat == event.blockNum * elemEachBlock
        nRepeat == count \div elemEachRepeat
        elemLastRepeat == count - nRepeat * elemEachRepeat
        lastBlkNum == elemLastRepeat \div elemEachBlock
        elemLastBlock == elemLastRepeat - lastBlkNum * elemEachBlock
        lastRepeat == event.addr + nRepeat * event.repeatStride * event.blockSize
        lastBlock == lastRepeat + lastBlkNum * event.blockStride * event.blockSize
    IN  When(nRepeat > 0, [event EXCEPT !.repeatTimes = nRepeat])
          \o When(lastBlkNum > 0, [event EXCEPT !.addr = lastRepeat, !.blockNum = lastBlkNum,
                                                !.repeatTimes = 1])
          \o When(elemLastBlock > 0,
                  [event EXCEPT !.addr = lastBlock, !.blockNum = 1, !.repeatTimes = 1,
                                !.blockSize = (elemLastBlock * event.dataBits) \div 8])

MaskCountProcess(event, mask0, recordType) ==
    IF mask0 = 0 \/ event.dataBits = 0 THEN <<>>
    ELSE IF recordType = "VCOPY_OP" THEN MaskCountProcessByRepeat(event, mask0)
    ELSE IF recordType \in {"VREDUCEV2_BINARY", "VREDUCEV2_UNARY"}
         THEN IF event.opType = "WRITE" THEN MaskCountProcessContinuous(event, mask0)
                                        ELSE MaskCountProcessByRepeat(event, mask0)
    ELSE IF ElemsOfBlock(event) = 0 THEN <<>>
    ELSE CountByElements(event, mask0)

\* The lanes up to the last one that is set.
ParseVectorMaskCount_bits(set) == Cardinality(set)
ParseVectorMaskCount(set) == IF set = {} THEN 0 ELSE 1 + CHOOSE b \in set : \A c \in set : c <= b

\* Only instructions on eight blocks of 32 bytes of elements of 16 bits and
\* more are cut; the other ones keep the whole event.
MaskNormalProcess(event, set) ==
    IF \/ set = NoMask.set
       \/ event.blockNum # 8 \/ event.blockSize # 32 \/ event.dataBits < 16
    THEN <<event>>
    ELSE MaskCountProcessByRepeat(event, ParseVectorMaskCount(set))

MaskModeProcess(event, mask, recordType, blockType) ==
    IF \/ event.blockNum = 0 \/ event.blockSize = 0
       \/ blockType = "AICUBE"
       \/ mask.mode = "NORM" /\ event.repeatTimes = 0
    THEN <<>>
    ELSE IF mask.mode = "NORM" THEN MaskNormalProcess(event, mask.set)
    ELSE MaskCountProcess(event, mask.mask0, recordType)

-----------------------------------------------------------------------------
(***************************************************************************)
(* What an event covers: the bytes of its blocks.                          *)
(***************************************************************************)
BlocksOf(event) ==
    {event.addr + (r * event.repeatStride + b * event.blockStride) * event.blockSize :
        r \in 0 .. event.repeatTimes - 1, b \in 0 .. event.blockNum - 1}
BytesOf(event) == {a + i : a \in BlocksOf(event), i \in 0 .. event.blockSize - 1}
BytesOfAll(events) == UNION {BytesOf(events[i]) : i \in DOMAIN events}
OpsOf(events, opTypes) == SelectSeq(events, LAMBDA e : e.opType \in opTypes)
=============================================================================
