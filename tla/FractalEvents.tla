--------------------------- MODULE FractalEvents ---------------------------
(***************************************************************************)
(* The memory events of the records of loads of fractals, of instructions  *)
(* with one operand in memory, and of the moves out of the matrix unit     *)
(* (core/framework/record_parse.cpp).                                      *)
(***************************************************************************)
EXTENDS Integers, Sequences, MoveEvents


-----------------------------------------------------------------------------
(***************************************************************************)
(* Loads of fractals.                                                      *)
(***************************************************************************)
\* Repeats that go down are laid out upwards from the lowest one.
ParseRecordLoad2D(r) ==
    LET base == r.src + r.baseIdx * 512
        offset == IF r.addrCalMode = "INC" THEN 0 ELSE (r.repeat - 1) * r.srcStride * 512
    IN  IF r.repeat = 0 \/ base < offset THEN <<>>
        ELSE <<Read(r, base - offset, 1, r.blockSize, 0, r.repeat, r.srcStride),
               Write(r, r.dst, 1, r.blockSize, 0, r.repeat, r.dstStride)>>
ParseRecordLoad2DSparse(r) ==
    IF r.repeat = 0 THEN <<>>
    ELSE <<Read(r, r.src0 + r.startId * 512, 1, 512, 1, r.repeat, 1), Read(r, r.src1 + r.startId * 128, 1, 128, 1, r.repeat, 1),
           Write(r, r.dst, 1, 512, 1, r.repeat, 1)>>

\* The fractals of a square matrix of a type.
GetFracNum(type) == CASE type = "B4" -> 4 [] type \in {"B8", "B32"} -> 2 [] type = "B16" -> 1
ParseRecordLoad2DTranspose(r) ==
    LET num == GetFracNum(r.dataType)
        stride == num * r.srcStride
        offset == IF r.addrMode THEN stride * 512 * (r.repeat - 1) ELSE 0
    IN  IF r.repeat = 0 \/ (r.addrMode /\ r.indexId < r.srcStride * (r.repeat - 1)) THEN <<>>
        ELSE <<Read(r, r.src + r.indexId * num * 512 - offset, num, 512, 1, r.repeat, stride),
               Write(r, r.dst, num, 512, r.dstFracStride + 1, r.repeat, r.dstStride + 1)>>

CheckTranspose(r) ==
    ~r.transpose \/ CASE r.dataType = "B4" -> r.mStep % 4 = 0
                      [] r.dataType = "B8" -> r.mStep % 2 = 0
                      [] r.dataType = "B16" -> TRUE
                      [] r.dataType = "B32" -> r.kStep % 2 = 0
HandleTransposeCase(r) ==
    CASE r.dataType = "B4" -> [num |-> r.kStep * 4, repeat |-> r.mStep \div 4]
      [] r.dataType = "B8" -> [num |-> r.kStep * 2, repeat |-> r.mStep \div 2]
      [] r.dataType = "B16" -> [num |-> r.kStep, repeat |-> r.mStep]
      [] r.dataType = "B32" -> [num |-> r.kStep \div 2, repeat |-> r.mStep * 2]
RebaseReverseStride(addr, repeat, size, stride) == IF stride < 0 THEN addr + stride * (repeat - 1) * size ELSE addr
ParseRecordLoadL12D(r) ==
    LET stride == Magnitude(r.srcStride)
        base == RebaseReverseStride(r.src + (r.kStart * stride + r.mStart) * 512, r.kStep, 512, r.srcStride)
        to == IF r.transpose THEN HandleTransposeCase(r) ELSE [num |-> r.mStep, repeat |-> r.kStep]
    IN  IF ~CheckTranspose(r) \/ base < 0 THEN <<>>
        ELSE <<Read(r, base, r.mStep, 512, 1, r.kStep, stride), Write(r, r.dst, to.num, 512, 1, to.repeat, r.dstStride)>>
ParseRecordLoadL1Mx2D(r) ==
    <<Read(r, r.src + (r.xStart * r.srcStride + r.yStart) * 32, r.yStep, 32, 1, r.xStep, r.srcStride)>>
ParseRecordLoadL12DTranspose(r) ==
    LET num == GetFracNum(r.dataType)
    IN  <<Read(r, r.src, num, 512, r.srcFracStride, r.repeat, r.srcStride),
          Write(r, r.dst, num, 512, r.dstFracStride, r.repeat, r.dstStride)>>
ParseRecordLoadB2(r) ==
    LET size == CeilByAlignSize(r.repeat * (IF r.dataType = "B8" THEN 128 ELSE 64), 512)
    IN  <<Read(r, r.src, 1, size, 1, 1, 0), Write(r, r.dst, 1, size, 1, 1, 0)>>
ParseRecordLoadAWinograd(r) ==
    LET bytes == GetDataSizeByType(r.dataType)
        size == r.extStepK * r.extStepM * bytes
        num == size \div 512
    IN  <<Read(r, r.src, 1, r.fmSizeW * r.fmSizeH * r.fmSizeCh * bytes, 0, 1, 0)>>
          \o When(num > 0 /\ size % 512 = 0, Write(r, r.dst, num, 512, 1, 4, r.innerDstGap + num))
ParseRecordLoadBWinograd(r) ==
    <<Read(r, r.src, 9, 512, 1, r.repeat, r.srcRptStride), Write(r, r.dst, 4, 512, r.innerDstStride, r.repeat, r.dstRptStride)>>

-----------------------------------------------------------------------------
(***************************************************************************)
(* Image to column.  A stride of 0 would never leave the code's loops; the *)
(* positions of a direction are those of a positive stride.                *)
(***************************************************************************)
CheckChannelSize(type, channel) ==
    CASE type = "B4" -> channel % 64 \in {0, 8, 16, 32} [] type = "B8" -> channel % 32 \in {0, 4, 8, 16}
      [] type = "B16" -> channel % 16 \in {0, 4, 8} [] type = "B32" -> channel % 8 \in {0, 4} [] OTHER -> FALSE
\* from, from + stride, ... below to.
Steps(from, to, stride) == [i \in 1 .. (IF to > from THEN CeilDiv(to - from, stride) ELSE 0) |-> from + (i - 1) * stride]
Each(s, Body(_)) == FlattenSeq([i \in DOMAIN s |-> Body(s[i])])

ParseRecordLoad3DFMap(r, bits) ==
    LET Inside(w, h) == w \in 0 .. r.fMapW - 1 /\ h \in 0 .. r.fMapH - 1
        At(c, h, w) == When(Inside(w, h), Read(r, r.src + (w + h * r.fMapW + c * r.fMapW * r.fMapH) * 32, 1, 32, 1, 1, 1))
        Window(c, h, w) == Loop(r.filterW, LAMBDA fw : Loop(r.filterH,
                             LAMBDA fh : At(c, h + fh * r.hDilation, w + fw * r.wDilation)))
    IN  Loop(CeilDiv(r.fMapC * bits, 256),
             LAMBDA c : Each(Steps(-r.topPad, r.fMapH + r.bottomPad, r.hStride),
               LAMBDA h : Each(Steps(-r.leftPad, r.fMapW + r.rightPad, r.wStride), LAMBDA w : Window(c, h, w))))
ParseRecordLoad3DMatrix(r, bits) ==
    LET overlaps == /\ r.rptTimes > 1
                    /\ IF r.rptMode > 0 THEN (256 \div bits) * r.rptStride < r.kStep ELSE 16 * r.rptStride < r.mStep
    IN  When(~overlaps, Write(r, r.dst, 1, (r.kStep * r.mStep * r.rptTimes * bits) \div 8, 1, 1, 1))
Load3DIsValid(r) == r.wDilation # 0 /\ r.hDilation # 0 /\ CheckChannelSize(r.dataType, r.fMapC)
ParseRecordLoad3D(r) ==
    LET bits == GetDataBitSizeByType(r.dataType)
    IN  IF ~Load3DIsValid(r) THEN <<>> ELSE ParseRecordLoad3DFMap(r, bits) \o ParseRecordLoad3DMatrix(r, bits)

\* A window of the matrix; in mode 0 the test is the other way round.
InWindow(pos, step, stride, times, n) == n >= pos /\ n < pos + stride * times /\ (n - pos) % stride < step
CheckMDirection(r, combinedH) ==
    IF r.matrixMode = 0 THEN combinedH < r.mPos \/ combinedH >= r.mPos + r.mStep
    ELSE InWindow(r.mPos, r.mStep, r.rptStride * 16, r.rptTimes, combinedH)
CheckKDirection(r, combinedW, bits) ==
    IF r.matrixMode = 0 THEN combinedW < r.kPos \/ combinedW >= r.kPos + r.kStep
    ELSE InWindow(r.kPos, r.kStep, (r.rptStride * 256) \div bits, r.rptTimes, combinedW)
CheckMKDirection(r, combinedH, combinedW, bits) == ~CheckMDirection(r, combinedH) \/ ~CheckKDirection(r, combinedW, bits)
HandleLoad3DEvent(r, bits, fMapID, filters) ==
    Loop(filters * r.fMapC,
         LAMBDA w : When(~CheckMKDirection(r, fMapID, w, bits),
                         Read(r, r.src + (w + fMapID * filters * r.fMapC) * bits, 1, bits, 1, 1, 1)))
ParseRecordLoad3DV2FMap(r, bits) ==
    LET rows == Steps(-r.topPad, r.fMapH + r.bottomPad - r.filterH * r.hDilation + 1, r.hStride)
        columns == Steps(-r.leftPad, r.fMapW + r.rightPad - r.filterW * r.wDilation + 1, r.wStride)
    IN  Loop(Len(rows) * Len(columns), LAMBDA fMapID : HandleLoad3DEvent(r, bits, fMapID, r.filterH * r.filterW))
ParseRecordLoad3DV2Matrix(r, bits) ==
    LET m == IF r.transposeMode THEN r.kStep ELSE r.mStep
        k == IF r.transposeMode THEN r.mStep ELSE r.kStep
    IN  <<Write(r, r.dst + r.outputMPos * 512, CeilDiv(m, 16), 512, 1, CeilDiv(k, 256 \div bits), r.dstStride)>>
ParseRecordLoad3DV2(r) ==
    LET bits == GetDataBitSizeByType(r.dataType)
    IN  IF ~Load3DIsValid(r) THEN <<>> ELSE ParseRecordLoad3DV2FMap(r, bits) \o ParseRecordLoad3DV2Matrix(r, bits)

-----------------------------------------------------------------------------
(***************************************************************************)
(* One operand in memory, and the broadcast into the matrix unit.          *)
(***************************************************************************)
ParseRecordDecompressHeader(r) == When(r.nBlock # 0, Read(r, r.src, 1, 32 * r.nBlock, 1, 1, 1))
ParseRecordBroadcast(r) ==
    LET read == (IF r.enableRepeat THEN 1 ELSE r.lenBurst) * (IF r.dataType[1] = "B32" THEN 2 ELSE 1)
        size == IF r.dataType[2] = "B32" THEN 1024 ELSE 512
    IN  IF r.nBurst = 0 \/ r.lenBurst = 0 THEN <<>>
        ELSE <<Read(r, r.src, read, 32, 1, r.nBurst, r.srcGap + read),
               Write(r, r.dst, r.lenBurst, size, 1, r.nBurst, r.dstGap + r.lenBurst)>>
ParseRecordDcPreload(r) == <<Read(r, r.src + r.offset, 1, 0, 1, 1, 1)>>
ParseRecordSet2D(r) ==
    <<Write(r, r.dst, r.dstBlockNum, r.dstBlockSize, 1, r.repeat, r.dstBlockNum + r.repeatGap)>>
ParseRecordSetL12D(r) == <<Write(r, r.dst, r.dstBlockNum, 32, 1, r.repeat, r.repeatGap)>>
ParseRecordLoadImage(r) ==
    <<Write(r, r.dst, (r.horSize + r.rPadSize + r.lPadSize) * (r.verSize + r.topPadSize + r.botPadSize), 32, 1, 1, 0)>>
ParseRecordLoadSmask(r) == <<Read(r, r.src, 1, r.smaskSize, 0, 1, 0)>>

-----------------------------------------------------------------------------
(***************************************************************************)
(* The fix pipe: columns of 16 elements out of the matrix unit.            *)
(***************************************************************************)
ToRows(r) == r.enNZ2ND \/ r.enNZ2DN
\* c0 is the size of a block, unit that of the stride between matrices.
ReadColumns(r, c0, unit) ==
    LET full == r.nSize \div 16
        rest == r.nSize % 16
        Src(nd) == r.src + r.srcNdStride * nd * unit
    IN  IF ~ToRows(r) THEN <<Read(r, r.src, r.mSize, c0, 1, CeilDiv(r.nSize, 16), r.srcStride)>>
        ELSE Loop(r.ndNum, LAMBDA nd : <<Read(r, Src(nd), r.mSize, c0, IF r.enNZ2DN THEN r.srcNzC0Stride ELSE 1, full,
                                              r.srcStride)>>)
               \o (IF rest = 0 THEN <<>>
                   ELSE Loop(r.ndNum, LAMBDA nd : <<Read(r, Src(nd) + r.srcStride * full * c0, rest, 4, 1, r.mSize,
                                                         IF r.enNZ2DN THEN r.srcNzC0Stride * 16 ELSE 16)>>))
FixPipeReadFromL0C(r) == ReadColumns(r, 64, IF r.isC310 THEN 64 ELSE 1024)
FixPipeReadFromL0CA5(r) == ReadColumns(r, 32, 32)

\* Two cores share the destination: each gets half of the rows, or of the columns.
ApplyDualDstMode(r, e, blockNumIsM) ==
    CASE r.dualDstMode \notin {1, 2} -> e
      [] r.dualDstMode = (IF blockNumIsM THEN 1 ELSE 2) -> [e EXCEPT !.blockNum = @ \div 2]
      [] OTHER -> [e EXCEPT !.repeatTimes = @ \div 2]
ParseFixPipeWriteByMultiMode(r, size) ==
    LET nColumn == CeilDiv(r.nSize, 16)
        Rows(n) == IF r.isC310 THEN r.mSize * n ELSE r.mSize
        Dual(num, repeat, stride) == ApplyDualDstMode(r, Write(r, r.dst, num, size, 1, repeat, stride), TRUE)
        pairs == Dual(Rows(32), nColumn \div 2, r.dstStride)
        last == [pairs EXCEPT !.addr = r.dst + r.dstStride * pairs.repeatTimes * size,
                              !.blockSize = IF r.isC310 THEN size ELSE 16, !.blockNum = Rows(16),
                              !.repeatTimes = 1, !.repeatStride = r.dstStride * 2]
    IN  CASE r.channelSplit -> <<Dual(Rows(8), CeilDiv(r.nSize, 8), r.dstStride)>>
          [] ~r.channelSplit /\ r.int4ChannelMerge ->
               <<IF r.isC310 THEN Dual(r.mSize * 32, CeilDiv(r.nSize, 64), r.dstStride \div 2)
                 ELSE Dual(r.mSize, nColumn \div 4, r.dstStride)>>
          [] ~r.channelSplit /\ r.int8ChannelMerge ->
               <<pairs>> \o When(nColumn % 2 # 0, ApplyDualDstMode(r, last, TRUE))
          [] OTHER -> <<Dual(IF r.isC310 THEN r.mSize * 16 ELSE (r.mSize * r.quantPreBits) \div 16, nColumn, r.dstStride)>>
\* Rows of elements; two elements of 4 bits make a byte.
ElementSize(r) == IF r.quantPreBits = 4 THEN 1 ELSE r.quantPreBits \div 8
WriteRows(r, dual) ==
    LET Halved(n) == IF r.quantPreBits = 4 THEN n \div 2 ELSE n
        row == Write(r, r.dst, Halved(IF r.enNZ2DN THEN r.mSize ELSE r.nSize), ElementSize(r), 1,
                     IF r.enNZ2DN THEN r.nSize ELSE r.mSize, Halved(r.dstStride))
        one == IF dual THEN ApplyDualDstMode(r, row, FALSE) ELSE row
    IN  Loop(r.ndNum, LAMBDA nd : <<[one EXCEPT !.addr = @ + (r.dstNdStride * nd * r.quantPreBits) \div 8]>>)
FixPipeWriteToOut(r) ==
    IF ToRows(r) THEN WriteRows(r, FALSE)
    ELSE ParseFixPipeWriteByMultiMode(r, IF r.isC310 THEN ElementSize(r) ELSE 32)
FixPipeWriteToL1OrUB(r) ==
    IF ToRows(r) THEN WriteRows(r, r.enNZ2ND) ELSE ParseFixPipeWriteByMultiMode(r, ElementSize(r))

CheckRecordMovFpValid(r) == r.mSize # 0 /\ r.nSize # 0 /\ ~(r.enNZ2ND /\ r.ndNum = 0)
FixPipeEvents(r, events) ==
    IF ~CheckRecordMovFpValid(r) THEN <<>>
    ELSE events \o (IF r.enUnitFlag THEN CreateUnitFlagSyncEvent(FALSE) ELSE <<>>)
ParseRecordMovFp(r) == FixPipeEvents(r, FixPipeReadFromL0C(r) \o FixPipeWriteToOut(r))
ParseRecordFixL0CToL1(r) == FixPipeEvents(r, FixPipeReadFromL0CA5(r) \o FixPipeWriteToL1OrUB(r))
\* The write is to the memory of a vector core beside this core: of both in the dual modes.
ParseRecordFixL0CToUB(r) ==
    LET To(sub) == [i \in DOMAIN FixPipeWriteToL1OrUB(r) |-> [dstSub |-> sub] @@ FixPipeWriteToL1OrUB(r)[i]]
    IN  FixPipeEvents(r, FixPipeReadFromL0CA5(r)
                           \o (IF r.dualDstMode \in {1, 2} THEN To(0) \o To(1) ELSE To(r.subVecBlockId)))

-----------------------------------------------------------------------------
\* g_parseFuncs, for the records of moves; the others are in ParseCalc.
ParseMove(r) ==
    CASE r.type = "DMA_MOV" -> ParseRecordDmaMov(r)
      [] r.type = "DMA_MOV_CONV_RELU" -> ParseRecordDmaMovConvRelu(r)
      [] r.type = "DMA_MOV_DEPTH_WISE" -> ParseRecordDmaMovDepthWise(r)
      [] r.type \in {"MOV_L1_TO_UB", "MOV_UB_TO_L1", "MOV_UB_TO_UB"} -> AddMemEventForMovL1Ub(r)
      [] r.type = "MOV_CBUF_TO_BT" -> ParseRecordMovCbuf2Bt(r)
      [] r.type = "MOV_CBUF_TO_FB" -> ParseRecordMovCbuf2Fb(r)
      [] r.type = "MOV_BT" -> ParseRecordMovBt(r)
      [] r.type = "DMA_MOV_ND2NZ" -> ParseRecordDmaMovNd2nz(r)
      [] r.type = "DMA_MOV_ND2NZ_D" -> ParseRecordDmaMovNd2NzDav(r, TRUE)
      [] r.type = "DMA_MOV_DN2NZ_D" -> ParseRecordDmaMovNd2NzDav(r, FALSE)
      [] r.type = "MOV_ALIGN" -> ParseRecordMovAlign(r)
      [] r.type = "MOV_ALIGN_V2" -> ParseRecordMovAlignV2(r)
      [] r.type = "ND_DMA_OUT_TO_UB" -> ParseRecordNdDmaMovOut2Ub(r)
      [] r.type = "LOAD_2D" -> ParseRecordLoad2D(r)
      [] r.type = "LOAD_2D_SPARSE" -> ParseRecordLoad2DSparse(r)
      [] r.type = "LOAD_2D_TRANSPOSE" -> ParseRecordLoad2DTranspose(r)
      [] r.type = "LOAD_L1_2D" -> ParseRecordLoadL12D(r)
      [] r.type = "LOAD_L1_MX_2D" -> ParseRecordLoadL1Mx2D(r)
      [] r.type = "LOAD_L1_2D_TRANSPOSE" -> ParseRecordLoadL12DTranspose(r)
      [] r.type = "LOAD_B2" -> ParseRecordLoadB2(r)
      [] r.type = "LOAD_A_WINOGRAD" -> ParseRecordLoadAWinograd(r)
      [] r.type = "LOAD_B_WINOGRAD" -> ParseRecordLoadBWinograd(r)
      [] r.type = "LOAD_3D" -> ParseRecordLoad3D(r)
      [] r.type = "LOAD_3D_V2" -> ParseRecordLoad3DV2(r)
      [] r.type = "SET_2D" -> ParseRecordSet2D(r)
      [] r.type = "SET_L1_2D" -> ParseRecordSetL12D(r)
      [] r.type = "LOAD_IMAGE" -> ParseRecordLoadImage(r)
      [] r.type = "LOAD_SMASK" -> ParseRecordLoadSmask(r)
      [] r.type = "DECOMPRESS_HEADER" -> ParseRecordDecompressHeader(r)
      [] r.type = "BROADCAST" -> ParseRecordBroadcast(r)
      [] r.type = "DC_PRELOAD" -> ParseRecordDcPreload(r)
      [] r.type = "MOV_FP" -> ParseRecordMovFp(r)
      [] r.type = "FIX_L0C_TO_L1" -> ParseRecordFixL0CToL1(r)
      [] r.type = "FIX_L0C_TO_UB" -> ParseRecordFixL0CToUB(r)
MoveTypes ==
    {"DMA_MOV", "DMA_MOV_CONV_RELU", "DMA_MOV_DEPTH_WISE", "MOV_L1_TO_UB", "MOV_UB_TO_L1", "MOV_UB_TO_UB",
     "MOV_CBUF_TO_BT", "MOV_CBUF_TO_FB", "MOV_BT", "DMA_MOV_ND2NZ", "DMA_MOV_ND2NZ_D", "DMA_MOV_DN2NZ_D", "MOV_ALIGN",
     "MOV_ALIGN_V2", "ND_DMA_OUT_TO_UB", "LOAD_2D", "LOAD_2D_SPARSE", "LOAD_2D_TRANSPOSE", "LOAD_L1_2D",
     "LOAD_L1_MX_2D", "LOAD_L1_2D_TRANSPOSE", "LOAD_B2", "LOAD_A_WINOGRAD", "LOAD_B_WINOGRAD", "LOAD_3D", "LOAD_3D_V2",
     "SET_2D", "SET_L1_2D", "LOAD_IMAGE", "LOAD_SMASK", "DECOMPRESS_HEADER", "BROADCAST", "DC_PRELOAD", "MOV_FP",
     "FIX_L0C_TO_L1", "FIX_L0C_TO_UB"}
=============================================================================
