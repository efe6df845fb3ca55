----------------------------- MODULE RecordMove -----------------------------
(***************************************************************************)
(* The records of the instructions that move data                          *)
(* (plugin/record_move_instructions.h).                                    *)
(*                                                                         *)
(* A call o of a stub is [row |-> a row of MoveInstrs, form |-> one of its *)
(* forms, dst, src |-> addresses, words |-> the configuration words (empty *)
(* in the other forms), args |-> the arguments by name (in those forms),   *)
(* more |-> the arguments that every form has, by name].  spr is what the  *)
(* tool has last seen written to the special registers.  An operator gives *)
(* the fields of the record; RecordMove puts the record together.  The     *)
(* addresses lie below the range, from 24 to 40 TB, in which               *)
(* GmAddrSubOffset takes the offset of the second-level cache off.         *)
(***************************************************************************)
EXTENDS Integers, Sequences, TLC, RecordCalc, MoveInstrs

\* The two's complement number in the low bits of a word.
Signed(word, width) ==
    Field(word, 0, width - 1) - (IF width - 1 \in word THEN 2 ^ (width - 2) ELSE 0)
                              - (IF width - 1 \in word THEN 2 ^ (width - 2) ELSE 0)
Magnitude(n) == IF n > 0 THEN n ELSE -n

Parsed(o, fields) == IF o.form = "config" THEN fields ELSE o.args

\* nBurst bursts of lenBurst blocks, with gaps in between.
Bursts(w) == [nBurst |-> Field(w, 4, 12), lenBurst |-> Field(w, 16, 16),
              srcStride |-> Field(w, 32, 16), dstStride |-> Field(w, 48, 16)]
Gaps(b) == [nBurst |-> b.nBurst, lenBurst |-> b.lenBurst, srcGap |-> b.srcStride, dstGap |-> b.dstStride]

RecordDmaMovEvent(o) == Parsed(o, Bursts(o.words[1])) @@ o.more
\* The second version shares the record of the first one, whose fields have 16 bits.
RecordDmaMovV2Event(o) ==
    LET xm == o.words[1]  xt == o.words[2]
    IN  [nBurst |-> Field(xm, 4, 16), lenBurst |-> Field(xm, 25, 16), srcStride |-> Field(xt, 0, 16),
         dstStride |-> Field(xt, 40, 16), padMode |-> Field(xm, 56, 4), byteMode |-> FALSE]
RecordDmaMovConvReluEvent(o) == Parsed(o, Bursts(o.words[1])) @@ o.more
RecordDmaMovL1OrUbEvent(o) == Gaps(Bursts(o.words[1]))
RecordDmaMovUB2UBEvent(o) == [Gaps(Bursts(o.words[1])) EXCEPT !.nBurst = Field(o.words[1], 0, 16)]
RecordDmaMovL1BtEvent(o) == Gaps(Bursts(o.words[1])) @@ [cvtEnable |-> 3 \in o.words[1]]
\* The destination of the fix pipe's buffer is a word as well.
RecordDmaMovL1FbEvent(o) == Bursts(o.words[1]) @@ [dst |-> o.dst % 65536, dstMemBlock |-> (o.dst \div 65536) % 16]
RecordMovBtEvent(o) == Parsed(o, Gaps(Bursts(o.words[1])) @@ [convControl |-> 3 \in o.words[1]])

\* Matrices from rows (or columns) to fractals.
RecordDmaMovNd2nzEvent(o) ==
    LET xm == o.words[1]  xt == o.words[2]
    IN  Parsed(o, [ndNum |-> Field(xm, 4, 12), nValue |-> Field(xm, 16, 16), dValue |-> Field(xm, 32, 16),
                   srcNdMatrixStride |-> Field(xm, 48, 16), srcDValue |-> Field(xt, 0, 16),
                   dstNzC0Stride |-> Field(xt, 16, 16), dstNzNStride |-> Field(xt, 32, 16),
                   dstNzMatrixStride |-> Field(xt, 48, 16)])
DumpDmaMovNd2nzDavRecord(o, spr) ==
    LET xm == o.words[1]  xt == o.words[2]  para == spr["sprMte2NzPara"]
    IN  [loop1SrcStride |-> Field(xm, 4, 40), nValue |-> Field(xm, 48, 16), dValue |-> Field(xt, 0, 21),
         loop4SrcStride |-> Field(xt, 21, 40), smallC0 |-> 61 \in xt, ndNum |-> Field(para, 0, 16),
         loop2DstStride |-> Field(para, 16, 16), loop3DstStride |-> Field(para, 32, 16),
         loop4DstStride |-> Field(para, 48, 16)]

-----------------------------------------------------------------------------
(***************************************************************************)
(* Bursts of bytes, with padding and loops around them.                    *)
(***************************************************************************)
RecordMovAlignEvent(o) ==
    LET config == o.words[1]  gap == o.words[2]
    IN  Parsed(o, [nBurst |-> Field(config, 4, 12), lenBurst |-> Field(config, 16, 21),
                   leftPaddingNum |-> Field(config, 48, 6), rightPaddingNum |-> Field(config, 54, 6),
                   srcGap |-> Field(gap, 0, 32), dstGap |-> Field(gap, 32, 32)])

\* The loop registers of a direction.
LoopRegisters(dst) ==
    CASE dst = "GM" -> [size |-> "sprLoopSizeUb2Out", loop1 |-> "sprLoop1StrideUb2Out", loop2 |-> "sprLoop2StrideUb2Out"]
      [] dst = "UB" -> [size |-> "sprLoopSizeOut2Ub", loop1 |-> "sprLoop1StrideOut2Ub", loop2 |-> "sprLoop2StrideOut2Ub"]
      [] OTHER      -> [size |-> "sprLoopSizeOut2L1", loop1 |-> "sprLoop1StrideOut2L1", loop2 |-> "sprLoop2StrideOut2L1"]
\* A stride word holds the stride in global memory, then the local one.
RecordMovAlignEventV2Stride(o, spr) ==
    LET toGm == o.row.dst = "GM"
        regs == LoopRegisters(o.row.dst)
        Src(w) == IF toGm THEN Field(w, 40, 21) ELSE Field(w, 0, 40)
        Dst(w) == IF toGm THEN Field(w, 0, 40) ELSE Field(w, 40, 21)
    IN  [srcStride |-> Src(o.words[2]), dstStride |-> Dst(o.words[2]),
         loop1SrcStride |-> Src(spr[regs.loop1]), loop1DstStride |-> Dst(spr[regs.loop1]),
         loop2SrcStride |-> Src(spr[regs.loop2]), loop2DstStride |-> Dst(spr[regs.loop2]),
         leftPaddingNum |-> IF toGm THEN 0 ELSE Field(o.words[1], 46, 6),
         rightPaddingNum |-> IF toGm THEN 0 ELSE Field(o.words[1], 52, 6)]
RecordMovAlignEventV2(o, spr) ==
    LET size == spr[LoopRegisters(o.row.dst).size]
    IN  [nBurst |-> Field(o.words[1], 4, 21), lenBurst |-> Field(o.words[1], 25, 21),
         loop1Size |-> Field(size, 0, 21), loop2Size |-> Field(size, 21, 22)] @@ RecordMovAlignEventV2Stride(o, spr)

\* Five nested loops, the innermost first.
RecordNdDMAOut2Ub(o, spr) ==
    LET config0 == o.words[1]  config1 == o.words[2]
        pads == spr["sprPadCntNdDma"]
        strides == <<spr["sprLoop0StrideNdDma"], spr["sprLoop1StrideNdDma"], spr["sprLoop2StrideNdDma"],
                     spr["sprLoop3StrideNdDma"], spr["sprLoop4StrideNdDma"]>>
        size == <<Field(config0, 4, 20), Field(config0, 24, 20), Field(config0, 44, 20),
                  Field(config1, 0, 20), Field(config1, 20, 20)>>
    IN  [loop |-> [i \in 1 .. 5 |->
           [size |-> size[i], src |-> Field(strides[i], 20, 40), dst |-> Field(strides[i], 0, 20),
            lp |-> IF i = 1 THEN Field(config1, 40, 8) ELSE Field(pads, 16 * (i - 2), 8),
            rp |-> IF i = 1 THEN Field(config1, 48, 8) ELSE Field(pads, 16 * (i - 2) + 8, 8)]]]

-----------------------------------------------------------------------------
(***************************************************************************)
(* Loads of fractals.                                                      *)
(***************************************************************************)
\* In the configuration word the destination stride is a gap; as an argument
\* it is taken as it is, and where it is missing it is 0.
Load2DByConfig(o) ==
    [baseIdx |-> Field(o.words[1], 0, 16), repeat |-> Field(o.words[1], 16, 8),
     srcStride |-> Field(o.words[1], 24, 16), dstStride |-> Field(o.words[1], 44, 16) + 1,
     blockSize |-> 512] @@ o.more
Load2DByArgs(o) ==
    (IF o.form = "noStride" THEN [o.args EXCEPT !.dstStride = 0] ELSE o.args)
      @@ [blockSize |-> 512] @@ o.more
RecordLoad2DEvent(o) == IF o.form = "config" THEN Load2DByConfig(o) ELSE Load2DByArgs(o)
RecordLoad2DV2Event(o, spr) ==
    LET srcStride == Signed(spr["sprMTE2SrcPara"], 32)
        stride == Magnitude(srcStride) % 65536
        config0 == o.words[1]  config1 == o.words[2]
    IN  [baseIdx |-> Field(config0, 32, 32) * stride + Field(config0, 0, 32), repeat |-> Field(config1, 24, 12),
         srcStride |-> stride, dstStride |-> Field(config1, 0, 12), blockSize |-> 512 * Field(config1, 12, 12),
         addrCalMode |-> IF srcStride > 0 THEN "INC" ELSE "DEC"]
RecordLoadL12DV2Event(o) ==
    LET config0 == o.words[1]  config1 == o.words[2]
    IN  [mStart |-> Field(config0, 0, 16), kStart |-> Field(config0, 16, 16), mStep |-> Field(config0, 32, 8),
         kStep |-> Field(config0, 40, 8), srcStride |-> Signed(config1, 16), dstStride |-> Field(config1, 16, 16)] @@ o.more
RecordLoadL1Mx2DV2Event(o) ==
    LET config0 == o.words[1]  config1 == o.words[2]
    IN  [xStart |-> Field(config0, 0, 16), yStart |-> Field(config0, 16, 16), xStep |-> Field(config0, 32, 8),
         yStep |-> Field(config0, 40, 8), srcStride |-> Field(config1, 0, 16), dstStride |-> Field(config1, 16, 16)]
\* The fractals of a repeat are one after the other for 16 bits.
RecordLoadL12DTransposeEvent(o) ==
    LET config0 == o.words[1]  config1 == o.words[2]
    IN  [repeat |-> Field(config0, 16, 8), srcStride |-> Field(config0, 24, 16), dstStride |-> Field(config0, 44, 16) + 1,
         dstFracStride |-> IF o.row.type = "B16" THEN 1 ELSE Field(config1, 0, 16) + 1,
         srcFracStride |-> IF o.row.type = "B16" THEN 1 ELSE Field(config1, 16, 16) + 1]
\* The source register holds the addresses of the data and of the index, here in more.
RecordLoad2DSparseEvent(o) ==
    Parsed(o, [startId |-> Field(o.words[1], 0, 16), repeat |-> Field(o.words[1], 16, 8)]) @@ o.more
RecordLoad2DTransposeEvent(o) ==
    LET config == o.words[1]
    IN  Parsed(o, [indexId |-> Field(config, 0, 16), repeat |-> Field(config, 16, 8), srcStride |-> Field(config, 24, 16),
                   dstStride |-> Field(config, 44, 16), addrMode |-> 63 \in config,
                   dstFracStride |-> Field(o.words[2], 0, 16)])
RecordLoadB2Event(o) == Parsed(o, [repeat |-> Field(o.words[1], 16, 8)])
RecordLoadAWinograd(o) ==
    LET config0 == o.words[1]  config1 == o.words[2]
    IN  Parsed(o, [fmSizeW |-> Field(config0, 0, 16), fmSizeH |-> Field(config0, 16, 16), fmSizeCh |-> Field(config0, 32, 12),
                   innerDstGap |-> Field(config0, 48, 6), extStepK |-> Field(config1, 8, 12),
                   dstStartPointK |-> Field(config1, 20, 12), extStepM |-> Field(config1, 32, 16),
                   dstStartPointM |-> Field(config1, 48, 12)])
RecordLoadBWinograd(o) ==
    LET config == o.words[1]
    IN  Parsed(o, [innerDstStride |-> Field(config, 8, 8), srcRptStride |-> Field(config, 16, 16),
                   dstRptStride |-> Field(config, 32, 8), repeat |-> Field(config, 56, 8)])

ParseLoad3DFMap2Config(fmatrix, config1) ==
    [fMapW |-> Field(fmatrix, 0, 16), fMapH |-> Field(fmatrix, 16, 16), fMapC |-> Field(config1, 48, 16),
     leftPad |-> Field(fmatrix, 32, 8), rightPad |-> Field(fmatrix, 40, 8), topPad |-> Field(fmatrix, 48, 8),
     bottomPad |-> Field(fmatrix, 56, 8),
     filterW |-> 256 * Field(config1, 44, 1) + Field(config1, 12, 8),
     filterH |-> 256 * Field(config1, 45, 1) + Field(config1, 20, 8),
     wStride |-> Field(config1, 0, 6), hStride |-> Field(config1, 6, 6),
     wDilation |-> Field(config1, 28, 8), hDilation |-> Field(config1, 36, 8)]
MatrixWindow(config0) ==
    [kStep |-> Field(config0, 0, 16), mStep |-> Field(config0, 16, 16), kPos |-> Field(config0, 32, 16),
     mPos |-> Field(config0, 48, 16)]
ParseLoad3DMatrix2Config(config0, rpt) ==
    MatrixWindow(config0) @@
    (IF rpt = {} THEN [rptMode |-> 0, rptStride |-> 0, rptTimes |-> 1]
     ELSE [rptMode |-> Field(rpt, 24, 1), rptStride |-> Field(rpt, 0, 16), rptTimes |-> Field(rpt, 16, 8)])
RecordLoad3DEvent(o, spr) ==
    LET mode == Field(o.words[2], 47, 1)
    IN  [matrixMode |-> mode]
          @@ ParseLoad3DFMap2Config(spr[IF mode = 0 THEN "fmatrix" ELSE "fmatrixB"], o.words[2])
          @@ ParseLoad3DMatrix2Config(o.words[1], spr["l3dRpt"])
ParseLoad3DV2FMap2Config(fmatrix, config1) ==
    ParseLoad3DFMap2Config(fmatrix, config1) @@ [transposeMode |-> 46 \in config1]
ParseLoad3DV2Matrix2Config(config0, rpt) ==
    MatrixWindow(config0)
      @@ [rptMode |-> Field(rpt, 24, 1), rptStride |-> Field(rpt, 0, 16), rptTimes |-> Field(rpt, 16, 8),
          dstStride |-> Field(rpt, 32, 8), outputMPos |-> Field(rpt, 48, 8)]
RecordLoad3DV2Event(o, spr) ==
    LET mode == Field(o.words[2], 47, 1)
    IN  [matrixMode |-> mode]
          @@ ParseLoad3DV2FMap2Config(spr[IF mode = 0 THEN "sprFmatrix" ELSE "sprFmatrixB"], o.words[2])
          @@ ParseLoad3DV2Matrix2Config(o.words[1], spr[IF mode = 0 THEN "sprL3dRpt" ELSE "sprL3dRptB"])

-----------------------------------------------------------------------------
(***************************************************************************)
(* Instructions with one operand in memory.                                *)
(***************************************************************************)
RecordSet2DEvent(o) ==
    [repeat |-> Field(o.words[1], 0, 15), dstBlockNum |-> Field(o.words[1], 16, 15),
     repeatGap |-> Field(o.words[1], 32, 15), dstBlockSize |-> IF o.row.dst = "L1" THEN 32 ELSE 512]
RecordM200Set2DEvent(o) ==
    [repeat |-> 1, dstBlockNum |-> 1, repeatGap |-> 0, dstBlockSize |-> 512 * Field(o.words[1], 0, 8)]
RecordSetL12DEvent(o) ==
    [repeat |-> Field(o.words[1], 0, 15), dstBlockNum |-> Field(o.words[1], 16, 15), repeatGap |-> Field(o.words[1], 32, 15)]
\* The horizontal size keeps 8 of its 13 bits when it comes from the word.
RecordLoadImageEvent(o) ==
    LET xs == o.words[1]  xt == o.words[2]
    IN  Parsed(o, [horSize |-> Field(xs, 0, 8), verSize |-> Field(xs, 16, 13), topPadSize |-> Field(xt, 16, 8),
                   botPadSize |-> Field(xt, 24, 8), lPadSize |-> Field(xt, 32, 13), rPadSize |-> Field(xt, 45, 13)])
RecordLoadSmaskEvent(o) ==
    [smaskSize |-> ((128 * Field(o.words[1], 11, 1) + Field(o.words[1], 0, 7) + 15) \div 16) * 32]
RecordDecompressHeaderEvent(o) == Parsed(o, [nBlock |-> Field(o.words[1], 0, 10)])
RecordBroadcastEvent(o) ==
    LET config == o.words[1]
    IN  Parsed(o, [nBurst |-> Field(config, 0, 8), lenBurst |-> Field(config, 8, 8), srcGap |-> Field(config, 16, 8),
                   dstGap |-> Field(config, 24, 8), enableRepeat |-> 63 \in config])
RecordDcPreloadEvent(o) == o.args

-----------------------------------------------------------------------------
(***************************************************************************)
(* Out of the matrix unit, with quantisation on the way.                   *)
(***************************************************************************)
IsMovFpQuantToB16(quantPre, isC310) ==
    quantPre \in IF isC310 THEN {1, 10, 11, 16, 31, 32, 33, 34} ELSE {1, 6, 10, 11, 12, 13, 16}
IsMovFpQuantToB8(quantPre, isC310) ==
    quantPre \in IF isC310 THEN {2, 3, 4, 5, 8, 9, 12, 13, 23, 24} ELSE {8, 9, 23, 24}
IsMovFpQuantToB4(quantPre) == quantPre \in {21, 22, 25, 26}
ParseMovFpQuantBits(quantPre, enNDorDN, isC310) ==
    LET bits == IF IsMovFpQuantToB16(quantPre, isC310) THEN 16
                ELSE IF IsMovFpQuantToB8(quantPre, isC310) THEN 8
                ELSE IF IsMovFpQuantToB4(quantPre) THEN 4 ELSE 32
    IN  [quantPreBits |-> bits, int8ChannelMerge |-> bits = 8 /\ ~enNDorDN, int4ChannelMerge |-> bits = 4 /\ ~enNDorDN]

\* Unit flag modes 2 and 3 enable the unit flag.
RecordMovFpEvent(o, spr) ==
    LET xm == o.words[1]  xt == o.words[2]
        a == Parsed(o, [nSize |-> Field(xm, 4, 12), mSize |-> Field(xm, 16, 16), dstStride |-> Field(xm, 32, 32),
                        srcStride |-> Field(xt, 0, 16), unitFlag |-> Field(xt, 32, 2), quantPre |-> Field(xt, 34, 5),
                        channelSplit |-> 42 \in xt, enNZ2ND |-> 43 \in xt])
        nd == spr["ndParaConfig"]
    IN  [isC310 |-> FALSE, nSize |-> a.nSize, mSize |-> a.mSize, dstStride |-> a.dstStride, srcStride |-> a.srcStride,
         enUnitFlag |-> a.unitFlag > 1, enNZ2ND |-> a.enNZ2ND, enNZ2DN |-> FALSE,
         channelSplit |-> o.row.type = "F32" /\ a.channelSplit /\ ~a.enNZ2ND,
         ndNum |-> Field(nd, 0, 16), srcNdStride |-> Field(nd, 16, 16), dstNdStride |-> Field(nd, 32, 16),
         dualDstMode |-> 0, subVecBlockId |-> 0, srcNzC0Stride |-> 0]
          @@ ParseMovFpQuantBits(a.quantPre, a.enNZ2ND, FALSE)
\* RecordFixL0CToL1Event also follows the register of the leaky relu, which no move reads.
RecordMovFpV2Event(o, spr) ==
    LET xm == o.words[1]  xt == o.words[2]
        nd == 43 \in xt  dn == 62 \in xt
        c0Stride == Field(spr["sprChannelPara"], 48, 16)
        loop3 == spr["sprLoop3Para"]
    IN  [isC310 |-> TRUE, nSize |-> Field(xm, 4, 12), mSize |-> Field(xm, 16, 16), dstStride |-> Field(xm, 32, 32),
         srcStride |-> Field(xt, 0, 16), enUnitFlag |-> Field(xt, 32, 2) > 1 /\ (dn => c0Stride = 1),
         enNZ2ND |-> nd, enNZ2DN |-> dn, channelSplit |-> o.row.type = "F32" /\ 42 \in xt /\ ~(nd \/ dn),
         ndNum |-> Field(loop3, 0, 16), srcNdStride |-> Field(loop3, 16, 16), dstNdStride |-> Field(loop3, 32, 32),
         dualDstMode |-> Field(xt, 16, 2), subVecBlockId |-> Field(xt, 18, 1),
         srcNzC0Stride |-> IF dn THEN c0Stride ELSE 0]
          @@ ParseMovFpQuantBits(32 * Field(xt, 29, 1) + Field(xt, 34, 5), nd \/ dn, TRUE)

-----------------------------------------------------------------------------
\* The type of the record and its fields.
MoveFields(o, spr) ==
    LET F == o.row.func
        As(type, fields) == [type |-> type] @@ fields
    IN  CASE F = "RecordDmaMovEvent" -> As("DMA_MOV", RecordDmaMovEvent(o))
          [] F = "RecordDmaMovV2Event" -> As("DMA_MOV", RecordDmaMovV2Event(o))
          [] F = "RecordDmaMovConvReluEvent" -> As("DMA_MOV_CONV_RELU", RecordDmaMovConvReluEvent(o))
          [] F = "RecordDmaMovDepthWise" -> As("DMA_MOV_DEPTH_WISE", RecordDmaMovConvReluEvent(o))
          [] F = "RecordDmaMovL2UBEvent" -> As("MOV_L1_TO_UB", RecordDmaMovL1OrUbEvent(o))
          [] F = "RecordDmaMovUB2L1Event" -> As("MOV_UB_TO_L1", RecordDmaMovL1OrUbEvent(o))
          [] F = "RecordDmaMovUB2UBEvent" -> As("MOV_UB_TO_UB", RecordDmaMovUB2UBEvent(o))
          [] F = "RecordDmaMovL1BtEvent" -> As("MOV_CBUF_TO_BT", RecordDmaMovL1BtEvent(o))
          [] F = "RecordDmaMovL1FbEvent" -> As("MOV_CBUF_TO_FB", RecordDmaMovL1FbEvent(o))
          [] F = "RecordMovBtEvent" -> As("MOV_BT", RecordMovBtEvent(o))
          [] F = "RecordDmaMovNd2nzEvent" -> As("DMA_MOV_ND2NZ", RecordDmaMovNd2nzEvent(o))
          [] F = "RecordDmaMovNd2nzEventDav" -> As("DMA_MOV_ND2NZ_D", DumpDmaMovNd2nzDavRecord(o, spr))
          [] F = "RecordDmaMovDn2nzEventDav" -> As("DMA_MOV_DN2NZ_D", DumpDmaMovNd2nzDavRecord(o, spr))
          [] F = "RecordMovAlignEvent" -> As("MOV_ALIGN", RecordMovAlignEvent(o))
          [] F = "RecordMovAlignEventV2" -> As("MOV_ALIGN_V2", RecordMovAlignEventV2(o, spr))
          [] F = "RecordNdDMAOut2Ub" -> As("ND_DMA_OUT_TO_UB", RecordNdDMAOut2Ub(o, spr))
          [] F = "RecordLoad2DEvent" -> As("LOAD_2D", RecordLoad2DEvent(o))
          [] F = "RecordLoad2DV2Event" -> As("LOAD_2D", RecordLoad2DV2Event(o, spr))
          [] F = "RecordLoadL12DV2Event" -> As("LOAD_L1_2D", RecordLoadL12DV2Event(o))
          [] F = "RecordLoadL1Mx2DV2Event" -> As("LOAD_L1_MX_2D", RecordLoadL1Mx2DV2Event(o))
          [] F = "RecordLoadL12DTransposeEvent" -> As("LOAD_L1_2D_TRANSPOSE", RecordLoadL12DTransposeEvent(o))
          [] F = "RecordLoad2DSparseEvent" -> As("LOAD_2D_SPARSE", RecordLoad2DSparseEvent(o))
          [] F = "RecordLoad2DTransposeEvent" -> As("LOAD_2D_TRANSPOSE", RecordLoad2DTransposeEvent(o))
          [] F = "RecordLoadB2Event" -> As("LOAD_B2", RecordLoadB2Event(o))
          [] F = "RecordLoadAWinograd" -> As("LOAD_A_WINOGRAD", RecordLoadAWinograd(o))
          [] F = "RecordLoadBWinograd" -> As("LOAD_B_WINOGRAD", RecordLoadBWinograd(o))
          [] F = "RecordLoad3DEvent" -> As("LOAD_3D", RecordLoad3DEvent(o, spr))
          [] F = "RecordLoad3DV2Event" -> As("LOAD_3D_V2", RecordLoad3DV2Event(o, spr))
          [] F = "RecordSet2DEvent" -> As("SET_2D", RecordSet2DEvent(o))
          [] F = "RecordM200Set2DEvent" -> As("SET_2D", RecordM200Set2DEvent(o))
          [] F = "RecordSetL12DEvent" -> As("SET_L1_2D", RecordSetL12DEvent(o))
          [] F = "RecordLoadImageEvent" -> As("LOAD_IMAGE", RecordLoadImageEvent(o))
          [] F = "RecordLoadSmaskEvent" -> As("LOAD_SMASK", RecordLoadSmaskEvent(o))
          [] F = "RecordDecompressHeaderEvent" -> As("DECOMPRESS_HEADER", RecordDecompressHeaderEvent(o))
          [] F = "RecordBroadcastEvent" -> As("BROADCAST", RecordBroadcastEvent(o))
          [] F = "RecordDcPreloadEvent" -> As("DC_PRELOAD", RecordDcPreloadEvent(o))
          [] F = "RecordMovFpEvent" -> As("MOV_FP", RecordMovFpEvent(o, spr))
          [] F = "RecordMovFpV2Event" -> As("MOV_FP", RecordMovFpV2Event(o, spr))
          [] F = "RecordFixL0CToL1Event" -> As("FIX_L0C_TO_L1", RecordMovFpV2Event(o, spr))
          [] F = "RecordFixL0CToUBEvent" -> As("FIX_L0C_TO_UB", RecordMovFpV2Event(o, spr))
RecordMove(o, spr) ==
    MoveFields(o, spr) @@ [src |-> o.src, dst |-> o.dst, srcMem |-> o.row.src, dstMem |-> o.row.dst,
                           dataType |-> o.row.type]
=============================================================================
