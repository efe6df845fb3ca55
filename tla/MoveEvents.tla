----------------------------- MODULE MoveEvents -----------------------------
(***************************************************************************)
(* The memory events of the records of instructions that move data         *)
(* (core/framework/record_parse.cpp, record_parse_move.cpp).  No mask      *)
(* applies to them.  The checks of the operands' alignment, which report   *)
(* on their own and change no event, are left out.                         *)
(***************************************************************************)
EXTENDS Integers, Sequences, RecordParse, RecordMove

CeilDiv(n, d) == (n + d - 1) \div d
CeilByAlignSize(n, size) == CeilDiv(n, size) * size

\* num blocks of size bytes, bs blocks apart, the whole repeat times, rs blocks apart.
Read(r, addr, num, size, bs, repeat, rs) == MemEvent("READ", r.srcMem, Operand(addr, 8, num, size, bs, rs), repeat)
Write(r, addr, num, size, bs, repeat, rs) == MemEvent("WRITE", r.dstMem, Operand(addr, 8, num, size, bs, rs), repeat)

\* The events of a nest of loops, the outer one first.
Loop(n, Body(_)) == FlattenSeq([i \in 1 .. n |-> Body(i - 1)])

\* The pipe that moves data between two memories, for the pairs that have one.
HasPipe(r) ==
    <<r.srcMem, r.dstMem>> \in ({"L1"} \X {"L0A", "L0B", "L0C", "UB", "BT", "GM", "FB"})
        \cup ({"GM"} \X {"L0A", "L0B", "L1", "UB"}) \cup ({"UB"} \X {"GM", "L1", "L0C", "UB"})
        \cup ({"L0C"} \X {"UB", "L1"})
GetDataSizeByType(type) == CASE type = "B8" -> 1 [] type = "B16" -> 2 [] type = "B32" -> 4 [] OTHER -> 1
GetDataBitSizeByType(type) == IF type = "B4" THEN 4 ELSE 8 * GetDataSizeByType(type)

-----------------------------------------------------------------------------
(***************************************************************************)
(* Copies in bursts.                                                       *)
(***************************************************************************)
GetPadModeScaleValue(padMode) == IF padMode \in 1 .. 8 THEN <<32, 16, 8, 4, 2, 8, 4, 2>>[padMode] ELSE 1

ParseDmaMovWithByteMode(r) ==
    LET read == CeilByAlignSize(r.lenBurst, 32)
    IN  <<Read(r, r.src, read, 1, 1, r.nBurst, read + r.srcStride * 32),
          Write(r, r.dst, r.lenBurst, 1, 1, r.nBurst, r.lenBurst + r.dstStride * 32)>>
\* Modes 1 to 5 widen the data, modes 6 to 8 narrow it.
ParseDmaMovWithPadMode(r) ==
    LET packed == (r.nBurst * 32) \div GetPadModeScaleValue(r.padMode)
    IN  CASE r.padMode \in 1 .. 5 ->
               <<Read(r, r.src, 1, packed, 1, 1, 0), Write(r, r.dst, 1, 32, 1, r.nBurst, 1 + r.dstStride)>>
          [] r.padMode \in 6 .. 8 ->
               <<Read(r, r.src, 1, 32, 1, r.nBurst, 1 + r.srcStride), Write(r, r.dst, 1, packed, 1, 1, 0)>>
          [] OTHER -> <<>>
ParseRecordDmaMov_gap(r) ==
    CASE ~HasPipe(r) -> <<>>
      [] HasPipe(r) /\ r.byteMode -> ParseDmaMovWithByteMode(r)
      [] HasPipe(r) /\ ~r.byteMode /\ r.padMode # 0 -> ParseDmaMovWithPadMode(r)
      [] OTHER -> <<Read(r, r.src, r.lenBurst, 32, 1, r.nBurst, r.lenBurst + r.srcStride),
                    Write(r, r.dst, r.lenBurst, 32, 1, r.nBurst, r.dstStride)>>
ParseRecordDmaMov(r) ==
    CASE ~HasPipe(r) -> <<>>
      [] HasPipe(r) /\ r.byteMode -> ParseDmaMovWithByteMode(r)
      [] HasPipe(r) /\ ~r.byteMode /\ r.padMode # 0 -> ParseDmaMovWithPadMode(r)
      [] OTHER -> <<Read(r, r.src, r.lenBurst, 32, 1, r.nBurst, r.lenBurst + r.srcStride),
                    Write(r, r.dst, r.lenBurst, 32, 1, r.nBurst, r.lenBurst + r.dstStride)>>

\* What the conversion on the way out of the matrix unit does to the width.
Keeps == {"NONE", "NONE_RELU"}
IsSupportFor16(r) == r.crMode \in Keeps \cup {"F16_MUL"}
IsSupportFor32(r) ==
    CASE r.crMode \in Keeps -> 32
      [] r.crMode \in {"F32toF16_NONE", "F32toF16_RELU", "S32toF16_NONE", "S32toF16_DEQSCALE_SPR", "DEQSCALE_VDEQ16",
                       "DEQSCALE_DEQ16", "DEQSCALE_VDEQS16", "DEQSCALE_DEQS16"} -> 16
      [] r.crMode \in {"DEQSCALE_VDEQ8", "DEQSCALE_DEQ8"} -> 8
      [] OTHER -> 0
\* A conversion that is not known leaves the write with the layout of the read.
SetMemInfoWriteForUb(r, read) ==
    LET write == [read EXCEPT !.opType = "WRITE", !.memType = r.dstMem, !.addr = r.dst]
        Laid(num, size, stride) == [write EXCEPT !.blockNum = num, !.blockSize = size, !.repeatStride = stride]
    IN  IF r.dataType[1] = "B16"
        THEN IF IsSupportFor16(r) THEN [write EXCEPT !.repeatStride = r.lenBurst + r.dstStride] ELSE write
        ELSE CASE IsSupportFor32(r) = 32 -> Laid(2 * r.lenBurst, 32, 2 * r.lenBurst + r.dstStride)
               [] IsSupportFor32(r) = 16 -> Laid(r.lenBurst, 32, r.lenBurst + r.dstStride)
               [] IsSupportFor32(r) = 8  -> Laid(r.lenBurst, 16, r.lenBurst + (r.dstStride * 48) \div 16)
               [] OTHER -> write
ParseRecordDmaMovConvRelu(r) ==
    LET size == IF r.dataType[1] = "B32" THEN 64 ELSE 32
        read == Read(r, r.src, r.lenBurst, size, 1, r.nBurst, r.lenBurst + r.srcStride * 16)
    IN  IF ~HasPipe(r) THEN <<>> ELSE <<read, SetMemInfoWriteForUb(r, read)>>

\* The size of half of the channels, 0 for a conversion that is not known.
ParseRecordDmaMovDepthWiseWrite(r) ==
    CASE r.dataType[1] = "B16" /\ IsSupportFor16(r) -> (r.lenBurst * 512) \div 2
      [] r.dataType[1] = "B32" /\ r.crMode \in Keeps -> (r.lenBurst * 1024) \div 2
      [] r.dataType[1] = "B32" /\ r.crMode \in {"F32toF16_NONE", "F32toF16_RELU"} -> (r.lenBurst * 512) \div 2
      [] OTHER -> 0
ParseRecordDmaMovDepthWise(r) ==
    LET half == ParseRecordDmaMovDepthWiseWrite(r)
        read == Read(r, r.src, r.lenBurst, IF r.dataType[1] = "B32" THEN 1024 ELSE 512, 1, 1, 1)
    IN  CASE r.nBurst # 1 -> <<>>
          [] r.nBurst = 1 /\ half = 0 -> <<read>>
          [] OTHER -> <<read, Write(r, r.dst, 1, half, 1, 1, 1),
                        Write(r, r.dst + half + r.dstStride * 32, 1, half, 1, 1, 1)>>

\* L1 to UB, UB to L1, UB to UB.
AddMemEventForMovL1Ub(r) ==
    IF ~HasPipe(r) \/ r.lenBurst = 0 THEN <<>>
    ELSE <<Read(r, r.src, r.lenBurst, 32, 1, r.nBurst, r.lenBurst + r.srcGap),
           Write(r, r.dst, r.lenBurst, 32, 1, r.nBurst, r.lenBurst + r.dstGap)>>
CheckMovCbuf2BtParam(r) ==
    /\ r.dataType \in {"FLOAT", "S32"} => r.lenBurst % 2 = 0 /\ ~r.cvtEnable
    /\ r.dstGap % 2 = 0
ParseRecordMovCbuf2Bt(r) ==
    LET num == IF r.dataType \in {"F16", "B16"} THEN 2 * r.lenBurst ELSE r.lenBurst
    IN  IF ~CheckMovCbuf2BtParam(r) THEN <<>>
        ELSE <<Read(r, r.src, r.lenBurst, 32, 1, r.nBurst, r.lenBurst + r.srcGap),
               Write(r, r.dst, num, 32, 1, r.nBurst, num + r.dstGap)>>
CheckMovCbuf2FbParam(r) == r.dstMemBlock < 2 /\ (r.dstMemBlock = 0 => r.lenBurst % 2 = 0 /\ r.dstStride % 2 = 0)
ParseRecordMovCbuf2Fb(r) ==
    IF ~CheckMovCbuf2FbParam(r) THEN <<>>
    ELSE Loop(r.nBurst, LAMBDA i : <<Read(r, r.src + i * 32 * r.srcStride, 1, r.lenBurst * 64, 1, 1, 1)>>)
           \o <<Write(r, r.dst, r.lenBurst, 64, 1, r.nBurst, r.dstStride)>>
ParseRecordMovBt(r) ==
    IF ~HasPipe(r) \/ r.lenBurst = 0 THEN <<>>
    ELSE <<Read(r, r.src, 2 * r.lenBurst, 32, 1, r.nBurst, 2 * r.lenBurst + r.srcGap)>>

-----------------------------------------------------------------------------
(***************************************************************************)
(* Matrices of rows (ND) or columns (DN) into columns of blocks (NZ).      *)
(***************************************************************************)
ParseRecordDmaMovNd2nz(r) ==
    LET bytes == GetDataSizeByType(r.dataType)
    IN  IF ~HasPipe(r) THEN <<>>
        ELSE Loop(r.ndNum, LAMBDA nd : <<Read(r, r.src + r.srcNdMatrixStride * bytes * nd, r.dValue, bytes, 1,
                                              r.nValue, r.srcDValue)>>)
               \o Loop(CeilDiv(r.dValue * bytes, 32),
                       LAMBDA c : <<Write(r, r.dst + 32 * r.dstNzC0Stride * c, r.nValue, 32, r.dstNzNStride, r.ndNum,
                                          (r.dstNzMatrixStride * bytes) \div 32)>>)

SetNdNzDevPubElement(r) ==
    HasPipe(r) /\ r.loop1SrcStride % GetDataSizeByType(r.dataType) = 0 /\ (r.smallC0 => r.dValue <= 4)
NdNzReads(r, srcIsTheNd) ==
    LET bytes == GetDataSizeByType(r.dataType)
    IN  Loop(r.ndNum, LAMBDA h : Loop(IF srcIsTheNd THEN r.nValue ELSE r.dValue,
             LAMBDA i : <<Read(r, r.src + h * r.loop4SrcStride + i * r.loop1SrcStride, 1,
                               (IF srcIsTheNd THEN r.dValue ELSE r.nValue) * bytes, 1, 1, 1)>>))
\* The address of a matrix grows by h strides from that of the one before.
DmaMovNdorDn2nzDavSmallC0(srcIsTheNd, r) ==
    LET size == 4 * GetDataSizeByType(r.dataType)
    IN  NdNzReads(r, srcIsTheNd)
          \o Loop(r.ndNum, LAMBDA h : <<Write(r, r.dst + ((h * (h + 1)) \div 2) * r.loop4DstStride * 32,
                                              CeilByAlignSize(r.nValue, 32 \div size), size, 1, 1, 1)>>)
DmaMovNdorDn2nzDavDefault(srcIsTheNd, r) ==
    NdNzReads(r, srcIsTheNd)
      \o Loop(CeilDiv(r.dValue * GetDataSizeByType(r.dataType), 32),
              LAMBDA i : Loop(r.ndNum,
                LAMBDA h : Loop(r.nValue,
                  LAMBDA k : <<Write(r, r.dst + (i * r.loop3DstStride + h * r.loop4DstStride + k * r.loop2DstStride) * 32,
                                     1, 32, 1, 1, 1)>>)))
ParseRecordDmaMovNd2NzDav(r, srcIsTheNd) ==
    IF ~SetNdNzDevPubElement(r) THEN <<>>
    ELSE IF r.smallC0 THEN DmaMovNdorDn2nzDavSmallC0(srcIsTheNd, r)
    ELSE DmaMovNdorDn2nzDavDefault(srcIsTheNd, r)

-----------------------------------------------------------------------------
(***************************************************************************)
(* Bursts of bytes.  A local memory is written in whole blocks of 32 bytes.*)
(***************************************************************************)
ParseRecordMovAlign(r) ==
    LET padding == (r.leftPaddingNum + r.rightPaddingNum) * GetDataSizeByType(r.dataType)
        read == IF r.srcMem = "GM" THEN r.lenBurst + r.srcGap ELSE CeilByAlignSize(r.lenBurst, 32) + r.srcGap * 32
        local == CeilByAlignSize(r.lenBurst + padding, 32)
    IN  IF ~HasPipe(r) \/ r.lenBurst = 0 THEN <<>>
        ELSE <<Read(r, r.src, r.lenBurst, 1, 1, r.nBurst, read),
               IF r.dstMem = "GM" THEN Write(r, r.dst, r.lenBurst, 1, 1, r.nBurst, r.lenBurst + r.dstGap)
               ELSE Write(r, r.dst, local, 1, 1, r.nBurst, local + r.dstGap * 32)>>

IsCompactModeAble(r) == r.lenBurst = IF r.srcMem = "GM" THEN r.dstStride ELSE r.srcStride
CheckMovAlignV2Event(r) ==
    LET isLoopMode == r.loop1Size > 0 /\ r.loop2Size > 1
        fromGm == r.srcMem = "GM"
        isLRPMode == fromGm /\ (r.rightPaddingNum > 0 \/ r.leftPaddingNum > 0)
        bytes == GetDataSizeByType(r.dataType)
        stride == IF fromGm THEN r.dstStride ELSE r.srcStride
        loopStrides == IF fromGm THEN {r.loop1DstStride, r.loop2DstStride} ELSE {r.loop1SrcStride, r.loop2SrcStride}
    IN  /\ r.lenBurst # 0
        /\ ~(isLoopMode /\ isLRPMode)
        /\ isLRPMode => r.leftPaddingNum * bytes <= 32 /\ r.rightPaddingNum * bytes <= 32
        /\ IsCompactModeAble(r) \/ stride % 32 = 0
        /\ isLoopMode => \A s \in loopStrides : s % 32 = 0
\* The read and the write of one iteration of the loops.
SetDumpParam(r, padding) ==
    LET compact == CeilByAlignSize((padding + r.lenBurst) * r.nBurst, 32)
    IN  <<Read(r, r.src, r.lenBurst, 1, 1, r.nBurst, r.srcStride),
          CASE r.srcMem # "GM" -> Write(r, r.dst, r.lenBurst, 1, 1, r.nBurst, r.dstStride)
            [] r.srcMem = "GM" /\ IsCompactModeAble(r) -> Write(r, r.dst, compact, 1, 1, 1, 1)
            [] OTHER -> Write(r, r.dst, CeilByAlignSize(padding + r.lenBurst, 32), 1, 1, r.nBurst, r.dstStride)>>
ParseRecordMovAlignV2(r) ==
    LET isLoopMode == r.loop1Size > 1 /\ r.loop2Size > 1
        padding == IF isLoopMode THEN 0 ELSE (r.leftPaddingNum + r.rightPaddingNum) * GetDataSizeByType(r.dataType)
        e == SetDumpParam(r, padding)
        At(k, j) == <<[e[1] EXCEPT !.addr = @ + k * r.loop2SrcStride + j * r.loop1SrcStride],
                      [e[2] EXCEPT !.addr = @ + k * r.loop2DstStride + j * r.loop1DstStride]>>
    IN  CASE ~CheckMovAlignV2Event(r) \/ ~HasPipe(r) -> <<>>
          [] CheckMovAlignV2Event(r) /\ HasPipe(r) /\ ~isLoopMode -> e
          [] OTHER -> Loop(r.loop2Size, LAMBDA k : Loop(r.loop1Size, LAMBDA j : At(k, j)))

\* The bound of 2^40 on the addresses is out of the reach of the fields.
CheckNdDmaMovOut2UbConstraints(r) ==
    LET increasing == \A i \in 2 .. 5 : r.loop[i].dst > r.loop[i - 1].dst
        extent == [i \in 1 .. 5 |-> (r.loop[i].lp + r.loop[i].size + r.loop[i].rp - 1) * r.loop[i].dst]
    IN  increasing => \A i \in 1 .. 5 : r.loop[i].dst >= 1 + MapThenSumSet(LAMBDA j : extent[j], 1 .. i - 1)
\* The offsets that five nested loops visit, in elements.
AppendNdDmaMovOut2UbLoopData(n, stride) ==
    Loop(n[5], LAMBDA e : Loop(n[4], LAMBDA d : Loop(n[3], LAMBDA c : Loop(n[2], LAMBDA b : Loop(n[1],
      LAMBDA a : <<a * stride[1] + b * stride[2] + c * stride[3] + d * stride[4] + e * stride[5]>>)))))
ParseRecordNdDmaMovOut2Ub(r) ==
    LET bytes == GetDataSizeByType(r.dataType)
        Of(Field5(_)) == [i \in 1 .. 5 |-> Field5(r.loop[i])]
        reads == AppendNdDmaMovOut2UbLoopData(Of(LAMBDA l : l.size), Of(LAMBDA l : l.src))
        writes == AppendNdDmaMovOut2UbLoopData(Of(LAMBDA l : l.lp + l.size + l.rp), Of(LAMBDA l : l.dst))
    IN  IF ~CheckNdDmaMovOut2UbConstraints(r) THEN <<>>
        ELSE [i \in DOMAIN reads |-> Read(r, r.src + reads[i] * bytes, 1, bytes, 1, 1, 1)]
               \o [i \in DOMAIN writes |-> Write(r, r.dst + writes[i] * bytes, 1, bytes, 1, 1, 1)]
=============================================================================
