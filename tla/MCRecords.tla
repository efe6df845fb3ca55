----------------------------- MODULE MCRecords -----------------------------
(***************************************************************************)
(* Kernels of a few instructions.  "byMask" and "byCount" call every       *)
(* instruction of VectorInstrs in both forms under masks and element       *)
(* counts, "copies" to "windows" every move of MoveInstrs; the others      *)
(* combine the special instructions; "full" runs out of room.              *)
(***************************************************************************)
EXTENDS Records

\* The bits of a number as a field of a configuration word.
Bits(value, lo) == {b + lo : b \in {b \in 0 .. 15 : (value \div 2 ^ b) % 2 = 1}}

\* The configuration word for given arguments, as the intrinsics lay it out.
ConfigOf(row, args, arch) ==
    Bits(args.repeat, 56) \cup
    CASE row.layout = "unary" ->
           Bits(args.bs[1], 0) \cup Bits(args.bs[2], 16) \cup Bits(args.rs[1] % 256, 32)
             \cup (IF arch = "C220" THEN Bits(args.rs[1] \div 256, 52) ELSE {}) \cup Bits(args.rs[2], 40)
      [] row.layout = "binary" ->
           Bits(args.bs[1], 0) \cup Bits(args.bs[2], 8) \cup Bits(args.bs[3], 16)
             \cup Bits(args.rs[1], 24) \cup Bits(args.rs[2], 32) \cup Bits(args.rs[3], 40)
      [] row.layout = "reduce" ->
           Bits(args.bs[2], 16) \cup Bits(args.rs[1], 0) \cup Bits(args.rs[2], 32)
      [] row.layout = "dup" ->
           Bits(args.bs[1], 0) \cup Bits(args.rs[1] % 256, 32)
             \cup (IF arch = "C220" THEN Bits(args.rs[1] \div 256, 52) ELSE {})
      [] OTHER -> Bits(args.rs[1], 32) \cup Bits(args.rs[2], 40)

Addrs == <<0, OperandSpace, 2 * OperandSpace>>
Arguments(repeat, bs, rs) == [repeat |-> repeat, bs |-> bs, rs |-> rs]
Plain(repeat) == Arguments(repeat, <<1, 1, 1>>, <<8, 8, 8>>)
Strided == Arguments(2, <<1, 2, 3>>, <<8, 17, 25>>)
Wide == Arguments(2, <<1, 1, 1>>, <<264, 264, 8>>)

VectorOps(rows, arguments, arch) ==
    {[kind |-> "vector", row |-> row, form |-> "args", addrs |-> Addrs, args |-> args, config |-> {}] :
       row \in {r \in rows : "args" \in r.forms}, args \in arguments}
      \cup {[kind |-> "vector", row |-> row, form |-> "config", addrs |-> Addrs, args |-> args,
             config |-> ConfigOf(row, args, arch)] :
              row \in {r \in rows : "config" \in r.forms}, args \in arguments}

Modes == {[kind |-> "set_mask_count"], [kind |-> "set_mask_norm"]}
MaskHalf(half, sets) == {[kind |-> "set_vector_mask", half |-> half, bits |-> b] : b \in sets}
ByMask == <<MaskHalf(0, {{}, {3, 40}, 0 .. 63}), MaskHalf(1, {{}, {6}, 0 .. 63})>>
\* 0, 17, 64 and 130 elements.
ByCount == <<{[kind |-> "set_mask_count"]}, MaskHalf(0, {{}, {0, 4}, {6}, {1, 7}})>>

UnaryRows == Vabs \cup Vadds \cup Vnot \cup Vcopy \cup VconvF322s64 \cup VconvB8 \cup Vector_dup

TableOps == VectorOps(Instructions, {Plain(2), Strided}, "C220")
              \cup VectorOps(UnaryRows, {Wide, Plain(0)}, "C220")

Kernel(arch, blockType, cacheSize, steps) ==
    [arch |-> arch, blockType |-> blockType, cacheSize |-> cacheSize, steps |-> steps]

Cmpmask == {[kind |-> "set_cmpmask", addr |-> 4096], [kind |-> "set_cmpmask", addr |-> 8192],
            [kind |-> "get_cmpmask", addr |-> 4096]}
VcmpOps == VectorOps({CHOOSE r \in vcmp_ge : r.ops[2].bits = 16}, {Plain(1)}, "C220")
VselOps == {[kind |-> "vsel", t |-> t, mode |-> mode, addrs |-> Addrs, args |-> Plain(2)] :
              t \in {"half", "float"}, mode \in {0, 1, 2, 3}}
SqueezeOps ==
    {[kind |-> "vreduce", t |-> t, pattern |-> p, addrs |-> Addrs, args |-> Plain(2)] :
       t \in {"uint16_t", "uint32_t"}, p \in {0, 1, 3, 7}}
      \cup {[kind |-> "vreducev2", t |-> t, addrs |-> Addrs, compare |-> <<{0, 3, 63}, {1}>>,
             config |-> Bits(2, 0) \cup Bits(1, 8) \cup Bits(p, 16) \cup Bits(8, 24) \cup Bits(1, 40)] :
              t \in {"uint16_t", "uint32_t"}, p \in {0, 1, 3, 7}}

Offsets == [n \in 0 .. 511 |-> (n % 7) * 32]
GatherOps ==
    {[kind |-> kind, bits |-> bits, dst |-> 0, src |-> src, offsets |-> Offsets,
      config |-> Bits(1, 56) \cup Bits(8, 32) \cup Bits(1, 40) \cup Bits(2048, 0)] :
       kind \in {"vgather", "vgatherb"}, bits \in {16, 32}, src \in {0, 8192}}

SortOps ==
    {[kind |-> "vmrgsort4", t |-> "half", dst |-> 0, src |-> <<64, 96, 128, 160>>, repeat |-> repeat,
      lists |-> lists, used |-> used, allStored |-> FALSE] :
       repeat \in 0 .. 2, lists \in {<<4, 4, 4, 4>>, <<4, 2, 0, 1>>}, used \in {1 .. 4, 1 .. 2}}
      \cup {[kind |-> kind, t |-> t, dst |-> 0, src |-> OperandSpace,
             config |-> Bits(2, 56) \cup Bits(range, 16)] :
              kind \in {"vextract", "vconcat"}, t \in {"half", "float"}, range \in {0, 5, 6}}
SmallSort == {op \in SortOps : op.kind = "vmrgsort4" /\ op.repeat = 2 /\ op.used = 1 .. 2}
VaOps == {[kind |-> "MOVEVA", va |-> 0, bitOffset |-> b, xn |-> 320, xm |-> 352] : b \in {1, 2}}
           \cup {[kind |-> "ldva", va |-> 1, addr |-> 4096, words |-> [e \in 0 .. 15 |-> 100 + e], h |-> h] : h \in BOOLEAN}
TransposeOps ==
    {[kind |-> "scatter_vnchwconv", dst |-> 0, src |-> src, b8 |-> b8, dstHigh |-> FALSE, srcHigh |-> TRUE,
      config |-> Bits(2, 56) \cup Bits(1, 0) \cup Bits(3, 16)] : src \in {1, 2}, b8 \in BOOLEAN}
Vbs32Ops == {[kind |-> "vbs32A5", t |-> "half", addrs |-> Addrs, config |-> Bits(2, 56)]}
MadOps(kind, widths, ks) ==
    {[kind |-> kind, addrs |-> Addrs, bits |-> bits,
      config |-> Bits(m, 0) \cup Bits(k, 12) \cup Bits(20, 24) \cup flags] :
       bits \in widths, m \in {0, 1, 17}, k \in ks,
       flags \in {{}, {56}, {62}, {58, 63}, {61}}}
Scopes == {[kind |-> "fuse_scope", enter |-> e] : e \in BOOLEAN}

-----------------------------------------------------------------------------
\* Moves.  A word is given as <<value, first bit>> pairs.
Word(fields) == UNION {Bits(fields[i][1], fields[i][2]) : i \in DOMAIN fields}
NoArgs == [none |-> 0]
MoveOp(row, form, src, words, args, more) ==
    [kind |-> "move", row |-> row, form |-> form, dst |-> 2 * OperandSpace, src |-> src, words |-> words,
     args |-> args, more |-> more]
\* One call per row, form and extra argument.
MoveOps(rows, words, args, mores) ==
    UNION {{MoveOp(row, form, OperandSpace, words, args, more) : form \in row.forms, more \in mores} : row \in rows}
Plainly == {NoArgs}
With(rows, func) == {r \in rows : r.func = func}
Mv(rows, func, words) == MoveOps(With(rows, func), words, NoArgs, Plainly)

BurstWord == Word(<<<<2, 4>>, <<4, 16>>, <<1, 32>>, <<2, 48>>>>)
BurstArgs == [nBurst |-> 2, lenBurst |-> 4, srcStride |-> 1, dstStride |-> 2]
CopyOps ==
    MoveOps(With({copy_ubuf_to_cbuf, copy_cbuf_to_ubuf, copy_cbuf_to_gm, copy_gm_to_cbuf, copy_gm_to_ubuf,
                  copy_ubuf_to_gm, copy_ubuf_to_ubuf} \cup DmaMovProbes, "RecordDmaMovEvent"),
            <<BurstWord>>, BurstArgs,
            {[padMode |-> p, byteMode |-> FALSE] : p \in {0, 3, 6}} \cup {[padMode |-> 0, byteMode |-> TRUE]})
      \cup Mv(DmaMovProbes, "RecordDmaMovV2Event", <<Word(<<<<2, 4>>, <<4, 25>>>>), Word(<<<<1, 0>>, <<2, 40>>>>)>>)
      \cup UNION {Mv(DmaMovProbes, f, <<BurstWord>>) : f \in {"RecordDmaMovL2UBEvent", "RecordDmaMovUB2L1Event",
                                                             "RecordDmaMovL1BtEvent"}}
      \cup Mv(DmaMovProbes, "RecordDmaMovUB2UBEvent", <<Word(<<<<2, 0>>, <<4, 16>>, <<1, 32>>>>)>>)
      \cup Mv(DmaMovProbes, "RecordDmaMovL1FbEvent", <<Word(<<<<2, 4>>, <<2, 16>>, <<5, 32>>, <<4, 48>>>>)>>)
      \cup MoveOps({copy_cbuf_to_bt}, <<BurstWord>>, Gaps(BurstArgs) @@ [convControl |-> FALSE], Plainly)
ConvOps ==
    MoveOps(copy_vector_cc_to_ubuf, <<BurstWord>>, BurstArgs,
            {[crMode |-> m] : m \in {"NONE", "F16_MUL", "F32toF16_NONE", "DEQSCALE_VDEQ8", "other"}})
      \cup MoveOps(copy_depthwise_cc_to_ubuf, <<Word(<<<<1, 4>>, <<2, 16>>, <<1, 48>>>>)>>,
                   [nBurst |-> 1, lenBurst |-> 2, srcStride |-> 0, dstStride |-> 1],
                   {[crMode |-> m] : m \in {"NONE", "F32toF16_RELU", "other"}})
      \cup MoveOps(broadcast_ub_to_cc, <<Word(<<<<2, 0>>, <<3, 8>>, <<1, 16>>, <<1, 24>>>>) \cup {63}>>,
                   [nBurst |-> 2, lenBurst |-> 3, srcGap |-> 1, dstGap |-> 1, enableRepeat |-> FALSE], Plainly)
\* Two matrices of 3 rows of 64 elements.
Nd2nzOps ==
    MoveOps({copy_gm_to_cbuf_multi_nd2nz_b16, copy_gm_to_cbuf_multi_nd2nz_b32s, copy_gm_to_cbuf_multi_nd2nz_b8},
            <<Word(<<<<2, 4>>, <<3, 16>>, <<64, 32>>, <<256, 48>>>>), Word(<<<<70, 0>>, <<6, 16>>, <<1, 32>>, <<2048, 48>>>>)>>,
            [ndNum |-> 2, nValue |-> 3, dValue |-> 64, srcNdMatrixStride |-> 256, srcDValue |-> 70,
             dstNzC0Stride |-> 6, dstNzNStride |-> 1, dstNzMatrixStride |-> 2048], Plainly)
      \cup UNION {Mv(DmaMovProbes, f, <<Word(<<<<300, 4>>, <<n, 48>>>>), Word(<<<<d, 0>>, <<4096, 21>>>>) \cup c0>>) :
                    f \in {"RecordDmaMovNd2nzEventDav"}, n \in {8}, <<d, c0>> \in {<<64, {}>>, <<4, {61}>>, <<5, {61}>>}}
      \cup Mv(DmaMovProbes, "RecordDmaMovDn2nzEventDav", <<Word(<<<<300, 4>>, <<4, 48>>>>), Word(<<<<32, 0>>, <<16384, 21>>>>)>>)
AlignOps ==
    MoveOps(copy_gm_to_ubuf_align \cup copy_ubuf_to_gm_align,
            <<Word(<<<<2, 4>>, <<64, 16>>>>), Word(<<<<3, 0>>, <<1, 32>>>>)>>,
            [nBurst |-> 2, lenBurst |-> 64, leftPaddingNum |-> 0, rightPaddingNum |-> 0, srcGap |-> 3, dstGap |-> 1], Plainly)
      \cup UNION {Mv(MovAlignProbes, "RecordMovAlignEventV2",
                     <<Word(<<<<2, 4>>, <<len, 25>>>>), Word(<<<<96, 0>>, <<stride, 40>>>>)>>) :
                    len \in {0, 64}, stride \in {64, 96, 100}}
NdDmaOps ==
    Mv(DmaMovProbes, "RecordNdDMAOut2Ub",
       <<Word(<<<<3, 4>>, <<2, 24>>, <<2, 44>>>>), Word(<<<<1, 0>>, <<2, 20>>>>)>>)
LoadWord == Word(<<<<3, 0>>, <<2, 16>>, <<3, 24>>, <<1, 44>>>>)
LoadArgs == [baseIdx |-> 3, repeat |-> 2, srcStride |-> 3, dstStride |-> 1]
Load2DRows ==
    With({load_gm_to_cbuf, load_gm_to_cbuf_s4, load_gm_to_ca, load_gm_to_ca_s4, load_gm_to_cb, load_gm_to_cb_s4,
          load_cbuf_to_ca, load_cbuf_to_ca_s4, load_cbuf_to_cb, load_cbuf_to_cb_s4} \cup Load2DProbes, "RecordLoad2DEvent")
AddrModes == {[addrCalMode |-> m] : m \in {"INC", "DEC"}}
TransposeWord == <<Word(<<<<4, 0>>, <<2, 16>>, <<2, 24>>, <<7, 44>>>>), Word(<<<<1, 0>>, <<1, 16>>>>)>>
LoadOps ==
    MoveOps(ConfigOnly(Load2DRows), <<LoadWord>>, NoArgs, AddrModes)
      \cup {MoveOp(row, "config", 512, <<LoadWord>>, NoArgs, [addrCalMode |-> "DEC"]) : row \in ConfigOnly({load_cbuf_to_ca})}
      \cup MoveOps({load_cbuf_to_cb_sp}, <<LoadWord>>, [startId |-> 1, repeat |-> 2], {[src0 |-> OperandSpace, src1 |-> 0]})
      \cup MoveOps({load_cbuf_to_cb_transpose_s4} \cup load_cbuf_to_cb_transpose \cup load_cbuf_to_ca_transpose,
                   TransposeWord, [indexId |-> 4, repeat |-> 2, srcStride |-> 2, dstStride |-> 7, addrMode |-> TRUE,
                                   dstFracStride |-> 1], Plainly)
      \cup Mv(Load2DProbes, "RecordLoadL12DTransposeEvent", <<Word(<<<<2, 16>>, <<8, 24>>, <<7, 44>>>>), TransposeWord[2]>>)
      \cup UNION {MoveOps(With(Load2DProbes, "RecordLoadL12DV2Event"),
                     <<Word(<<<<1, 0>>, <<k, 16>>, <<m, 32>>, <<2, 40>>>>), Word(<<<<stride, 0>>, <<16, 16>>>>)>>, NoArgs,
                     {[transpose |-> t] : t \in BOOLEAN}) : k \in {0, 1}, m \in {2, 4}, stride \in {5, 65536 - 5}}
      \cup Mv(Load2DProbes, "RecordLoadL1Mx2DV2Event", <<Word(<<<<1, 0>>, <<1, 16>>, <<2, 32>>, <<3, 40>>>>), Word(<<<<4, 0>>>>)>>)
      \cup MoveOps(load_cbuf_to_cb_b2, <<Word(<<<<5, 16>>>>)>>, [repeat |-> 5], Plainly)
      \cup MoveOps(load_cbuf_to_ca_winograd, <<Word(<<<<4, 0>>, <<4, 16>>, <<16, 32>>, <<1, 48>>>>), Word(<<<<32, 8>>, <<16, 32>>>>)>>,
                   [fmSizeW |-> 4, fmSizeH |-> 4, fmSizeCh |-> 16, innerDstGap |-> 1, extStepK |-> 32, dstStartPointK |-> 0,
                    extStepM |-> 3, dstStartPointM |-> 0], Plainly)
      \cup MoveOps({load_cbuf_to_cb_winograd}, <<Word(<<<<1, 8>>, <<9, 16>>, <<4, 32>>, <<2, 56>>>>)>>,
                   [innerDstStride |-> 1, srcRptStride |-> 9, dstRptStride |-> 4, repeat |-> 2], Plainly)
Load2DV2Ops ==
    Mv(Load2DProbes, "RecordLoad2DV2Event", <<Word(<<<<1, 0>>, <<1, 32>>>>), Word(<<<<3, 0>>, <<1, 12>>, <<2, 24>>>>)>>)
\* A filter of 2 by 2 over a padded map of 3 by 3.
Load3DOps ==
    {MoveOp(row, "config", OperandSpace, <<Word(<<<<16, 0>>, <<16, 16>>>>), filter \cup Word(<<<<8, 48>>>>) \cup b>>, NoArgs, NoArgs) :
       row \in img2colv2_cbuf_to_ca \cup img2colv2_cbuf_to_ca_s4 \cup img2colv2_cbuf_to_cb \cup Load3DProbes,
       filter \in {Word(<<<<1, 0>>, <<1, 6>>, <<2, 12>>, <<2, 20>>, <<d, 28>>, <<1, 36>>>>) : d \in {0, 1}}, b \in {{}, {47}}}
OneOperandOps ==
    MoveOps(load_image_to_cbuf, <<Word(<<<<300, 0>>, <<2, 16>>>>), Word(<<<<1, 16>>, <<1, 32>>>>)>>,
            [horSize |-> 3, verSize |-> 2, topPadSize |-> 1, botPadSize |-> 0, lPadSize |-> 1, rPadSize |-> 0], Plainly)
      \cup MoveOps(load_smask_table, <<Word(<<<<20, 0>>>>)>>, NoArgs, Plainly)
      \cup MoveOps({load_decompress_header_from_gm}, <<Word(<<<<3, 0>>>>)>>, [nBlock |-> 0], Plainly)
      \cup MoveOps({dc_preload}, <<>>, [offset |-> 64], Plainly)
      \cup MoveOps(set_l0a_2d \cup set_l0b_2d \cup set_l1_2d \cup create_ca_matrix \cup create_cb_matrix \cup create_cbuf_matrix
                     \cup With(DmaMovProbes, "RecordSetL12DEvent"),
                   <<Word(<<<<2, 0>>, <<3, 16>>, <<1, 32>>>>)>>, NoArgs, Plainly)
\* 4 rows of 64 columns, for the widths of the destination.
MovFpOps ==
    MoveOps(copy_matrix_cc_to_gm \cup {copy_matrix_cc_to_gm_b4}, <<Word(<<<<64, 4>>, <<4, 16>>, <<128, 32>>>>), Word(<<<<16, 0>>, <<2, 32>>>>)>>,
            [nSize |-> 64, mSize |-> 4, dstStride |-> 128, srcStride |-> 16, unitFlag |-> 0, quantPre |-> 0,
             channelSplit |-> TRUE, enNZ2ND |-> TRUE], Plainly)
      \cup UNION {MoveOps(MovFpProbes, <<Word(<<<<n, 4>>, <<4, 16>>, <<128, 32>>>>), Word(<<<<16, 0>>, <<2, 32>>, <<q, 34>>>>) \cup flags>>,
                          NoArgs, Plainly) :
                    n \in {0, 64, 80}, q \in {0, 1, 9, 21}, flags \in {{}, {42}, {43}, {62}, {16}, {17, 18}}}

Spr(name, fields) == {[kind |-> "set_register", name |-> name, word |-> Word(fields)]}
NdDmaRegisters ==
    <<Spr("sprLoop0StrideNdDma", <<<<1, 0>>, <<1, 20>>>>), Spr("sprLoop1StrideNdDma", <<<<3, 0>>, <<3, 20>>>>),
      Spr("sprLoop2StrideNdDma", <<<<6, 0>>, <<8, 20>>>>), Spr("sprLoop3StrideNdDma", <<<<12, 0>>, <<16, 20>>>>),
      Spr("sprLoop4StrideNdDma", <<<<13, 0>>, <<32, 20>>>>) \cup Spr("sprLoop4StrideNdDma", <<<<12, 0>>, <<32, 20>>>>)>>
MatrixRegisters ==
    <<Spr("sprMte2NzPara", <<<<2, 0>>, <<1, 16>>, <<16, 32>>, <<128, 48>>>>), Spr("ndParaConfig", <<<<2, 0>>, <<8, 16>>, <<16384, 32>>>>),
      Spr("sprLoop3Para", <<<<2, 0>>, <<128, 16>>, <<16384, 32>>>>), Spr("sprChannelPara", <<<<1, 48>>>>),
      Spr("sprMTE2SrcPara", <<<<3, 0>>>>) \cup {[kind |-> "set_register", name |-> "sprMTE2SrcPara", word |-> 0 .. 31 \ {1}]}>>
Load3DSetup ==
    <<Spr("fmatrix", <<<<3, 0>>, <<3, 16>>, <<1, 32>>>>), Spr("fmatrixB", <<<<3, 0>>, <<3, 16>>>>),
      Spr("sprFmatrix", <<<<3, 0>>, <<3, 16>>>>), Spr("sprFmatrixB", <<<<3, 0>>, <<3, 16>>, <<1, 48>>>>),
      Spr("l3dRpt", <<>>) \cup Spr("l3dRpt", <<<<1, 0>>, <<2, 16>>>>), Spr("sprL3dRpt", <<<<1, 0>>, <<1, 16>>, <<4, 32>>>>),
      Spr("sprL3dRptB", <<<<1, 0>>, <<1, 16>>, <<4, 32>>>>)>>
LoopRegs(dir, sizes) ==
    <<sizes, Spr("sprLoop1Stride" \o dir, <<<<512, 0>>, <<512, 40>>>>), Spr("sprLoop2Stride" \o dir, <<<<2048, 0>>, <<2048, 40>>>>)>>
LoopSizes(name) == Spr(name, <<<<2, 0>>, <<2, 21>>>>) \cup Spr(name, <<<<1, 0>>, <<1, 21>>>>)

Kernels ==
    [setup \in {"byMask", "byCount"} |->
       Kernel("C220", "AIVEC", 100, (IF setup = "byMask" THEN ByMask ELSE ByCount) \o <<TableOps>>)] @@
    [m200 |-> Kernel("M200", "AIVEC", 100, <<Modes, MaskHalf(0, {{1, 5}}), VectorOps(UnaryRows, {Strided}, "M200")>>),
     cube |-> Kernel("C220", "AICUBE", 100, <<MadOps("mad", MadFloat \cup MadInt8 \cup MadNarrow \cup MadOther, {0, 16, 40})>>),
     select |-> Kernel("C220", "AIVEC", 100,
                       <<Modes, MaskHalf(0, {{1, 5}}), Cmpmask \cup VcmpOps, Cmpmask \cup VcmpOps, VselOps, VselOps \cup VcmpOps>>),
     squeeze |-> Kernel("C220", "AIVEC", 100, ByMask \o <<SqueezeOps>>),
     squeezeCount |-> Kernel("C220", "AIVEC", 100, ByCount \o <<SqueezeOps>>),
     gather |-> Kernel("C220", "AIVEC", 100, <<Modes, MaskHalf(0, {{}, {0, 2}}), MaskHalf(1, {{}}), GatherOps, GatherOps \cup VcmpOps>>),
     sort |-> Kernel("C220", "AIVEC", 100, <<SortOps, VaOps, VaOps, TransposeOps>>),
     a5 |-> Kernel("C310", "AIVEC", 100,
                   <<SortOps \cup Vbs32Ops, VaOps, TransposeOps>>),
     a5cube |-> Kernel("C310", "AICUBE", 100, <<MadOps("mmad", MadA5, {16, 300})>>),
     copies |-> Kernel("C220", "AIVEC", 100, <<CopyOps \cup LoadOps \cup OneOperandOps>>),
     converts |-> Kernel("C220", "AICUBE", 100, <<ConvOps>>),
     matrices |-> Kernel("C310", "AICUBE", 100, MatrixRegisters \o <<Nd2nzOps \cup MovFpOps \cup Load2DV2Ops>>),
     loops |-> Kernel("C310", "AIVEC", 100,
                      LoopRegs("Ub2Out", LoopSizes("sprLoopSizeUb2Out")) \o LoopRegs("Out2Ub", LoopSizes("sprLoopSizeOut2Ub"))
                        \o LoopRegs("Out2L1", LoopSizes("sprLoopSizeOut2L1")) \o <<AlignOps>>),
     ndDma |-> Kernel("C310", "AIVEC", 100, NdDmaRegisters \o <<NdDmaOps>>),
     windows |-> Kernel("C220", "AICUBE", 100, Load3DSetup \o <<Load3DOps>>),
     full |-> Kernel("M200", "AIVEC", 1,
                     <<VcmpOps \cup Cmpmask \cup Scopes, VcmpOps \cup Cmpmask \cup Scopes, SmallSort \cup VcmpOps,
                       VcmpOps \cup Cmpmask \cup Scopes, VcmpOps \cup Cmpmask>>)]
MCPrograms == Kernels

\* Every overload of the loads of fractals, those with single arguments too.
LoadKernels == [loads |-> Kernel("C220", "AICUBE", 100, <<MoveOps(Load2DRows, <<LoadWord>>, LoadArgs, AddrModes)>>)]
MCLoadPrograms == LoadKernels
=============================================================================
