---------------------------- MODULE VectorInstrs ----------------------------
(***************************************************************************)
(* The instrumented vector instructions (plugin/ccec/calc_instructions):   *)
(* what each stub passes to the functions that write records, as a set of  *)
(* rows.  A row is                                                         *)
(*                                                                         *)
(*   instr    the instruction; variants that differ in rounding mode or in *)
(*            the comparison only (vconv_f162s8a, vcmp_ge) share a row;    *)
(*   type     the type of the record;                                      *)
(*   layout   how the 64-bit config word of the overload with a config is  *)
(*            laid out;                                                    *)
(*   ops      the operands, destination first: bits of an element, blocks  *)
(*            per repeat, bytes of a block, and the strides, which are     *)
(*            Given by the caller or fixed by the stub;                    *)
(*   from, rsFrom  the argument that gives an operand its address and      *)
(*            block stride, and the one that gives its repeat stride;      *)
(*   masked   whether the vector mask applies;                             *)
(*   factor   values per result of a reduction (value and index);          *)
(*   lanewise whether lane i of every operand belongs to lane i of the     *)
(*            result (what the tests of the mask take for granted);        *)
(*   forms    the overloads that exist: by config word or by arguments.    *)
(***************************************************************************)
EXTENDS Integers, Sequences

Given == -1

\* DataBitSize: void counts as bytes.
BitsOf(t) ==
    CASE t \in {"int8_t", "uint8_t", "void"} -> 8
      [] t \in {"half", "__bf16", "int16_t", "uint16_t"} -> 16
      [] t \in {"float", "int32_t", "uint32_t"} -> 32
      [] t \in {"int64_t", "uint64_t"} -> 64
      [] t = "s4" -> 4

Shape(bits, num, size, blockStride, repeatStride) ==
    [bits |-> bits, num |-> num, size |-> size, bs |-> blockStride, rs |-> repeatStride]
Lanes(t, num) == Shape(BitsOf(t), num, 32, Given, Given)
Block(t, size) == Shape(BitsOf(t), 1, size, Given, Given)
None == Shape(8, 0, 0, Given, Given)

Row(instr, type, layout, ops) ==
    [instr |-> instr, type |-> type, layout |-> layout, ops |-> ops,
     from |-> [i \in DOMAIN ops |-> i], rsFrom |-> [i \in DOMAIN ops |-> i],
     masked |-> TRUE, factor |-> 1, lanewise |-> TRUE, forms |-> {"config", "args"}]
Unmasked(row) == [row EXCEPT !.masked = FALSE, !.lanewise = FALSE]
Shaped(row) == [row EXCEPT !.lanewise = FALSE]
Only(form, row) == [row EXCEPT !.forms = {form}]

Unary(instr, type, to, dstNum, ti, srcNum) ==
    Row(instr, type, "unary", <<Lanes(to, dstNum), Lanes(ti, srcNum)>>)
Binary(instr, type, to, dstNum, ti, srcNum) ==
    Row(instr, type, "binary", <<Lanes(to, dstNum), Lanes(ti, srcNum), Lanes(ti, srcNum)>>)
Unaries(instr, types) == {Unary(instr, "UNARY_OP", t, 8, t, 8) : t \in types}
Binaries(instr, types) == {Binary(instr, "BINARY_OP", t, 8, t, 8) : t \in types}
Ternaries(instr, types) == {Binary(instr, "TERNARY_OP", t, 8, t, 8) : t \in types}
Narrowing(instr, to, ti) == Binary(instr, "BINARY_OP", to, 4, ti, 8)
Reduce(instr, t, dstRepeatLength, factor) ==
    [Row(instr, "REDUCE_OP", "reduce",
         <<Shape(factor * BitsOf(t), 1, dstRepeatLength, 1, Given), Lanes(t, 8)>>)
        EXCEPT !.factor = factor, !.lanewise = FALSE]

-----------------------------------------------------------------------------
(***************************************************************************)
(* One result per lane.                                                    *)
(***************************************************************************)
Vabs == Unaries("vabs", {"half", "float", "int16_t"})
Vadds == Unaries("vadds", {"half", "float", "int16_t", "int32_t"})
Vexp == Unaries("vexp", {"half", "float"})
Vln == Unaries("vln", {"half", "float"})
Vlrelu == Unaries("vlrelu", {"half", "float"})
Vmaxs == Unaries("vmaxs", {"half", "float", "int16_t", "int32_t"})
Vmins == Unaries("vmins", {"half", "float", "int16_t", "int32_t"})
Vmuls == Unaries("vmuls", {"half", "float", "int16_t", "int32_t"})
Vnot == Unaries("vnot", {"int16_t", "uint16_t"})
Vrec == Unaries("vrec", {"half", "float"})
Vrelu == Unaries("vrelu", {"half", "float", "int32_t"})
Vrsqrt == Unaries("vrsqrt", {"half", "float"})
Vshl == Unaries("vshl", {"int16_t", "int32_t", "uint16_t", "uint32_t"})
Vshr == Unaries("vshr", {"int16_t", "int32_t", "uint16_t", "uint32_t"})
Vsqrt == Unaries("vsqrt", {"half", "float"})
Vcopy == {Unary("vcopy", "VCOPY_OP", t, 8, t, 8) : t \in {"int16_t", "int32_t", "uint16_t", "uint32_t"}}

\* The overload with arguments passes the destination's repeat stride for the
\* source's as well.
Vpadding == {Shaped(Only("config", r)) : r \in Unaries("vpadding", {"uint16_t", "uint32_t"})}
              \cup {[Shaped(Only("args", r)) EXCEPT !.rsFrom[2] = 1] :
                      r \in Unaries("vpadding", {"uint16_t", "uint32_t"})}

Vadd == Binaries("vadd", {"half", "float", "int16_t", "int32_t"})
Vaddrelu == Binaries("vaddrelu", {"half", "float", "int16_t"})
Vand == Binaries("vand", {"int16_t", "uint16_t"})
Vdiv == Binaries("vdiv", {"half", "float"})
Vmax == Binaries("vmax", {"half", "float", "int16_t", "int32_t"})
Vmin == Binaries("vmin", {"half", "float", "int16_t", "int32_t"})
Vmul == Binaries("vmul", {"half", "float", "int16_t", "int32_t"})
Vor == Binaries("vor", {"int16_t", "uint16_t"})
Vsub == Binaries("vsub", {"half", "float", "int16_t", "int32_t"})
Vsubrelu == Binaries("vsubrelu", {"half", "float", "int16_t"})

\* Instructions that also read their destination.
Vmadd == Ternaries("vmadd", {"half", "float"})
Vmaddrelu == Ternaries("vmaddrelu", {"half", "float"})
Vmla == Ternaries("vmla", {"half", "float"})
          \cup {Binary("vmla", "TERNARY_OP", "float", 8, "half", 4)}
\* dst := a * src + dst: the destination is the second source.
Vaxpy == {[Row("vaxpy", "BINARY_OP", "unary", <<Lanes(to, 8), Lanes(ti, n), Lanes(to, 8)>>)
             EXCEPT !.from[3] = 1, !.rsFrom[3] = 1] :
            <<to, ti, n>> \in {<<"half", "half", 8>>, <<"float", "float", 8>>, <<"float", "half", 4>>}}

\* Results narrower than the sources.
Vadddeqrelu == {Narrowing("vadddeqrelu", "half", "int32_t")}
ReluConv(instr) ==
    {Narrowing(instr, c[1], c[2]) :
       c \in {<<"int8_t", "half">>, <<"half", "float">>, <<"int8_t", "int16_t">>,
              <<"uint8_t", "int16_t">>}}
Vaddreluconv == ReluConv("vaddreluconv")
Vsubreluconv == ReluConv("vsubreluconv")
Vmulconv == {Narrowing("vmulconv", to, "half") : to \in {"int8_t", "uint8_t"}}

-----------------------------------------------------------------------------
(***************************************************************************)
(* Conversions: half as many blocks on the narrower side, and a quarter    *)
(* for four bits.                                                          *)
(***************************************************************************)
Conv(instr, to, dstNum, ti, srcNum) == Unary(instr, "UNARY_OP", to, dstNum, ti, srcNum)

VconvBf16 == {Conv("vconv_bf162f32", "float", 8, "__bf16", 4),
              Conv("vconv_bf162s32", "int32_t", 8, "__bf16", 4)}
VconvDeq == {Conv("vconv_deq", "half", 4, "int32_t", 8)}
              \cup {Conv("vconv_deqs162b8", to, 4, "int16_t", 8) : to \in {"int8_t", "uint8_t"}}
VconvF16 == {Conv("vconv_f162f32", "float", 8, "half", 4), Conv("vconv_f162s16", "int16_t", 8, "half", 8)}
VconvF162s32 == {Conv("vconv_f162s32", "int32_t", 8, "half", 4)}
VconvF162s4 == {Unary("vconv_f162s4", "VCONV_DST_S4_OP", "s4", 2, "half", 8)}
VconvF162s8 == {Conv("vconv_f162s8", "int8_t", 4, "half", 8)}
VconvF162u8 == {Conv("vconv_f162u8", "uint8_t", 4, "half", 8)}
VconvF322bf16 == {Conv("vconv_f322bf16", "__bf16", 4, "float", 8)}
VconvF322f16 == {Conv("vconv_f322f16", "half", 4, "float", 8)}
VconvF322f32 == {Conv("vconv_f322f32", "float", 8, "float", 8)}
VconvF322s16 == {Conv("vconv_f322s16", "int16_t", 4, "float", 8)}
VconvF322s32 == {Conv("vconv_f322s32", "int32_t", 8, "float", 8)}
VconvF322s64 == {Conv("vconv_f322s64", "int64_t", 8, "float", 4)}
VconvS16 == {Conv("vconv_s162f16", "half", 8, "int16_t", 8), Conv("vconv_s162f32", "float", 8, "int16_t", 4)}
VconvS322f32 == {Conv("vconv_s322f32", "float", 8, "int32_t", 8)}
VconvS32 == {Conv("vconv_s322s16", "int16_t", 4, "int32_t", 8),
             Conv("vconv_s322s64", "int64_t", 8, "int32_t", 4)}
VconvS42f16 == {Unary("vconv_s42f16", "VCONV_SRC_S4_OP", "half", 8, "s4", 2)}
VconvS64 == {Conv("vconv_s642f32", "float", 4, "int64_t", 8), Conv("vconv_s642s32", "int32_t", 4, "int64_t", 8)}
VconvB8 == {Conv("vconv_s82f16", "half", 8, ti, 4) : ti \in {"int8_t", "uint8_t"}}
VconvVdeq == {Conv("vconv_vdeqs162b8", to, 4, "int16_t", 8) : to \in {"int8_t", "uint8_t"}}
\* These stubs give eight blocks to both sides whatever their widths are.
Vcbd == {Shaped(Conv("vcbd", p[1], 8, p[2], 8)) :
           p \in {<<"int32_t", "int16_t">>, <<"uint8_t", "int16_t">>, <<"int16_t", "int32_t">>,
                  <<"uint8_t", "int32_t">>, <<"int16_t", "uint8_t">>, <<"int32_t", "uint8_t">>}}

-----------------------------------------------------------------------------
(***************************************************************************)
(* Comparisons.  vcmp leaves its result in a register; vcmpv and vcmpvs    *)
(* write one bit per lane and ignore the mask.                             *)
(***************************************************************************)
Compare(instr) ==
    {Row(instr, "BINARY_OP", "binary", <<None, Lanes(t, 8), Lanes(t, 8)>>) : t \in {"half", "float", "uint16_t"}}
vcmp_eq == Compare("vcmp_eq")
vcmp_ge == Compare("vcmp_ge")
vcmp_gt == Compare("vcmp_gt")
vcmp_le == Compare("vcmp_le")
vcmp_lt == Compare("vcmp_lt")
vcmp_ne == Compare("vcmp_ne")
Vcmp == vcmp_eq \cup vcmp_ge \cup vcmp_gt \cup vcmp_le \cup vcmp_lt \cup vcmp_ne
CompareV(instr, types) ==
    {Unmasked(Row(instr, "BINARY_OP", "binary",
                  <<Block("uint8_t", 256 \div BitsOf(t)), Lanes(t, 8), Lanes(t, 8)>>)) : t \in types}
vcmpv_eq == CompareV("vcmpv_eq", {"half", "float", "int32_t"})
Vcmpv == vcmpv_eq \cup CompareV("vcmpv_ge", {"half", "float"})
CompareVS(instr, types) ==
    {Unmasked(Row(instr, "UNARY_OP", "unary",
                  <<Shape(8, 1, 256 \div BitsOf(t), 1, 1), Lanes(t, 8)>>)) : t \in types}
vcmpvs_eq == CompareVS("vcmpvs_eq", {"half", "float", "int32_t"})
vcmpvs_ge_gt == CompareVS("vcmpvs_ge", {"half", "float"})
vcmpvs_le_lt == CompareVS("vcmpvs_le", {"half", "float"})
vcmpvs_ne == CompareVS("vcmpvs_ne", {"half", "float"})
Vcmpvs == vcmpvs_eq \cup vcmpvs_ge_gt \cup vcmpvs_le_lt \cup vcmpvs_ne

(***************************************************************************)
(* Reductions: vcadd, vcmax and vcmin to one result per repeat, vcgadd,    *)
(* vcgmax and vcgmin to one per block, vcpadd to one per pair.  In the     *)
(* form that accumulates in a register vcadd has no destination.           *)
(***************************************************************************)
Vcadd == {Reduce("vcadd", t, BitsOf(t) \div 8, 1) : t \in {"half", "float"}}
           \cup {[Only("args", Reduce("vcadd_acc", t, 0, 1)) EXCEPT !.ops[1].num = 0] : t \in {"half", "float"}}
PerBlock(instr) == {Reduce(instr, t, BitsOf(t), 1) : t \in {"half", "float"}}
Vcgadd == PerBlock("vcgadd")
Vcgmax == PerBlock("vcgmax")
Vcgmin == PerBlock("vcgmin")
\* ParseOrder: what a maximum or a minimum writes.
ParseOrder(t, order) ==
    CASE order = "value_index" -> [length |-> BitsOf(t) \div 4, factor |-> 2]
      [] order = "only_value" -> [length |-> BitsOf(t) \div 8, factor |-> 1]
      [] order = "only_index" -> [length |-> 4, factor |-> 1]
Extremum(instr) ==
    {Reduce(instr, t, BitsOf(t) \div 8, 1) : t \in {"half", "float", "uint16_t"}}
      \cup {Reduce(instr, t, ParseOrder(t, o).length, ParseOrder(t, o).factor) :
              t \in {"half", "float"}, o \in {"value_index", "only_value", "only_index"}}
Vcmax == Extremum("vcmax")
Vcmin == Extremum("vcmin")
Vcpadd == {Reduce("vcpadd", t, 128, 1) : t \in {"half", "float"}}

(***************************************************************************)
(* Instructions on blocks of their own shape.                              *)
(***************************************************************************)
Vaadd == {Only("config", Shaped(Row("vaadd", "BINARY_OP", "binary",
                                    <<Block(t, 16 * BitsOf(t)), Block(t, 2 * BitsOf(t)), Block(t, 2 * BitsOf(t))>>))) :
            t \in {"half", "float"}}
Vbitsort ==
    {Only("config", Shaped(Row("vbs16", "UNARY_OP", "unary", <<Block(t, 256), Block(t, 256)>>))) :
       t \in {"half", "float"}}
      \cup {Unmasked(Row("vbs32", "BINARY_OP", "binary",
                         <<Shape(BitsOf(t), 1, 256, 0, 1), Shape(BitsOf(t), 1, 4 * BitsOf(t), 0, 1),
                           Shape(32, 1, 128, 0, 1)>>)) : t \in {"half", "float"}}
Vbrcb == {Unmasked(Row("vbrcb", "UNARY_OP", "unary",
                       <<Lanes(t, 8), Shape(BitsOf(t), 1, BitsOf(t), 0, 1)>>)) :
            t \in {"uint16_t", "uint32_t"}}
Vld_va_reg == {Only("config", Unmasked(Row("vld_va_reg", "UNARY_OP", "zero", <<None, Block("uint64_t", 16)>>)))}
Vmergech == {Only("config", Shaped(Row("vmergech", "UNARY_OP", "unary",
                                       <<Shape(BitsOf(t), 1, 4 * BitsOf(t), 1, 1),
                                         Shape(BitsOf(t), 1, 256, 1, 1)>>))) : t \in {"uint8_t", "half"}}
Vrpac == {Only("config", Shaped(Row("vrpac", "UNARY_OP", "unary",
                                    <<Shape(BitsOf(t), 1, 2 * BitsOf(t), 1, 1),
                                      Shape(BitsOf(t), 1, 16 * BitsOf(t), 1, 1)>>))) : t \in {"half", "float"}}
Vtranspose == {Only("args", Unmasked(Row("vtranspose", "UNARY_OP", "once",
                                         <<Shape(BitsOf(t), 1, 512, 0, 0), Shape(BitsOf(t), 1, 512, 0, 0)>>))) :
                 t \in {"int16_t", "uint16_t"}}
Viou == {Only("config", Shaped(Row("viou", "BINARY_OP", "binary",
                                   <<Shape(BitsOf(t), 1, 32 * BitsOf(t), 1, 1),
                                     Shape(BitsOf(t), 1, 16 * BitsOf(t), 1, 1),
                                     Shape(BitsOf(t), 1, 16 * BitsOf(t), 0, 1)>>))) : t \in {"half", "float"}}
Vscatter == {Shaped(Row("vscatter", "UNARY_OP", "scatter",
                        <<Shape(32, 8, 32, 1, 1), Shape(BitsOf(t), 8, 32, 1, Given)>>)) :
               t \in {"uint16_t", "uint32_t"}}
Vector_dup == {Row("vector_dup", "VEC_DUP", "dup", <<Lanes(t, 8)>>) :
                 t \in {"half", "float", "int16_t", "int32_t", "uint16_t", "uint32_t", "__bf16"}}
\* The overload without a pattern takes a mask block for its second source.
VreduceBinary == {Only("args", Shaped(Row("vreduce", "BINARY_OP", "binary",
                                          <<Lanes(t, 8), Lanes(t, 8), Block(t, 256 \div BitsOf(t))>>))) :
                    t \in {"uint16_t", "uint32_t"}}
\* Modes 0 and 2 select between two vectors, mode 1 between a vector and a
\* constant; the second source has the width of the first.
VselMode(t, mode) ==
    IF mode = 1
    THEN Shaped(Row("vsel", "VSEL_OP", "binary",
                    <<Lanes(t, 8), Lanes(t, 8), Shape(BitsOf(t), 1, 256 \div BitsOf(t), 0, 1)>>))
    ELSE Row("vsel", "VSEL_OP", "binary", <<Lanes(t, 8), Lanes(t, 8), Lanes(t, 8)>>)

(***************************************************************************)
(* Matrix multiplications: the widths of the result and of the sources.    *)
(***************************************************************************)
MadFloat == {<<32, 16, 16>>, <<16, 16, 16>>, <<32, 32, 32>>}
MadInt8 == {<<32, 16, 8>>, <<32, 8, 8>>}
MadNarrow == {<<32, 8, 2>>, <<16, 16, 2>>, <<32, 4, 4>>, <<32, 8, 4>>}
MadOther == {<<32, 8, 8>>, <<32, 32, 32>>}
MadA5 == {<<32, 8, 8>>, <<32, 16, 16>>, <<32, 32, 32>>, <<32, 4, 4>>}

Instructions ==
    Vabs \cup Vadds \cup Vexp \cup Vln \cup Vlrelu \cup Vmaxs \cup Vmins \cup Vmuls \cup Vnot
      \cup Vrec \cup Vrelu \cup Vrsqrt \cup Vshl \cup Vshr \cup Vsqrt \cup Vcopy \cup Vpadding
      \cup Vadd \cup Vaddrelu \cup Vand \cup Vdiv \cup Vmax \cup Vmin \cup Vmul \cup Vor \cup Vsub
      \cup Vsubrelu \cup Vmadd \cup Vmaddrelu \cup Vmla \cup Vaxpy \cup Vadddeqrelu
      \cup Vaddreluconv \cup Vsubreluconv \cup Vmulconv
      \cup VconvBf16 \cup VconvDeq \cup VconvF16 \cup VconvF162s32 \cup VconvF162s4 \cup VconvF162s8
      \cup VconvF162u8 \cup VconvF322bf16 \cup VconvF322f16 \cup VconvF322f32 \cup VconvF322s16
      \cup VconvF322s32 \cup VconvF322s64 \cup VconvS16 \cup VconvS322f32 \cup VconvS32
      \cup VconvS42f16 \cup VconvS64 \cup VconvB8 \cup VconvVdeq \cup Vcbd
      \cup Vcmp \cup Vcmpv \cup Vcmpvs \cup Vcadd \cup Vcgadd \cup Vcgmax \cup Vcgmin \cup Vcmax
      \cup Vcmin \cup Vcpadd \cup Vaadd \cup Vbitsort \cup Vbrcb \cup Vld_va_reg \cup Vmergech
      \cup Vrpac \cup Vtranspose \cup Viou \cup Vscatter \cup Vector_dup \cup VreduceBinary
=============================================================================
