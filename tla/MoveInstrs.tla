----------------------------- MODULE MoveInstrs -----------------------------
(***************************************************************************)
(* The instrumented instructions that move data between the memories of a  *)
(* core (plugin/ccec/move_instructions and the probes of binary            *)
(* instrumentation in plugin/ccec/dbi/probes): the function that each stub *)
(* calls to leave a record, and the template arguments it passes.          *)
(*                                                                         *)
(*   func     the record function;                                         *)
(*   src, dst the memories;                                                *)
(*   type     the type of the elements; a pair where source and            *)
(*            destination differ, NoType where the stub passes none;       *)
(*   forms    the overloads: by configuration words, by arguments, or by   *)
(*            arguments of which one, the destination stride, is missing   *)
(*            and passed on as 0.                                          *)
(***************************************************************************)

NoType == "none"

Instr(func, src, dst, type) ==
    [func |-> func, src |-> src, dst |-> dst, type |-> type, forms |-> {"config", "args"}]
Instrs(func, src, dst, types) == {Instr(func, src, dst, t) : t \in types}
InForms(forms, rows) == {[r EXCEPT !.forms = forms] : r \in rows}
ConfigOnly(rows) == InForms({"config"}, rows)

-----------------------------------------------------------------------------
\* Copies in bursts of blocks.
copy_ubuf_to_cbuf == Instr("RecordDmaMovEvent", "UB", "L1", NoType)
copy_cbuf_to_ubuf == Instr("RecordDmaMovEvent", "L1", "UB", NoType)
copy_cbuf_to_gm == Instr("RecordDmaMovEvent", "L1", "GM", NoType)
copy_gm_to_cbuf == Instr("RecordDmaMovEvent", "GM", "L1", NoType)
copy_gm_to_ubuf == Instr("RecordDmaMovEvent", "GM", "UB", NoType)
copy_ubuf_to_gm == Instr("RecordDmaMovEvent", "UB", "GM", NoType)
copy_ubuf_to_ubuf == Instr("RecordDmaMovEvent", "UB", "UB", NoType)
copy_gm_to_cbuf_multi_nd2nz_b16 == Instr("RecordDmaMovNd2nzEvent", "GM", "L1", "B16")
copy_gm_to_cbuf_multi_nd2nz_b32s == Instr("RecordDmaMovNd2nzEvent", "GM", "L1", "B32")
copy_gm_to_cbuf_multi_nd2nz_b8 == Instr("RecordDmaMovNd2nzEvent", "GM", "L1", "B8")
copy_vector_cc_to_ubuf ==
    Instrs("RecordDmaMovConvReluEvent", "L0C", "UB",
           {<<"B16", "B16">>, <<"B32", "B16">>, <<"B32", "B32">>, <<"B32", "B8">>})
copy_depthwise_cc_to_ubuf ==
    Instrs("RecordDmaMovDepthWise", "L0C", "UB",
           {<<"B16", "B16">>, <<"B16", "B32">>, <<"B32", "B16">>, <<"B32", "B32">>})

copy_gm_to_ubuf_align == Instrs("RecordMovAlignEvent", "GM", "UB", {"B8", "B16", "B32"})
copy_ubuf_to_gm_align == Instrs("RecordMovAlignEvent", "UB", "GM", {"B8", "B16", "B32"})
copy_cbuf_to_bt == Instr("RecordMovBtEvent", "L1", "BT", NoType)
broadcast_ub_to_cc ==
    Instrs("RecordBroadcastEvent", "UB", "L0C", {<<"B16", "B16">>, <<"B32", "B32">>, <<"B16", "B32">>})

\* Out of the matrix unit; the type says whether the destination holds floats.
copy_matrix_cc_to_gm == Instrs("RecordMovFpEvent", "L0C", "GM", {"other", "F32"})
copy_matrix_cc_to_gm_b4 == Instr("RecordMovFpEvent", "L0C", "GM", "other")

-----------------------------------------------------------------------------
\* Loads of fractals, of 512 bytes each.  The overloads by arguments without
\* an address mode, and the ones for 4 bits into L1, have no destination stride.
load_gm_to_cbuf == [Instr("RecordLoad2DEvent", "GM", "L1", NoType) EXCEPT !.forms = {"config", "args", "noStride"}]
load_gm_to_cbuf_s4 == [load_gm_to_cbuf EXCEPT !.forms = {"config", "noStride"}]
load_gm_to_ca == [Instr("RecordLoad2DEvent", "GM", "L0A", NoType) EXCEPT !.forms = {"config", "args", "noStride"}]
load_gm_to_ca_s4 == Instr("RecordLoad2DEvent", "GM", "L0A", NoType)
load_gm_to_cb == [Instr("RecordLoad2DEvent", "GM", "L0B", NoType) EXCEPT !.forms = {"config", "args", "noStride"}]
load_gm_to_cb_s4 == Instr("RecordLoad2DEvent", "GM", "L0B", NoType)
load_cbuf_to_ca == [Instr("RecordLoad2DEvent", "L1", "L0A", NoType) EXCEPT !.forms = {"config", "args", "noStride"}]
load_cbuf_to_ca_s4 == Instr("RecordLoad2DEvent", "L1", "L0A", NoType)
load_cbuf_to_cb == [Instr("RecordLoad2DEvent", "L1", "L0B", NoType) EXCEPT !.forms = {"config", "args", "noStride"}]
load_cbuf_to_cb_s4 == Instr("RecordLoad2DEvent", "L1", "L0B", NoType)
load_cbuf_to_cb_sp == Instr("RecordLoad2DSparseEvent", "L1", "L0B", NoType)
load_cbuf_to_cb_transpose_s4 == Instr("RecordLoad2DTransposeEvent", "L1", "L0B", "B4")
load_cbuf_to_cb_transpose == Instrs("RecordLoad2DTransposeEvent", "L1", "L0B", {"B8", "B16", "B32"})
load_cbuf_to_ca_transpose == Instrs("RecordLoad2DTransposeEvent", "L1", "L0A", {"B8", "B16", "B32"})
load_cbuf_to_cb_b2 == Instrs("RecordLoadB2Event", "L1", "L0B", {"B8", "B16"})
load_cbuf_to_ca_winograd == Instrs("RecordLoadAWinograd", "L1", "L0A", {"B8", "B16"})
load_cbuf_to_cb_winograd == Instr("RecordLoadBWinograd", "L1", "L0B", NoType)
img2colv2_cbuf_to_ca == ConfigOnly(Instrs("RecordLoad3DEvent", "L1", "L0A", {"B8", "B16", "B32"}))
img2colv2_cbuf_to_ca_s4 == ConfigOnly({Instr("RecordLoad3DEvent", "L1", "L0A", "B4")})
img2colv2_cbuf_to_cb == ConfigOnly(Instrs("RecordLoad3DEvent", "L1", "L0B", {"B16", "B32"}))

-----------------------------------------------------------------------------
\* Instructions with one operand in memory.
load_image_to_cbuf == Instrs("RecordLoadImageEvent", "none", "L1", {"B8", "B16"})
load_smask_table == ConfigOnly({Instr("RecordLoadSmaskEvent", mem, "none", NoType) : mem \in {"GM", "UB"}})
load_decompress_header_from_gm == Instr("RecordDecompressHeaderEvent", "GM", "none", NoType)
dc_preload == Instr("RecordDcPreloadEvent", "GM", "none", NoType)
Set2D(mem) == ConfigOnly({Instr("RecordSet2DEvent", "none", mem, NoType)})
M200Set2D(mem) == ConfigOnly({Instr("RecordM200Set2DEvent", "none", mem, NoType)})
set_l0a_2d == Set2D("L0A") \cup M200Set2D("L0A")
set_l0b_2d == Set2D("L0B")
set_l1_2d == Set2D("L1") \cup M200Set2D("L1")
create_ca_matrix == Set2D("L0A") \cup M200Set2D("L0A")
create_cb_matrix == Set2D("L0B") \cup M200Set2D("L0B")
create_cbuf_matrix == Set2D("L1") \cup M200Set2D("L1")

-----------------------------------------------------------------------------
(***************************************************************************)
(* The probes.  They take configuration words only.                        *)
(***************************************************************************)
DmaMovProbes ==
    ConfigOnly({copy_gm_to_ubuf, copy_ubuf_to_gm, copy_cbuf_to_gm, copy_gm_to_cbuf,
                copy_gm_to_cbuf_multi_nd2nz_b16, copy_gm_to_cbuf_multi_nd2nz_b32s, copy_gm_to_cbuf_multi_nd2nz_b8,
                Instr("RecordDmaMovV2Event", "GM", "L1", "B32"),
                Instr("RecordDmaMovL2UBEvent", "L1", "UB", NoType),
                Instr("RecordDmaMovUB2L1Event", "UB", "L1", NoType),
                Instr("RecordDmaMovUB2UBEvent", "UB", "UB", NoType),
                Instr("RecordDmaMovL1FbEvent", "L1", "FB", NoType)}
               \cup Instrs("RecordNdDMAOut2Ub", "GM", "UB", {"B8", "B16", "B32"})
               \cup Instrs("RecordDmaMovNd2nzEventDav", "GM", "L1", {"B8", "B16", "B32"})
               \cup Instrs("RecordDmaMovDn2nzEventDav", "GM", "L1", {"B8", "B16", "B32"})
               \cup Instrs("RecordSetL12DEvent", "none", "L1", {"B16", "B32"})
               \cup Instrs("RecordDmaMovL1BtEvent", "L1", "BT", {"FLOAT", "S32", "F16", "B16"}))
Load2DProbes ==
    ConfigOnly({load_gm_to_ca, load_gm_to_cb, load_gm_to_cbuf, Instr("RecordLoad2DV2Event", "GM", "L1", NoType)}
               \cup Instrs("RecordLoadL12DTransposeEvent", "L1", "L0B", {"B4", "B8", "B16", "B32"})
               \cup Instrs("RecordLoadL12DV2Event", "L1", "L0A", {"B4", "B8", "B16", "B32"})
               \cup Instrs("RecordLoadL12DV2Event", "L1", "L0B", {"B4", "B8", "B16", "B32"})
               \cup {Instr("RecordLoadL1Mx2DV2Event", "L1", mem, NoType) : mem \in {"L0A", "L0B"}})
Load3DProbes ==
    ConfigOnly(Instrs("RecordLoad3DV2Event", "L1", "L0A", {"B8", "B16", "B32"})
               \cup Instrs("RecordLoad3DV2Event", "L1", "L0B", {"B8", "B16", "B32"}))
MovAlignProbes ==
    ConfigOnly(copy_gm_to_ubuf_align \cup copy_ubuf_to_gm_align
               \cup {Instr("RecordMovAlignEventV2", "UB", "GM", "B32")}
               \cup Instrs("RecordMovAlignEventV2", "GM", "UB", {"B8", "B16", "B32"})
               \cup Instrs("RecordMovAlignEventV2", "GM", "L1", {"B8", "B16", "B32"}))
MovFpProbes ==
    ConfigOnly(Instrs("RecordMovFpEvent", "L0C", "GM", {"other", "F32"})
               \cup Instrs("RecordMovFpV2Event", "L0C", "GM", {"other", "F32"})
               \cup Instrs("RecordFixL0CToL1Event", "L0C", "L1", {"other", "F32"})
               \cup Instrs("RecordFixL0CToUBEvent", "L0C", "UB", {"other", "F32"}))
=============================================================================
