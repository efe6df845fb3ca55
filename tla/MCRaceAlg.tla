----------------------------- MODULE MCRaceAlg -----------------------------
(***************************************************************************)
(* Instances of RaceAlg, and the order of execution the clocks must agree  *)
(* with, derived from the program alone.                                   *)
(***************************************************************************)
EXTENDS RaceAlg

Mem(p) == [op |-> "MEM", pipe |-> p]
Flag(op, src, dst) ==
  [op |-> op, pipe |-> IF op = "SET_FLAG" THEN src ELSE dst, key |-> <<src, dst>>]
FlagShapes ==
  {Mem(1), Mem(2), Flag("SET_FLAG", 1, 2), Flag("WAIT_FLAG", 1, 2), Flag("SET_FLAG", 2, 0),
   Flag("WAIT_FLAG", 2, 0)}

(* A pipe gets the buffer, uses it and releases it before the next get. *)
Buf(op, p) == [op |-> op, pipe |-> p, buf |-> 0]
Holder(prog) ==
  LET syncs == SelectSeq(prog, LAMBDA e : e.op # "MEM")
      last  == syncs[Len(syncs)]
  IN  IF syncs # <<>> /\ last.op = "GET_BUF" THEN {last.pipe} ELSE {}
BufShapes(prog) ==
  IF Holder(prog) = {} THEN {Buf("GET_BUF", p) : p \in 0..2}
  ELSE UNION {{Mem(p), Buf("RLS_BUF", p)} : p \in Holder(prog)}

(* FFTS mode 2 and barriers between a cube core (block 2) and its vector   *)
(* cores (blocks 0 and 1), each with one access.                           *)
Ffts(mode, dim) == [op |-> "FFTS_SYNC", pipe |-> 1, mode |-> mode, flag |-> 0, dim |-> dim]
Await(p) == [op |-> "WAIT_FLAG_DEV", pipe |-> p, flag |-> 0, dim |-> 0]
PairShapes == {Mem(1), Ffts(2, 2), Await(0), Await(1)}
TeamShapes(b) == IF b < 2 THEN {Mem(1), Ffts(0, 2), Await(1)} ELSE {}
BarrierShapes(prog) ==
  {[op |-> "BARRIER", pipe |-> 0, used |-> 2]} \cup
  {e \in {Mem(0), Mem(1), Flag("SET_FLAG", 1, 0), Flag("WAIT_FLAG", 1, 0)} :
     \A i \in DOMAIN prog : <<prog[i].op, prog[i].pipe>> # <<e.op, e.pipe>>}

(* Block 0 sets and block 1 waits, each kind of flag at most once. *)
Soft(op, b) == CASE op \in {"MSTX_SET", "MSTX_WAIT"} -> [op |-> op, pipe |-> 0, key |-> 0, more |-> FALSE]
                 [] op = "IB_SET" -> [op |-> op, pipe |-> 0, id |-> 0]
                 [] op = "IB_WAIT" -> [op |-> op, pipe |-> 0, id |-> 0, peer |-> 1 - b]
                 [] op = "SIGNAL_SET" -> [op |-> op, pipe |-> 1, addr |-> 0, value |-> 1]
                 [] op = "SIGNAL_WAIT" -> [op |-> op, pipe |-> 0, addr |-> 0, value |-> 1, cmp |-> "GE"]
SoftShapes(b, prog) ==
  LET ops == IF b = 0 THEN {"MSTX_SET", "IB_SET", "SIGNAL_SET"}
             ELSE {"MSTX_WAIT", "IB_WAIT", "SIGNAL_WAIT"}
  IN  {Mem(0)} \cup {Soft(op, b) : op \in {o \in ops : \A i \in DOMAIN prog : prog[i].op # o}}

Kernel(name, type, num, max, alg) ==
  [name |-> name, type |-> type, num |-> num, max |-> max, alg |-> alg]
MCKernels ==
  {Kernel("flags", "AIVEC", 1, 4, "RaceAlgImpl"), Kernel("bufs", "AIVEC", 1, 9, "RaceAlgImpl"),
   Kernel("pair", "MIX", 3, 2, "CrossCoreRaceAlgImpl"),
   Kernel("team", "MIX", 3, 3, "CrossCoreRaceAlgImpl"),
   Kernel("barrier", "AIVEC", 2, 3, "CrossCoreRaceAlgImpl"),
   Kernel("soft", "AIVEC", 2, 3, "CrossCoreRaceAlgImpl")}
MCShapes(k, b, prog) ==
  CASE k.name = "flags" -> FlagShapes
    [] k.name = "bufs" -> BufShapes(prog)
    [] k.name = "pair" -> PairShapes
    [] k.name = "team" -> TeamShapes(b)
    [] k.name = "barrier" -> BarrierShapes(prog)
    [] k.name = "soft" -> SoftShapes(b, prog)

(***************************************************************************)
(* The order of execution.  Sure(f, e): f ends before e starts because     *)
(*  - they run on one pipe, or f runs on PIPE_S and e is issued after it;  *)
(*  - e is the n-th wait_flag of a flag and f its n-th set_flag;           *)
(*  - e gets a buffer after f released it in the program;                  *)
(*  - e is the n-th wait for a flag of a core and f the n-th set of a core *)
(*    the mode makes it wait for;                                          *)
(*  - e is a wait for the soft flag, MSTX flag or signal that f sets;      *)
(*  - e is the n-th barrier of a core and f precedes the n-th barrier of   *)
(*    another core on its PIPE_S.                                          *)
(***************************************************************************)
Nth(e, Like(_)) == Cardinality({g \in Events(e.block) : Like(g) /\ g.no <= e.no})
Partners(b) == {c \in Blocks : c \div 3 = b \div 3 /\ IsAIC(kernelInfo, c) # IsAIC(kernelInfo, b)}
Awaits(b, mode) == IF mode = 2 THEN Partners(b) ELSE {c \in Blocks : ~IsAIC(kernelInfo, c)}

InBlock(f, e) ==
  /\ f.block = e.block
  /\ \/ f.no < e.no /\ f.pipe \in {e.pipe, PIPE_S}
     \/ /\ f.op = "SET_FLAG" /\ e.op = "WAIT_FLAG" /\ f.key = e.key
        /\ Nth(f, LAMBDA g : g.op = "SET_FLAG" /\ g.key = e.key)
             = Nth(e, LAMBDA g : g.op = "WAIT_FLAG" /\ g.key = e.key)
     \/ f.op = "RLS_BUF" /\ e.op = "GET_BUF" /\ f.no < e.no
AcrossBlocks(f, e) ==
  \/ /\ f.op = "FFTS_SYNC" /\ e.op = "WAIT_FLAG_DEV" /\ f.block \in Awaits(e.block, f.mode)
     /\ Nth(f, LAMBDA g : g.op = "FFTS_SYNC") = Nth(e, LAMBDA g : g.op = "WAIT_FLAG_DEV")
  \/ <<f.op, e.op>> \in {<<"IB_SET", "IB_WAIT">>, <<"MSTX_SET", "MSTX_WAIT">>,
                        <<"SIGNAL_SET", "SIGNAL_WAIT">>}
  \/ /\ e.op = "BARRIER" /\ f.pipe = PIPE_S
     /\ Nth(f, LAMBDA g : g.op = "BARRIER")
          < Nth(e, LAMBDA g : g.op = "BARRIER")
Sure(f, e) == InBlock(f, e) \/ AcrossBlocks(f, e)

RECURSIVE Before(_)
Before(es) == LET more == es \cup {f \in AllEvents : \E e \in es : Sure(f, e)}
              IN  IF more = es THEN es ELSE Before(more)
Ordered(f, e) == f \in Before({e}) \/ e \in Before({f})

(* Two accesses are taken for concurrent exactly when nothing in the       *)
(* program orders them: no race is reported between accesses that a chain  *)
(* of flags, buffers or barriers keeps apart, and none is missed.          *)
OrderIsExact ==
  phase = "finished" =>
    \A m, n \in state.mem :
      m # n => (<<m, n>> \in Races <=> ~Ordered(m.event, n.event))

=============================================================================
