----------------------------- MODULE MCCrossNpu -----------------------------
(***************************************************************************)
(* Instances of CrossNpu with two devices, and the order of execution the  *)
(* clocks must agree with, derived from the programs alone.                *)
(***************************************************************************)
EXTENDS CrossNpu

Mem(p)  == [op |-> "MEM", pipe |-> p]
Rally    == [op |-> "NPU_BARRIER", pipe |-> 0, devs |-> 2, used |-> 1]
Signal  == [op |-> "SIGNAL_SET", pipe |-> 1, addr |-> 0, value |-> 1]
Listen  == [op |-> "SIGNAL_WAIT", pipe |-> 0, addr |-> 0, value |-> 1, cmp |-> "GE"]
Used(prog, e) == \E i \in DOMAIN prog : prog[i].op = e.op

(* One vector core of each device runs: accesses, barriers of the two      *)
(* devices, and one signal from device 0 to device 1.                      *)
SignalShapes(d, b, prog) ==
  IF b # 0 THEN {}
  ELSE {Mem(1), Rally} \cup {e \in {IF d = 0 THEN Signal ELSE Listen} : ~Used(prog, e)}

(* Two kernels of a device, on a vector core and the cube core.            *)
KernelShapes(b) ==
  IF b = 1 THEN {} ELSE {Mem(1)} \cup (IF b = 0 THEN {Rally} ELSE {})

(* Device 0 has nothing to do, device 1 waits for its signal. *)
AloneShapes(d, b) == IF b # 0 THEN {} ELSE {Mem(1)} \cup (IF d = 1 THEN {Listen} ELSE {})

Job(name, kernels, max) == [name |-> name, kernels |-> kernels, max |-> max]
MCJobs   == {Job("signal", 1, 3), Job("kernels", 2, 1)}
MCAlone  == {Job("alone", 1, 2)}
MCShapes(j, d, b, prog) ==
  CASE j.name = "signal" -> SignalShapes(d, b, prog)
    [] j.name = "kernels" -> KernelShapes(b)
    [] j.name = "alone" -> AloneShapes(d, b)

(***************************************************************************)
(* Sure(f, e): f ends before e starts because they run on one pipe, e is   *)
(* issued after f ran on PIPE_S, the kernel of e is a later one, e waits   *)
(* for the signal f sends, or e is the n-th barrier of its core and f      *)
(* precedes the n-th barrier of the other device's core.                   *)
(***************************************************************************)
Prior(f, e) == /\ f.dev = e.dev
               /\ \/ f.kernel < e.kernel
                  \/ f.kernel = e.kernel /\ f.block = e.block /\ f.no < e.no
Meets(e) == Cardinality({g \in AllEvents : g.op = "NPU_BARRIER" /\ (g = e \/ Prior(g, e))})
Sure(f, e) ==
  \/ Prior(f, e) /\ (f.kernel < e.kernel \/ f.pipe \in {e.pipe, PIPE_S})
  \/ f.op = "SIGNAL_SET" /\ e.op = "SIGNAL_WAIT"
  \/ /\ e.op = "NPU_BARRIER" /\ f.dev # e.dev
     /\ \E g \in AllEvents : g.op = "NPU_BARRIER" /\ g.dev = f.dev /\ Meets(g) = Meets(e)
                             /\ Prior(f, g) /\ (f.pipe = PIPE_S \/ f.kernel < g.kernel)

RECURSIVE Before(_)
Before(es) == LET more == es \cup {f \in AllEvents : \E e \in es : Sure(f, e)}
              IN  IF more = es THEN es ELSE Before(more)
Ordered(f, e) == f \in Before({e}) \/ e \in Before({f})

(* Two accesses of different devices are taken for concurrent exactly when *)
(* no signal, barrier or end of a kernel orders them.                      *)
OrderIsExact ==
  phase = "finished" =>
    \A m, n \in state.mem :
      m.event.dev # n.event.dev => (<<m, n>> \in Races <=> ~Ordered(m.event, n.event))
=============================================================================
