---------------------------- MODULE BarrierProofs ----------------------------
(***************************************************************************)
(* The barriers of Replayer: the blocks of a kernel pass them together,    *)
(* for any number of blocks and pipes and programs of any length.          *)
(***************************************************************************)
EXTENDS BufferProofs

(* The barriers that have run, and the barrier of all the blocks: who has  *)
(* come, and whether it is open.                                           *)
RanBar(b) == {e \in Events(b) : Executed(e) /\ e.op = "BARRIER"}
Gate(s, n) == IF n \in DOMAIN s.bars THEN s.bars[n] ELSE [open |-> FALSE, arrived |-> {}]

(* A barrier is an event of PIPE_S and of all the blocks. *)
BarEvents ==
  \A b \in Blocks : \A e \in Events(b) : e.op = "BARRIER" =>
    e.pipe = PIPE_S /\ e.used = kernelInfo.num /\ kernelInfo.type # "MIX"

(* A block that has come and not passed stands at its barrier.  While the  *)
(* barrier is closed the blocks have passed equally many; once it is open  *)
(* those that have passed it are one ahead.                                *)
GateInv ==
  LET g == Gate(state, kernelInfo.num)
  IN  /\ g.arrived \subseteq Blocks
      /\ \A b \in g.arrived : AtBarrier(b)
      /\ \E k \in Nat : \A b \in Blocks :
           Cardinality(RanBar(b)) = IF g.open /\ b \notin g.arrived THEN k + 1 ELSE k

BarInv ==
  /\ {"bars", "type"} \subseteq DOMAIN state /\ state.type = kernelInfo.type
  /\ {"open", "arrived"} \subseteq DOMAIN Gate(state, kernelInfo.num)
  /\ BarEvents /\ GateInv

(* The counts give the property.                                           *)
LEMMA BarInvGives == BarInv => BarrierTogether
  <1> SUFFICES ASSUME BarInv, NEW b \in Blocks, NEW c \in Blocks, Passed(b) > Passed(c)
               PROVE  Passed(b) = Passed(c) + 1 /\ AtBarrier(c)
    BY Zenon DEF BarrierTogether
  <1> DEFINE g == Gate(state, kernelInfo.num)
  <1>1. \A d : Passed(d) = Cardinality(RanBar(d))
    BY Zenon DEF Passed, Ran, RanBar
  <1>2. PICK k \in Nat : \A d \in Blocks :
          Cardinality(RanBar(d)) = IF g.open /\ d \notin g.arrived THEN k + 1 ELSE k
    BY Zenon DEF BarInv, GateInv
  <1>3. \A d \in g.arrived : AtBarrier(d)
    BY Zenon DEF BarInv, GateInv
  <1> HIDE DEF g
  <1>4. Passed(b) = (IF g.open /\ b \notin g.arrived THEN k + 1 ELSE k) /\ Passed(c) = IF g.open /\ c \notin g.arrived THEN k + 1 ELSE k
    BY Zenon, <1>1, <1>2
  <1>5. c \in g.arrived /\ Passed(b) = k + 1 /\ Passed(c) = k
    BY <1>4
  <1> QED
    BY SMTT(30), <1>3, <1>5

(* What s1 must have of s for a step that is not about barriers.           *)
SameBars(s1, s) == DOMAIN s1 = DOMAIN s /\ s1.bars = s.bars /\ s1.type = s.type

(* Nor is one that writes another field.                                   *)
LEMMA QueBars ==
  ASSUME NEW s, {"que", "got", "bars", "type"} \subseteq DOMAIN s, NEW s1, NEW x,
         \/ s1 = [s EXCEPT !.que = x] \/ s1 = [s EXCEPT !.got = x]
         \/ s1 = [s EXCEPT !.sets = x] \/ s1 = [s EXCEPT !.dim = x]
  PROVE  SameBars(s1, s)
  BY Zenon DEF SameBars

LEMMA TakeBars ==
  ASSUME NEW s, {"que", "got", "bars", "type"} \subseteq DOMAIN s, NEW c, NEW t
  PROVE  SameBars(Store(s, c, t).s, s) /\ SameBars(Take(s, c, t).s, s)
  <1>1. PICK q : Store(s, c, t).s = [s EXCEPT !.que = q]
    BY Zenon DEF Store, Done
  <1>2. Take(s, c, t).s = s \/ \E q1 : Take(s, c, t).s = [s EXCEPT !.que = q1]
    BY Zenon DEF Take, Done, Stalled
  <1>3. SameBars(s, s)
    BY Zenon DEF SameBars
  <1>4. SameBars(Store(s, c, t).s, s)
    BY Zenon, <1>1, QueBars
  <1> QED
    BY Zenon, <1>2, <1>3, <1>4, QueBars

(* An event other than a barrier leaves the barriers alone.                *)
LEMMA OthersBars ==
  ASSUME NEW s, {"que", "got", "bars", "type"} \subseteq DOMAIN s, NEW b, NEW e,
         e.op \in Ops \ {"MEMCPY", "BARRIER"}
  PROVE  SameBars(Handle(s, b, e).s, s)
  <1> DEFINE r == Handle(s, b, e)
  <1>0. SameBars(s, s)
    BY Zenon DEF SameBars
  <1>1. CASE e.op \in MemOps \/ e.op = "OTHER"
    <2>1. r.s = s
      BY Zenon, <1>1 DEF Handle, MemOps, Done
    <2> QED
      BY Zenon, <2>1, <1>0
  <1>2. CASE e.op \in {"SET_FLAG", "MSTX_SET", "RLS_BUF"}
    <2>1. \E c : r = Store(s, c, NoTime)
      BY Zenon, <1>2 DEF Handle, MemOps
    <2> QED
      BY Zenon, <2>1, TakeBars
  <1>3. CASE e.op \in {"WAIT_FLAG", "WAIT_FLAG_DEV", "WAIT_INTRA_BLOCK"}
    <2>1. \E c : r = Take(s, c, NoTime)
      BY ZenonT(30), <1>3 DEF Handle, MemOps, GetBlockSyncInfo, GetIntraBlockSyncInfo
    <2> QED
      BY Zenon, <2>1, TakeBars
  <1>4. CASE e.op = "IB_WAIT"
    <2>1. \E c : r = Take(s, c, NoTime)
      BY Zenon, <1>4 DEF Handle, MemOps, GetBlockSoftSyncInfo
    <2> QED
      BY Zenon, <2>1, TakeBars
  <1>5. CASE e.op = "IB_SET"
    <2>1. \E x : r.s = [s EXCEPT !.que = x]
      BY Zenon, <1>5 DEF Handle, MemOps, SetBlockSoftSyncInfo, Done
    <2> QED
      BY Zenon, <2>1, QueBars
  <1>6. CASE e.op = "FFTS_SYNC"
    <2> DEFINE s2 == SetVecSubBlockDim(s, e)
    <2>1. r = SetBlockSyncInfo(s2, e, b, NoTime)
      BY Zenon, <1>6 DEF Handle, MemOps
    <2>2. SameBars(s2, s)
      <3>1. s2 = s \/ \E x : s2 = [s EXCEPT !.dim = x]
        BY Zenon DEF SetVecSubBlockDim
      <3> HIDE DEF s2
      <3> QED
        BY Zenon, <3>1, <1>0, QueBars
    <2> HIDE DEF s2
    <2>3. \E x : SetBlockSyncInfo(s2, e, b, NoTime).s = [s2 EXCEPT !.que = x]
      BY Zenon DEF SetBlockSyncInfo, Done
    <2>4. {"que", "got", "bars", "type"} \subseteq DOMAIN s2
      BY Zenon, <2>2 DEF SameBars
    <2>5. SameBars(r.s, s2)
      BY Zenon, <2>1, <2>3, <2>4, QueBars
    <2> QED
      BY Zenon, <2>2, <2>5 DEF SameBars
  <1>7. CASE e.op = "MSTX_WAIT"
    <2> DEFINE k == Take(s, <<"mstx", e.key>>, NoTime)
    <2>1. r = GetMstxCrossInfo(s, e, NoTime)
      BY Zenon, <1>7 DEF Handle, MemOps
    <2>2. DOMAIN k = {"ok", "s", "t"}
      BY Zenon DEF Take, Done, Stalled
    <2>3. r.s = s \/ r.s = k.s \/ \E x : r.s = [k.s EXCEPT !.sets = x]
      <3>1. CASE Skipped(s, e)
        BY <3>1, <2>1 DEF GetMstxCrossInfo, Done
      <3>2. CASE ~Skipped(s, e) /\ k.ok
        <4>1. r = [k EXCEPT !.s.sets[e.key] = @ - 1]
          BY Zenon, <3>2, <2>1 DEF GetMstxCrossInfo
        <4> HIDE DEF k
        <4> QED
          BY Zenon, <4>1, <2>2
      <3>3. CASE ~Skipped(s, e) /\ ~k.ok
        BY Zenon, <3>3, <2>1 DEF GetMstxCrossInfo
      <3> QED
        BY Zenon, <3>1, <3>2, <3>3
    <2>4. SameBars(k.s, s)
      BY Zenon, TakeBars
    <2> HIDE DEF k, r
    <2>5. {"que", "got", "bars", "type"} \subseteq DOMAIN k.s
      BY Zenon, <2>4 DEF SameBars
    <2>6. ASSUME NEW x, r.s = [k.s EXCEPT !.sets = x] PROVE SameBars(r.s, s)
      <3>1. SameBars(r.s, k.s)
        BY Zenon, <2>5, <2>6, QueBars
      <3> QED
        BY Zenon, <3>1, <2>4 DEF SameBars
    <2> QED
      BY Zenon, <2>3, <2>4, <2>6, <1>0 DEF r
  <1>8. CASE e.op = "GET_BUF"
    <2>1. r.s = s \/ \E x : r.s = [s EXCEPT !.got = x]
      BY Zenon, <1>8 DEF Handle, MemOps, GetBuf, Done, Stalled
    <2> QED
      BY Zenon, <2>1, <1>0, QueBars
  <1> HIDE DEF r
  <1> QED
    BY SMTT(30), <1>1, <1>2, <1>3, <1>4, <1>5, <1>6, <1>7, <1>8 DEF Ops, MemOps, r

(* A worker that waits at the barrier of n workers passes when it is open, *)
(* or when the worker is the last to come; otherwise it is known to have   *)
(* come.  The last to pass closes the barrier.                             *)
LEMMA GateStep ==
  ASSUME NEW s, {"bars", "type"} \subseteq DOMAIN s, NEW n, NEW w, NEW t,
         {"open", "arrived"} \subseteq DOMAIN Gate(s, n)
  PROVE  LET r == BarrierWait(s, n, n, w, t)
             g == Gate(s, n)
             h == Gate(r.s, n)
             all == IF g.open THEN g.arrived ELSE g.arrived \cup {w}
         IN  /\ DOMAIN r.s = DOMAIN s /\ r.s.type = s.type /\ {"open", "arrived"} \subseteq DOMAIN h
             /\ r.ok => /\ w \in all /\ (~g.open => Cardinality(all) >= n)
                        /\ h.arrived = all \ {w} /\ (h.open <=> all \ {w} # {})
             /\ ~r.ok => (h.open <=> g.open) /\ h.arrived = all
  <1> DEFINE g == Gate(s, n)
             came == g.arrived \cup {w}
             bar  == IF g.open THEN g
                     ELSE [open |-> AllReach(came, n), arrived |-> came, time |-> BarrierTime(t, g)]
             left == bar.arrived \ {w}
             Put(x) == [c \in DOMAIN s.bars \cup {n} |-> IF c = n THEN x ELSE s.bars[c]]
             drop == [c \in DOMAIN s.bars \ {n} |-> s.bars[c]]
             half == [bar EXCEPT !.arrived = left]
             late == Join(bar.time, t)
             pass == bar.open /\ w \in bar.arrived
             all == IF g.open THEN g.arrived ELSE g.arrived \cup {w}
             r == BarrierWait(s, n, n, w, t)
             h == Gate(r.s, n)
  <1>1. r = IF pass THEN Done(IF left = {} THEN [s EXCEPT !.bars = drop] ELSE [s EXCEPT !.bars = Put(half)], late)
            ELSE Stalled([s EXCEPT !.bars = Put(bar)], t)
    BY Zenon DEF BarrierWait, Gate
  <1>2. bar.arrived = all
    BY Zenon
  <1>3. ~g.open => (bar.open <=> Cardinality(all) >= n)
    BY Zenon DEF AllReach
  <1>4. (g.open => bar = g) /\ {"open", "arrived"} \subseteq DOMAIN bar
    BY Zenon
  <1>5. w \in bar.arrived \/ bar.open
    BY Zenon
  <1>6. ASSUME NEW m, NEW s1, s1 = [s EXCEPT !.bars = m]
        PROVE  /\ DOMAIN s1 = DOMAIN s /\ s1.type = s.type
               /\ Gate(s1, n) = IF n \in DOMAIN m THEN m[n] ELSE [open |-> FALSE, arrived |-> {}]
    BY Zenon, <1>6 DEF Gate
  <1> HIDE DEF bar, all, r, g
  <1>7. CASE pass /\ left = {}
    <2>1. r.ok /\ r.s = [s EXCEPT !.bars = drop]
      BY Zenon, <1>1, <1>7 DEF Done
    <2>2. n \notin DOMAIN drop
      BY Zenon
    <2> HIDE DEF drop
    <2>3. h = [open |-> FALSE, arrived |-> {}] /\ DOMAIN r.s = DOMAIN s /\ r.s.type = s.type
      BY ZenonT(30), <2>1, <2>2, <1>6
    <2>4. ~h.open /\ h.arrived = {} /\ {"open", "arrived"} \subseteq DOMAIN h
      BY SMTT(30), <2>3
    <2> QED
      BY SMTT(30), <2>1, <2>3, <2>4, <1>2, <1>3, <1>7 DEF r, g, all
  <1>8. CASE pass /\ left # {}
    <2> DEFINE m == Put(half)
    <2>1. r.ok /\ r.s = [s EXCEPT !.bars = m]
      BY Zenon, <1>1, <1>8 DEF Done
    <2>2. n \in DOMAIN m /\ m[n] = half
      BY Zenon
    <2>3. half.arrived = left /\ half.open = bar.open /\ DOMAIN half = DOMAIN bar
      BY Zenon, <1>4
    <2> HIDE DEF Put, half, m
    <2>4. h = half /\ DOMAIN r.s = DOMAIN s /\ r.s.type = s.type
      BY ZenonT(30), <2>1, <2>2, <1>6
    <2> QED
      BY ZenonT(30), <2>1, <2>3, <2>4, <1>2, <1>3, <1>4, <1>8 DEF r, g, all
  <1>9. CASE ~pass
    <2> DEFINE m == Put(bar)
    <2>1. ~r.ok /\ r.s = [s EXCEPT !.bars = m]
      BY Zenon, <1>1, <1>9 DEF Stalled
    <2>2. n \in DOMAIN m /\ m[n] = bar
      BY Zenon
    <2> HIDE DEF Put, m
    <2>3. h = bar /\ DOMAIN r.s = DOMAIN s /\ r.s.type = s.type
      BY ZenonT(30), <2>1, <2>2, <1>6
    <2>4. bar.open <=> g.open
      BY Zenon, <1>5, <1>9, <1>4 DEF g, bar
    <2> QED
      BY SMTT(30), <2>1, <2>3, <2>4, <1>2, <1>4 DEF r, g, all
  <1> QED
    BY Zenon, <1>7, <1>8, <1>9 DEF r, g, all

(* What was counted stays counted while no barrier runs.                   *)
LEMMA BarKeeps ==
  ASSUME BarInv, kernelInfo' = kernelInfo, BarEvents', \A b \in Blocks : RanBar(b)' = RanBar(b),
         SameBars(state', state), \A b \in Gate(state, kernelInfo.num).arrived : AtBarrier(b)'
  PROVE  BarInv'
  <1> DEFINE g == Gate(state, kernelInfo.num)
  <1>1. Gate(state, kernelInfo.num)' = g /\ Blocks' = Blocks
    BY Zenon DEF Gate, SameBars, Blocks
  <1>2. /\ g.arrived \subseteq Blocks /\ {"open", "arrived"} \subseteq DOMAIN g
        /\ {"bars", "type"} \subseteq DOMAIN state /\ state.type = kernelInfo.type
    BY Zenon DEF BarInv, GateInv
  <1>3. PICK k \in Nat : \A b \in Blocks :
          Cardinality(RanBar(b)) = IF g.open /\ b \notin g.arrived THEN k + 1 ELSE k
    BY Zenon DEF BarInv, GateInv
  <1> HIDE DEF g
  <1>4. \A b \in Blocks : Cardinality(RanBar(b)') = IF g.open /\ b \notin g.arrived THEN k + 1 ELSE k
    BY Zenon, <1>3
  <1>5. GateInv'
    <2>1. \E j \in Nat : \A b \in Blocks :
            Cardinality(RanBar(b)') = IF g.open /\ b \notin g.arrived THEN j + 1 ELSE j
      BY Zenon, <1>4
    <2> QED
      BY ZenonT(30), <2>1, <1>1, <1>2 DEF GateInv, g
  <1>6. /\ {"bars", "type"} \subseteq DOMAIN state' /\ state'.type = kernelInfo'.type
        /\ {"open", "arrived"} \subseteq DOMAIN Gate(state, kernelInfo.num)'
    BY Zenon, <1>1, <1>2 DEF SameBars
  <1> QED
    BY Zenon, <1>5, <1>6 DEF BarInv

(* A barrier is met in the queue of PIPE_S.                                *)
LEMMA HeadBarrier ==
  ASSUME LineInv, BarInv, pipeState = "PROCESS_EVENT", Head(ques[Cur]).op = "BARRIER"
  PROVE  LET n == kernelInfo.num
         IN  /\ Cur = <<0, blockIndex, PIPE_S>> /\ AtBarrier(blockIndex)
             /\ Handle(state, blockIndex, Head(ques[Cur])) = BarrierWait(state, n, n, blockIndex, NoTime)
  <1> DEFINE h == Head(ques[Cur])
  <1>1. /\ Cur = <<0, blockIndex, pipeIndex>> /\ blockIndex \in Blocks /\ pipeIndex \in Pipes /\ ques[Cur] # <<>>
        /\ 1 \in DOMAIN ques[Cur] /\ h = ques[Cur][1] /\ h \in Events(blockIndex)
    BY Zenon, HeadFacts DEF Cur, LineInv, Types
  <1>2. h.pipe = PIPE_S /\ h.used = kernelInfo.num /\ state.type # "MIX"
    BY Zenon, <1>1 DEF BarInv, BarEvents
  <1>3. pipeIndex = PIPE_S
    <2> SUFFICES ASSUME pipeIndex # PIPE_S PROVE FALSE
      BY Zenon
    <2>1. \A i \in DOMAIN ques[<<0, blockIndex, pipeIndex>>] : ques[<<0, blockIndex, pipeIndex>>][i].pipe = pipeIndex
      BY <1>1 DEF LineInv, PipeInv
    <2> QED
      BY Zenon, <2>1, <1>1, <1>2
  <1>4. AtBarrier(blockIndex)
    BY Zenon, <1>1, <1>3 DEF AtBarrier
  <1>5. Handle(state, blockIndex, h) = BarrierWait(state, kernelInfo.num, kernelInfo.num, blockIndex, NoTime)
    BY Zenon, <1>2 DEF Handle, MemOps, CoreId
  <1> QED
    BY ZenonT(30), <1>1, <1>3, <1>4, <1>5

(* A worker comes to the barrier and waits.                                *)
LEMMA BarWaits ==
  ASSUME LineInv, BarInv, pipeState = "PROCESS_EVENT", UNCHANGED own, ques' = ques,
         Head(ques[Cur]).op = "BARRIER", ~Handle(state, blockIndex, Head(ques[Cur])).ok,
         state' = Handle(state, blockIndex, Head(ques[Cur])).s
  PROVE  BarInv'
  <1> DEFINE n == kernelInfo.num
             g == Gate(state, n)
             h == Gate(state', n)
  <1>1. /\ kernelInfo' = kernelInfo /\ Blocks' = Blocks /\ blockIndex \in Blocks
        /\ \A b : AtBarrier(b)' = AtBarrier(b)
    BY Zenon DEF own, Blocks, AtBarrier, LineInv, Types
  <1>2. \A b \in Blocks : RanBar(b)' = RanBar(b) /\ Events(b)' = Events(b)
    <2>1. Waiting' = Waiting /\ \A b : Events(b)' = Events(b)
      BY Zenon DEF own, Waiting, Queues, Events
    <2> QED
      BY Zenon, <2>1 DEF RanBar, Executed
  <1>3. AtBarrier(blockIndex) /\ state' = BarrierWait(state, n, n, blockIndex, NoTime).s
        /\ ~BarrierWait(state, n, n, blockIndex, NoTime).ok
    BY Zenon, HeadBarrier
  <1>4. /\ {"bars", "type"} \subseteq DOMAIN state /\ {"open", "arrived"} \subseteq DOMAIN g
        /\ g.arrived \subseteq Blocks /\ (\A b \in g.arrived : AtBarrier(b)) /\ state.type = kernelInfo.type
    BY ZenonT(30) DEF BarInv, GateInv
  <1>5. /\ DOMAIN state' = DOMAIN state /\ state'.type = state.type /\ {"open", "arrived"} \subseteq DOMAIN h
        /\ (h.open <=> g.open) /\ h.arrived = IF g.open THEN g.arrived ELSE g.arrived \cup {blockIndex}
    <2> DEFINE r == BarrierWait(state, n, n, blockIndex, NoTime)
               a == IF g.open THEN g.arrived ELSE g.arrived \cup {blockIndex}
    <2>1. /\ DOMAIN r.s = DOMAIN state /\ r.s.type = state.type /\ {"open", "arrived"} \subseteq DOMAIN Gate(r.s, n)
          /\ r.ok => /\ blockIndex \in a /\ (~g.open => Cardinality(a) >= n)
                     /\ Gate(r.s, n).arrived = a \ {blockIndex} /\ (Gate(r.s, n).open <=> a \ {blockIndex} # {})
          /\ ~r.ok => (Gate(r.s, n).open <=> g.open) /\ Gate(r.s, n).arrived = a
      BY ZenonT(30), <1>4, GateStep
    <2>2. state' = r.s /\ ~r.ok
      BY Zenon, <1>3
    <2> HIDE DEF r
    <2> QED
      BY SMTT(30), <2>1, <2>2
  <1>6. PICK k \in Nat : \A b \in Blocks :
          Cardinality(RanBar(b)) = IF g.open /\ b \notin g.arrived THEN k + 1 ELSE k
    BY Zenon DEF BarInv, GateInv
  <1>7. Gate(state, kernelInfo.num)' = h
    BY Zenon, <1>1 DEF Gate
  <1> HIDE DEF g, h
  <1>8. h.arrived \subseteq Blocks /\ \A b \in h.arrived : AtBarrier(b)'
    BY ZenonT(30), <1>1, <1>3, <1>4, <1>5
  <1>9. \A b \in Blocks : Cardinality(RanBar(b)') = IF h.open /\ b \notin h.arrived THEN k + 1 ELSE k
    <2>1. \A b : (h.open /\ b \notin h.arrived) <=> (g.open /\ b \notin g.arrived)
      BY Zenon, <1>5
    <2> QED
      BY ZenonT(30), <2>1, <1>2, <1>6
  <1>10. \E j \in Nat : \A b \in Blocks : Cardinality(RanBar(b)') = IF h.open /\ b \notin h.arrived THEN j + 1 ELSE j
    BY Zenon, <1>9
  <1>11. GateInv'
    BY ZenonT(30), <1>1, <1>7, <1>8, <1>10 DEF GateInv
  <1>12. BarEvents'
    BY Zenon, <1>1, <1>2 DEF BarInv, BarEvents, PIPE_S
  <1> QED
    BY ZenonT(30), <1>1, <1>4, <1>5, <1>7, <1>11, <1>12 DEF BarInv

(* The last worker to come opens the barrier, and each passes once.        *)
LEMMA BarPasses ==
  ASSUME LineInv, BufInv, BarInv, pipeState = "PROCESS_EVENT", UNCHANGED own,
         Head(ques[Cur]).op = "BARRIER", Handle(state, blockIndex, Head(ques[Cur])).ok,
         state' = Handle(state, blockIndex, Head(ques[Cur])).s, Queues' = Queues,
         Waiting' = Waiting \ {Head(ques[Cur])},
         ques' = [x \in Queues |-> IF x = Cur THEN Tail(ques[x]) ELSE ques[x]]
  PROVE  BarInv'
  <1> DEFINE n == kernelInfo.num
             g == Gate(state, n)
             h == Gate(state', n)
             e == Head(ques[Cur])
  <1>0. PICK me \in Blocks : me = blockIndex
    BY Zenon DEF LineInv, Types
  <1> DEFINE all == IF g.open THEN g.arrived ELSE g.arrived \cup {me}
  <1>1. /\ kernelInfo' = kernelInfo /\ Blocks' = Blocks
        /\ \A b \in Blocks : Events(b)' = Events(b)
    BY Zenon DEF own, Blocks, Events
  <1>2. Cur = <<0, me, PIPE_S>> /\ state' = BarrierWait(state, n, n, me, NoTime).s
        /\ BarrierWait(state, n, n, me, NoTime).ok
    BY Zenon, <1>0, HeadBarrier
  <1>3. e \in Events(me) /\ e \in Waiting /\ e.block = me
    BY Zenon, <1>0, HeadFacts
  <1>4. /\ {"bars", "type"} \subseteq DOMAIN state /\ {"open", "arrived"} \subseteq DOMAIN g
        /\ g.arrived \subseteq Blocks /\ (\A b \in g.arrived : AtBarrier(b)) /\ state.type = kernelInfo.type
    BY Zenon DEF BarInv, GateInv
  <1>5. /\ DOMAIN state' = DOMAIN state /\ state'.type = state.type /\ {"open", "arrived"} \subseteq DOMAIN h
        /\ me \in all /\ (~g.open => Cardinality(all) >= n)
        /\ h.arrived = all \ {me} /\ (h.open <=> all \ {me} # {})
    <2> DEFINE r == BarrierWait(state, n, n, me, NoTime)
               a == IF g.open THEN g.arrived ELSE g.arrived \cup {me}
    <2>1. /\ DOMAIN r.s = DOMAIN state /\ r.s.type = state.type /\ {"open", "arrived"} \subseteq DOMAIN Gate(r.s, n)
          /\ r.ok => /\ me \in a /\ (~g.open => Cardinality(a) >= n)
                     /\ Gate(r.s, n).arrived = a \ {me} /\ (Gate(r.s, n).open <=> a \ {me} # {})
          /\ ~r.ok => (Gate(r.s, n).open <=> g.open) /\ Gate(r.s, n).arrived = a
      BY ZenonT(30), <1>4, GateStep
    <2> HIDE DEF r
    <2> QED
      BY ZenonT(30), <2>1, <1>2 DEF r
  <1>6. PICK k \in Nat : \A b \in Blocks :
          Cardinality(RanBar(b)) = IF g.open /\ b \notin g.arrived THEN k + 1 ELSE k
    BY Zenon DEF BarInv, GateInv
  <1>7. Gate(state, kernelInfo.num)' = h
    BY Zenon, <1>1 DEF Gate
  <1>8. Cardinality(RanBar(me)') = Cardinality(RanBar(me)) + 1
    <2>1. RanBar(me)' = RanBar(me) \cup {e} /\ e \notin RanBar(me)
      <3>1. RanBar(me)' = {f \in Events(me) : f \notin Waiting \ {e} /\ f.op = "BARRIER"}
        BY Zenon, <1>1 DEF RanBar, Executed
      <3>2. RanBar(me) = {f \in Events(me) : f \notin Waiting /\ f.op = "BARRIER"}
        BY Zenon DEF RanBar, Executed
      <3> HIDE DEF e
      <3> QED
        BY SMTT(30), <3>1, <3>2, <1>3 DEF e
    <2>2. IsFiniteSet(RanBar(me))
      <3>1. IsFiniteSet(Events(me)) /\ RanBar(me) \subseteq Events(me)
        BY Zenon, <1>1 DEF BufInv, RanBar
      <3> QED
        BY ZenonT(30), <3>1, FS_Subset
    <2> QED
      BY ZenonT(30), <2>1, <2>2, FS_AddElement
  <1>9. \A b \in Blocks \ {me} : RanBar(b)' = RanBar(b)
    <2>1. \A b \in Blocks : \A f \in Events(b) : f.block = b
      BY Zenon, EventFacts
    <2> SUFFICES ASSUME NEW b \in Blocks \ {me} PROVE RanBar(b)' = RanBar(b)
      BY Zenon
    <2>2. e \notin Events(b)
      BY ZenonT(30), <2>1, <1>3
    <2>3. RanBar(b)' = {f \in Events(b) : f \notin Waiting \ {e} /\ f.op = "BARRIER"}
      BY Zenon, <1>1 DEF RanBar, Executed
    <2>4. RanBar(b) = {f \in Events(b) : f \notin Waiting /\ f.op = "BARRIER"}
      BY Zenon DEF RanBar, Executed
    <2> HIDE DEF e
    <2> QED
      BY SMTT(30), <2>2, <2>3, <2>4
  <1>10. \A b \in Blocks \ {me} : AtBarrier(b)' = AtBarrier(b)
    <2> SUFFICES ASSUME NEW b \in Blocks \ {me} PROVE AtBarrier(b)' = AtBarrier(b)
      BY Zenon
    <2>1. <<0, b, PIPE_S>> \in Queues /\ <<0, b, PIPE_S>> # Cur
      BY SMTT(30), <1>2, QueueFacts
    <2>2. ques'[<<0, b, PIPE_S>>] = ques[<<0, b, PIPE_S>>]
      BY Zenon, <2>1
    <2> QED
      BY Zenon, <2>2 DEF AtBarrier, PIPE_S
  <1>11. all \subseteq Blocks /\ (~g.open => all = Blocks)
    <2>1. all \subseteq Blocks
      BY ZenonT(30), <1>1, <1>4
    <2>2. IsFiniteSet(Blocks) /\ Cardinality(Blocks) = n
      <3>1. kernelInfo.num \in Nat \ {0}
        BY ZenonT(30), ReplayAssumption DEF LineInv, Types
      <3>2. 0 \in Int /\ kernelInfo.num - 1 \in Int /\ ~(0 > kernelInfo.num - 1) /\ (kernelInfo.num - 1) - 0 + 1 = kernelInfo.num
        BY SMTT(30), <3>1
      <3>3. IsFiniteSet(0..(kernelInfo.num - 1)) /\ Cardinality(0..(kernelInfo.num - 1)) = kernelInfo.num
        BY ZenonT(30), <3>2, FS_Interval
      <3> QED
        BY Zenon, <3>3 DEF Blocks
    <2>3. ASSUME ~g.open PROVE all = Blocks
      <3>1. Cardinality(all) >= Cardinality(Blocks)
        BY ZenonT(30), <2>3, <2>2, <1>5
      <3>2. /\ Cardinality(all) <= Cardinality(Blocks) /\ (Cardinality(Blocks) = Cardinality(all) => Blocks = all)
            /\ Cardinality(all) \in Nat /\ Cardinality(Blocks) \in Nat
        BY ZenonT(30), <2>1, <2>2, FS_Subset, FS_CardinalityType
      <3> HIDE DEF all
      <3> QED
        BY SMTT(30), <3>1, <3>2
    <2> QED
      BY ZenonT(30), <2>1, <2>3
  <1> HIDE DEF g, h, e, n
  <1>12. h.arrived \subseteq Blocks /\ \A b \in h.arrived : AtBarrier(b)'
    BY Zenon, <1>4, <1>5, <1>10, <1>11
  <1>13. \E j \in Nat : \A b \in Blocks : Cardinality(RanBar(b)') = IF h.open /\ b \notin h.arrived THEN j + 1 ELSE j
    <2>1. \A b \in Blocks : Cardinality(RanBar(b)') = IF b \in all \ {me} THEN k ELSE k + 1
      <3> SUFFICES ASSUME NEW b \in Blocks PROVE Cardinality(RanBar(b)') = IF b \in all \ {me} THEN k ELSE k + 1
        BY Zenon
      <3>1. CASE b = me
        <4>1. ~(g.open /\ me \notin g.arrived)
          BY Zenon, <1>5
        <4>2. Cardinality(RanBar(me)) = k
          BY ZenonT(30), <4>1, <1>6
        <4> QED
          BY ZenonT(30), <3>1, <4>2, <1>8
      <3>2. CASE b # me
        <4>1. (g.open /\ b \notin g.arrived) <=> b \notin all
          BY ZenonT(30), <3>2, <1>11
        <4> QED
          BY ZenonT(30), <3>2, <4>1, <1>6, <1>9
      <3> QED
        BY ZenonT(30), <3>1, <3>2
    <2> HIDE DEF all
    <2>2. CASE h.open
      <3>1. \A b \in Blocks : Cardinality(RanBar(b)') = IF h.open /\ b \notin h.arrived THEN k + 1 ELSE k
        BY ZenonT(30), <2>1, <2>2, <1>5
      <3> QED
        BY Zenon, <3>1
    <2>3. CASE ~h.open
      <3>1. \A b \in Blocks : Cardinality(RanBar(b)') = k + 1
        BY ZenonT(30), <2>1, <2>3, <1>5
      <3>2. k + 1 \in Nat
        OBVIOUS
      <3> QED
        BY ZenonT(30), <2>3, <3>1, <3>2
    <2> QED
      BY Zenon, <2>2, <2>3
  <1>14. GateInv'
    BY ZenonT(30), <1>1, <1>7, <1>12, <1>13 DEF GateInv
  <1>15. BarEvents'
    BY Zenon, <1>1 DEF BarInv, BarEvents, PIPE_S
  <1> QED
    BY ZenonT(30), <1>1, <1>4, <1>5, <1>7, <1>14, <1>15 DEF BarInv

(* A block that has come and waits stays at its barrier while another      *)
(* event leaves its queue.                                                 *)
LEMMA StaysAtBarrier ==
  ASSUME LineInv, BarInv, Head(ques[Cur]).op # "BARRIER", Cur = <<0, blockIndex, pipeIndex>>,
         \A q \in Queues : q[3] = PIPE_S /\ q # Cur => ques'[q] = ques[q]
  PROVE  \A b \in Gate(state, kernelInfo.num).arrived : AtBarrier(b)'
  <1> SUFFICES ASSUME NEW b \in Blocks, AtBarrier(b) PROVE AtBarrier(b)'
    BY Zenon DEF BarInv, GateInv
  <1> DEFINE q == <<0, b, PIPE_S>>
  <1>1. q \in Queues /\ q[3] = PIPE_S
    BY Zenon, QueueFacts
  <1>2. q # Cur
    BY Zenon DEF AtBarrier
  <1>3. ques'[q] = ques[q]
    BY Zenon, <1>1, <1>2
  <1> QED
    BY Zenon, <1>3 DEF AtBarrier, PIPE_S

(* A step of the loop keeps the barriers in step.                          *)
LEMMA BarRun ==
  ASSUME LineInv, BufInv, BarInv, Run, UNCHANGED own
  PROVE  BarInv'
  <1> DEFINE h == Head(ques[Cur])
             r == Handle(state, blockIndex, h)
             to == <<0, blockIndex, h.pipe>>
  <1>1. kernelInfo' = kernelInfo /\ Blocks' = Blocks /\ Queues' = Queues /\ \A b \in Blocks : Events(b)' = Events(b)
    BY Zenon DEF own, Blocks, Queues, Events
  <1>2. ques' = ques => Waiting' = Waiting /\ \A b : AtBarrier(b)' = AtBarrier(b)
    BY Zenon, <1>1 DEF Waiting, AtBarrier
  <1>3. BarEvents'
    BY Zenon, <1>1 DEF BarInv, BarEvents, PIPE_S
  <1>4. Waiting' = Waiting => \A b \in Blocks : RanBar(b)' = RanBar(b)
    BY Zenon, <1>1 DEF RanBar, Executed
  <1>5. \A b \in Gate(state, kernelInfo.num).arrived : AtBarrier(b)
    BY Zenon DEF BarInv, GateInv
  <1>6. {"que", "got", "bars", "type"} \subseteq DOMAIN state
    BY Zenon DEF LineInv, Types, BarInv
  <1>7. CASE UNCHANGED <<ques, state>>
    <2>1. SameBars(state', state)
      BY Zenon, <1>7 DEF SameBars
    <2> QED
      BY ZenonT(30), <2>1, <1>1, <1>2, <1>3, <1>4, <1>5, <1>7, BarKeeps
  <1>8. CASE ProcessStalled
    <2>1. ques' = ques /\ pipeState = "PROCESS_EVENT"
      BY Zenon, <1>8 DEF ProcessStalled
    <2>2. ~r.ok /\ state' = r.s
      BY Zenon, <1>8, StallFacts
    <2>3. CASE h.op = "BARRIER"
      BY ZenonT(30), <2>1, <2>2, <2>3, BarWaits
    <2>4. CASE h.op # "BARRIER"
      <3>1. h.op \in Ops \ {"MEMCPY", "BARRIER"}
        BY ZenonT(30), <2>1, <2>4, HeadFacts
      <3>2. SameBars(state', state)
        BY ZenonT(30), <3>1, <2>2, <1>6, OthersBars
      <3> QED
        BY ZenonT(30), <3>2, <2>1, <1>1, <1>2, <1>3, <1>4, <1>5, BarKeeps
    <2> QED
      BY Zenon, <2>3, <2>4
  <1>9. CASE ProcessOk
    <2>1. PICK S : ques \in [Queues -> Seq(S)]
      BY Zenon DEF LineInv, Types, SeqTypes
    <2>2. pipeState = "PROCESS_EVENT"
      BY Zenon, <1>9 DEF ProcessOk
    <2>3. Cur \in Queues /\ Cur = <<0, blockIndex, pipeIndex>> /\ ques[Cur] # <<>> /\ h = ques[Cur][1]
      BY ZenonT(30), <1>9, PopFacts
    <2>4. /\ blockIndex \in Blocks /\ h \in Events(blockIndex) /\ h \in Waiting /\ h.op \in Ops \ {"MEMCPY"}
      BY Zenon, <2>2, HeadFacts
    <2>5. CASE /\ to \in Queues /\ to # Cur /\ h.pipe # PIPE_S
               /\ ques' = [x \in Queues |-> IF x = to THEN Append(ques[x], h)
                                            ELSE IF x = Cur THEN Tail(ques[x]) ELSE ques[x]]
               /\ state' = state
      <3>1. h.op # "BARRIER" /\ to[3] # PIPE_S
        BY Zenon, <2>4, <2>5 DEF BarInv, BarEvents
      <3> HIDE DEF h, to
      <3>2. Waiting' = Waiting
        BY ZenonT(30), <2>1, <2>3, <2>5, <1>1, WaitingMoved
      <3>3. \A b \in Gate(state, kernelInfo.num).arrived : AtBarrier(b)'
        <4>1. \A q \in Queues : q[3] = PIPE_S /\ q # Cur => ques'[q] = ques[q]
          BY Zenon, <3>1, <2>5
        <4> QED
          BY ZenonT(30), <4>1, <3>1, <2>3, StaysAtBarrier DEF h
      <3>4. SameBars(state', state)
        BY ZenonT(30), <2>5 DEF SameBars
      <3> QED
        BY ZenonT(30), <3>2, <3>3, <3>4, <1>1, <1>3, <1>4, BarKeeps
    <2>6. CASE /\ ques' = [x \in Queues |-> IF x = Cur THEN Tail(ques[x]) ELSE ques[x]]
               /\ r.ok /\ state' = r.s
      <3>1. Waiting' = Waiting \ {h}
        <4> HIDE DEF h, r
        <4> QED
          BY ZenonT(30), <2>3, <2>6, <1>1, WaitingGone
      <3>2. CASE h.op = "BARRIER"
        BY ZenonT(30), <3>1, <3>2, <2>2, <2>6, <1>1, BarPasses
      <3>3. CASE h.op # "BARRIER"
        <4>1. SameBars(state', state)
          <5>1. h.op \in Ops \ {"MEMCPY", "BARRIER"}
            BY ZenonT(30), <2>4, <3>3
          <5> QED
            BY ZenonT(30), <5>1, <2>6, <1>6, OthersBars
        <4>2. \A b \in Gate(state, kernelInfo.num).arrived : AtBarrier(b)'
          <5>1. \A q \in Queues : q[3] = PIPE_S /\ q # Cur => ques'[q] = ques[q]
            BY Zenon, <2>6
          <5> QED
            BY ZenonT(30), <5>1, <3>3, <2>3, StaysAtBarrier
        <4>3. \A b \in Blocks : RanBar(b)' = RanBar(b)
          <5> HIDE DEF h
          <5> QED
            BY ZenonT(30), <3>1, <3>3, <1>1 DEF RanBar, Executed
        <4> QED
          BY ZenonT(30), <4>1, <4>2, <4>3, <1>1, <1>3, BarKeeps
      <3> QED
        BY Zenon, <3>2, <3>3
    <2> QED
      BY ZenonT(30), <2>5, <2>6, <1>9, PopFacts
  <1>10. UNCHANGED <<ques, state>> \/ ProcessOk \/ ProcessStalled
    BY Zenon DEF Run, CheckAllDevice, StayOnDevice, NextDevice, GiveUp, StayOnBlock, NextBlock, SkipPipe, EnterPipe
  <1> QED
    BY ZenonT(30), <1>7, <1>8, <1>9, <1>10

(* The barriers of a kernel of AllWait are of all its blocks.              *)
LEMMA StampBarrier ==
  ASSUME LineInv, AllWait, NEW b \in Blocks, NEW e \in Shapes(kernelInfo, b),
         NEW x \in Range(Stamp(b, e)), x.op = "BARRIER"
  PROVE  x.pipe = PIPE_S /\ x.used = kernelInfo.num /\ kernelInfo.type # "MIX"
  <1> DEFINE ev == Over([block |-> b, no |-> Len(program[b]) + 1], e)
             st == Stamp(b, e)
  <1>0. PICK i \in DOMAIN st : x = st[i]
    BY Zenon DEF Range
  <1>1. /\ {"op", "pipe"} \subseteq DOMAIN e
        /\ e.op = "BARRIER" => kernelInfo.type # "MIX" /\ e.pipe = PIPE_S /\ "used" \in DOMAIN e /\ e.used = kernelInfo.num
    <2>1. kernelInfo \in Kernels
      BY Zenon DEF LineInv, Types
    <2> QED
      BY ZenonT(30), <2>1, ShapesAssumption DEF Blocks, AllWait
  <1>2. \A f \in DOMAIN e \ {"block", "no"} : f \in DOMAIN ev /\ ev[f] = e[f]
    BY Zenon DEF Over
  <1>3. ev.op = e.op /\ "op" \in DOMAIN ev /\ ev.pipe = e.pipe /\ (e.op = "BARRIER" => ev.used = e.used)
    BY Zenon, <1>1, <1>2
  <1> HIDE DEF ev
  <1>4. CASE e.op = "GET_BUF"
    <2> DEFINE g == Over([rls |-> Releases(b, e)], ev)
    <2>1. st = <<g>>
      BY Zenon, <1>4 DEF Stamp, ev
    <2>2. g.op = "GET_BUF"
      BY Zenon, <1>3, <1>4 DEF Over
    <2> HIDE DEF g, st
    <2>3. x = g
      BY SMTT(30), <2>1, <1>0
    <2> QED
      BY ZenonT(30), <2>2, <2>3
  <1>5. CASE e.op = "MEMCPY"
    <2> DEFINE y == [ev EXCEPT !.op = "READ"]
               z == [ev EXCEPT !.op = "WRITE", !.no = @ + 1]
    <2>1. st = <<y, z>>
      BY Zenon, <1>5 DEF Stamp, ev
    <2>2. y.op = "READ" /\ z.op = "WRITE"
      BY Zenon, <1>3
    <2> HIDE DEF y, z, st
    <2>3. x = y \/ x = z
      BY SMTT(30), <2>1, <1>0
    <2> QED
      BY Zenon, <2>2, <2>3
  <1>6. CASE e.op \notin {"GET_BUF", "MEMCPY"}
    <2>1. st = <<ev>>
      BY Zenon, <1>6 DEF Stamp, ev
    <2> HIDE DEF st
    <2>2. x = ev
      BY SMTT(30), <2>1, <1>0
    <2> QED
      BY ZenonT(30), <2>2, <1>1, <1>3
  <1> QED
    BY ZenonT(30), <1>4, <1>5, <1>6

(* New events run nothing, and a block at a barrier stays there.           *)
LEMMA BarCollect ==
  ASSUME LineInv, BarInv, AllWait, NEW b \in Blocks, NEW e \in Shapes(kernelInfo, b), Collect(b, e)
  PROVE  BarInv'
  <1> DEFINE st == Stamp(b, e)
             New == Range(st)
             here == <<0, b, PIPE_S>>
  <1>1. /\ Blocks' = Blocks /\ Queues' = Queues
        /\ Events(b)' = Events(b) \cup New /\ \A c \in Blocks \ {b} : Events(c)' = Events(c)
        /\ Waiting' = Waiting \cup New
        /\ \A c \in Blocks : \A f \in Events(c) : f \notin New
    BY Zenon, CollectFacts
  <1>2. kernelInfo' = kernelInfo /\ ques' = [ques EXCEPT ![here] = @ \o st]
    BY Zenon DEF Collect
  <1>3. BarEvents'
    <2> SUFFICES ASSUME NEW c \in Blocks, NEW f \in Events(c)', f.op = "BARRIER"
                 PROVE  f.pipe = PIPE_S /\ f.used = kernelInfo.num /\ kernelInfo.type # "MIX"
      BY ZenonT(30), <1>1, <1>2 DEF BarEvents, PIPE_S
    <2>1. CASE f \in Events(c)
      BY Zenon, <2>1 DEF BarInv, BarEvents
    <2>2. CASE f \notin Events(c)
      <3>1. f \in New
        BY Zenon, <2>2, <1>1
      <3> QED
        BY ZenonT(30), <3>1, StampBarrier
    <2> QED
      BY ZenonT(30), <2>1, <2>2
  <1>4. SameBars(state', state)
    <2>1. state' = state \/ \E x : state' = [state EXCEPT !.sets = x]
      BY Zenon DEF Collect, CacheMstxCrossSet
    <2>2. {"que", "got", "bars", "type"} \subseteq DOMAIN state
      BY Zenon DEF LineInv, Types, BarInv
    <2> QED
      BY ZenonT(30), <2>1, <2>2, QueBars DEF SameBars
  <1>5. \A c \in Blocks : RanBar(c)' = RanBar(c)
    <2> HIDE DEF New
    <2> SUFFICES ASSUME NEW c \in Blocks PROVE RanBar(c)' = RanBar(c)
      BY Zenon
    <2>1. RanBar(c)' = {f \in Events(c)' : f \notin Waiting' /\ f.op = "BARRIER"}
      BY Zenon DEF RanBar, Executed
    <2>2. RanBar(c) = {f \in Events(c) : f \notin Waiting /\ f.op = "BARRIER"}
      BY Zenon DEF RanBar, Executed
    <2> QED
      BY SMTT(30), <2>1, <2>2, <1>1
  <1>6. \A c \in Gate(state, kernelInfo.num).arrived : AtBarrier(c)'
    <2> SUFFICES ASSUME NEW c \in Blocks, AtBarrier(c) PROVE AtBarrier(c)'
      BY Zenon DEF BarInv, GateInv
    <2> DEFINE q == <<0, c, PIPE_S>>
    <2>1. PICK R : ques \in [Queues -> Seq(R)]
      BY Zenon DEF LineInv, Types, SeqTypes
    <2>2. PICK T : st \in Seq(T)
      BY Zenon, StampFacts
    <2>3. q \in Queues /\ ques[q] # <<>>
      BY Zenon, QueueFacts DEF AtBarrier
    <2>4. ques'[q] = ques[q] \/ ques'[q] = ques[q] \o st
      BY ZenonT(30), <2>1, <2>3, <1>2
    <2>5. ques[q] \in Seq(R)
      BY ZenonT(30), <2>1, <2>3
    <2> HIDE DEF q, st
    <2>6. ques'[q] # <<>> /\ Head(ques'[q]) = Head(ques[q])
      <3>1. ASSUME NEW s \in Seq(R), s # <<>> PROVE s \o st # <<>> /\ Head(s \o st) = Head(s)
        BY SMTT(30), <3>1, <2>2
      <3> QED
        BY ZenonT(30), <3>1, <2>3, <2>4, <2>5
    <2> QED
      BY Zenon, <2>6 DEF AtBarrier, PIPE_S, q
  <1> QED
    BY ZenonT(30), <1>2, <1>3, <1>4, <1>5, <1>6, BarKeeps

(* A kernel that has just been announced has met no barrier.               *)
LEMMA FreshBar == Fresh => BarInv
  <1> SUFFICES ASSUME Fresh PROVE BarInv
    BY Zenon
  <1>1. \A b \in Blocks : Events(b) = {}
    <2>1. \A b \in Blocks : program[b] = <<>>
      BY Zenon DEF Fresh
    <2> QED
      BY SMTT(30), <2>1 DEF Events, Range
  <1>2. \A b \in Blocks : RanBar(b) = {}
    BY Zenon, <1>1 DEF RanBar
  <1>3. /\ state.bars = Nothing /\ state.type = kernelInfo.type
        /\ {"bars", "type"} \subseteq DOMAIN state
    BY Zenon DEF Fresh, EmptySync
  <1>4. Gate(state, kernelInfo.num) = [open |-> FALSE, arrived |-> {}]
    BY Zenon, <1>3 DEF Gate, Nothing
  <1>5. Cardinality({}) = 0 /\ 0 \in Nat
    BY Zenon, FS_EmptySet
  <1>6. GateInv
    <2>1. \A b \in Blocks : Cardinality(RanBar(b)) = 0
      BY Zenon, <1>2, <1>5
    <2> QED
      BY SMTT(30), <2>1, <1>4, <1>5 DEF GateInv
  <1>7. BarEvents
    BY Zenon, <1>1 DEF BarEvents
  <1>8. {"open", "arrived"} \subseteq DOMAIN Gate(state, kernelInfo.num)
    BY Zenon, <1>4
  <1> QED
    BY ZenonT(30), <1>3, <1>6, <1>7, <1>8 DEF BarInv

(* The barriers stay in step, in every kernel of AllWait.                  *)
THEOREM BarInvariance == AllWait => (Spec => []BarInv)
  <1> SUFFICES ASSUME AllWait PROVE Spec => []BarInv
    BY Zenon
  <1>1. Init => BarInv
    BY ZenonT(30), InitFresh, FreshBar
  <1>2. Fresh' => BarInv'
    BY FreshBar, PTL
  <1>3. LineInv /\ BufInv /\ BarInv /\ [Next]_vars => BarInv'
    <2> SUFFICES ASSUME LineInv, BufInv, BarInv, [Next]_vars PROVE BarInv'
      BY Zenon
    <2>1. CASE \E b \in Blocks : \E e \in Shapes(kernelInfo, b) : Collect(b, e)
      BY ZenonT(30), <2>1, BarCollect
    <2>2. CASE Replay
      BY ZenonT(30), <2>2, BarRun DEF Replay
    <2>3. CASE KernelFinish \/ Finish \/ UNCHANGED vars
      <3>1. UNCHANGED <<ques, state, kernelInfo, program>>
        BY Zenon, <2>3 DEF KernelFinish, Finish, vars, own
      <3>2. Blocks' = Blocks /\ Waiting' = Waiting /\ \A b : Events(b)' = Events(b) /\ AtBarrier(b)' = AtBarrier(b)
        BY Zenon, <3>1 DEF Blocks, Waiting, Queues, Events, AtBarrier
      <3>3. BarEvents' /\ \A b \in Blocks : RanBar(b)' = RanBar(b)
        BY ZenonT(30), <3>1, <3>2 DEF BarInv, BarEvents, RanBar, Executed, PIPE_S
      <3>4. SameBars(state', state) /\ \A b \in Gate(state, kernelInfo.num).arrived : AtBarrier(b)'
        BY ZenonT(30), <3>1, <3>2 DEF SameBars, BarInv, GateInv
      <3> QED
        BY ZenonT(30), <3>1, <3>3, <3>4, BarKeeps
    <2>4. CASE \E k \in Kernels : NextKernel(k)
      BY SMTT(30), <2>4, <1>2, NextKernelFresh
    <2> QED
      BY SMTT(30), <2>1, <2>2, <2>3, <2>4 DEF Next
  <1> QED
    BY <1>1, <1>3, LineInvariance, BufInvariance, PTL DEF Spec

(* ProcessMstxCrossCoreBarrier: where the barriers are of all the blocks,  *)
(* no block passes its k-th barrier before every block has come to its     *)
(* own k-th barrier: BarrierTogether.                                      *)
THEOREM BarriersMeet == AllWait => (Spec => []BarrierTogether)
  BY BarInvariance, BarInvGives, PTL
=============================================================================
