------------------------------ MODULE SyncOps ------------------------------
(***************************************************************************)
(* What one synchronisation event of a kernel does when it is replayed.    *)
(* The databases are SyncEventDataBase (set_flag / wait_flag),             *)
(* CrossCoreSyncInfoContainer (FFTS modes 0, 1, 2 and 4, the soft flags    *)
(* IB_SET / IB_WAIT, MSTX set / wait), BarrierEvent (MSTX barriers),       *)
(* SignalDatabase and the buffer releases.  The replayer of synccheck and  *)
(* initcheck and the algorithms of racecheck share them.                   *)
(*                                                                         *)
(* s is the state of the databases.  It holds the kernel they were         *)
(* initialised for: its type and its number of blocks.                     *)
(*                                                                         *)
(* A set event stores the time of its pipe, a wait event merges a stored   *)
(* time into the time of its pipe, or stalls.  Join is the merge           *)
(* (VectorClock::UpdateVectorTime); the replayer stores empty times, the   *)
(* race algorithms vector clocks.                                          *)
(*                                                                         *)
(* All the maps of queues are one function, s.que, from the channels that  *)
(* hold something to what they hold, oldest first.  A channel is a tuple   *)
(* of the map's name and its key.  Not modelled: SYNC_ALL (SemCores),      *)
(* which no parser emits, and the warnings about flag ids.                 *)
(***************************************************************************)
EXTENDS Integers, Sequences, FiniteSets, FiniteSetsExt

CONSTANT Join(_, _)    \* VectorClock::UpdateVectorTime(in, out)

AivFlags == 16          \* flag ids of a vector core

BlocksOf(s) == 0..(s.num - 1)

At(que, c) == IF c \in DOMAIN que THEN que[c] ELSE <<>>

PushAll(que, cs, t) ==
  [x \in DOMAIN que \cup cs |-> IF x \in cs THEN Append(At(que, x), t) ELSE que[x]]

PopAll(que, cs) ==
  [x \in {y \in DOMAIN que : y \notin cs \/ Len(que[y]) > 1} |->
     IF x \in cs THEN Tail(que[x]) ELSE que[x]]

JoinAll(ts) == FoldSet(Join, CHOOSE t \in ts : TRUE, ts)
Heads(que, cs) == {Head(que[c]) : c \in cs}

(* The databases after Init for kernel k, of type "AIVEC", "AICUBE" or     *)
(* "MIX" with k.num blocks (three per AI core for MIX): nothing set, two   *)
(* vector cores per AI core.                                               *)
Nothing == [c \in {} |-> <<>>]
EmptySync(k) == [que |-> Nothing, got |-> Nothing, sets |-> Nothing, bars |-> Nothing,
                 dim |-> 2, type |-> k.type, num |-> k.num]

Done(s, t)    == [ok |-> TRUE, s |-> s, t |-> t]
Stalled(s, t) == [ok |-> FALSE, s |-> s, t |-> t]

(* Set and Get of a queue: Get takes the oldest time, or stalls. *)
Store(s, c, t) == Done([s EXCEPT !.que = PushAll(@, {c}, t)], t)
Take(s, c, t) ==
  IF At(s.que, c) = <<>> THEN Stalled(s, t)
  ELSE Done([s EXCEPT !.que = PopAll(@, {c})], Join(Head(s.que[c]), t))
-----------------------------------------------------------------------------
(* FFTS.  A MIX kernel numbers the blocks of one AI core 3n, 3n+1 (the     *)
(* vector cores) and 3n+2 (the cube core).                                 *)
IsAIC(s, b) == \/ s.type = "AICUBE"
               \/ s.type = "MIX" /\ b % 3 = 2
AIVCount(s) == IF s.type = "MIX" THEN (s.num \div 3) * s.dim ELSE s.num
AICCount(s) == IF s.type = "MIX" THEN s.num \div 3 ELSE s.num

Peer(b)   == (b \div 3) * 3 + (1 - (b % 3))   \* the other vector core
Cube(b)   == (b \div 3) * 3 + 2
(* With one vector core per cube core (vecSubBlockDim 1) the vector cores  *)
(* are numbered densely, so those of two AI cores share three blocks.      *)
VecOf(b)  == ((b \div 3) \div 2) * 3 + ((b \div 3) % 2)
CubeOf(b) == 3 * ((b \div 3) * 2 + (b % 3)) + 2

(* Mode 0: all vector cores, or all cube cores, wait for each other. *)
Side(s, b) == IF IsAIC(s, b) THEN {i \in BlocksOf(s) : i % 3 = 2}
              ELSE {i \in BlocksOf(s) : ~IsAIC(s, i)}
Meet(times, t) == JoinAll(times)
SetMode0(s, f, b, t) ==
  LET que  == PushAll(s.que, {<<"set0", b, f>>}, t)
      full == {<<"set0", i, f>> : i \in Side(s, b)} \cap DOMAIN que
      need == IF IsAIC(s, b) THEN AICCount(s) ELSE AIVCount(s)
  IN  IF Cardinality(full) = need
      THEN PushAll(PopAll(que, full), {<<"wait", i, f>> : i \in Side(s, b)},
                   Meet(Heads(que, full), t))
      ELSE que

SetMode1(s, f, b, t) ==
  LET mine == <<"set1", b, f>>
      peer == <<"set1", Peer(b), f>>
  IN  CASE IsAIC(s, b) -> s.que
        [] ~IsAIC(s, b) /\ At(s.que, peer) # <<>> ->
             PushAll(PopAll(s.que, {peer}), {<<"wait", b, f>>, <<"wait", Peer(b), f>>},
                     Join(t, Head(s.que[peer])))
        [] OTHER -> PushAll(s.que, {mine}, t)

BothSet(t, first) == Join(t, first)
SetMode2(s, f, b, t, dim) ==
  LET mine == <<"set2", b, f>>
      peer == <<"set2", Peer(b), f>>
  IN  CASE dim = 0 -> s.que
        [] dim = 1 -> PushAll(s.que, {<<"wait", IF IsAIC(s, b) THEN VecOf(b) ELSE CubeOf(b), f>>}, t)
        [] dim = 2 /\ IsAIC(s, b) -> PushAll(s.que, {<<"wait", b - 1, f>>, <<"wait", b - 2, f>>}, t)
        [] dim = 2 /\ ~IsAIC(s, b) /\ At(s.que, peer) = <<>> -> PushAll(s.que, {mine}, t)
        [] OTHER -> LET que == PushAll(s.que, {mine}, t) IN
             PushAll(PopAll(que, {mine, peer}), {<<"wait", Cube(b), f>>},
                     BothSet(t, Head(que[peer])))

(* Mode 4: one vector core and the cube core signal each other; the cube   *)
(* core's flags from 16 on belong to the second vector core.               *)
Truncate(s, f, b) == IF ~IsAIC(s, b) /\ f >= AivFlags THEN f % AivFlags ELSE f
Target4(s, f, b, dim) ==
  CASE dim = 1 -> <<IF IsAIC(s, b) THEN VecOf(b) ELSE CubeOf(b), f>>
    [] dim = 2 /\ IsAIC(s, b) -> IF f < AivFlags THEN <<b - 2, f>> ELSE <<b - 1, f - AivFlags>>
    [] OTHER -> <<Cube(b), IF b % 3 = 0 THEN f ELSE f + AivFlags>>
SetMode4(s, f, b, t, dim) ==
  IF dim = 0 THEN s.que
  ELSE LET to == Target4(s, Truncate(s, f, b), b, dim)
       IN  PushAll(s.que, {<<"intra", to[1], to[2]>>}, t)

SetBlockSyncInfo(s, e, b, t) ==
  Done([s EXCEPT !.que = CASE e.mode = 0 -> SetMode0(s, e.flag, b, t)
                           [] e.mode = 1 -> SetMode1(s, e.flag, b, t)
                           [] e.mode = 2 -> SetMode2(s, e.flag, b, t, e.dim)
                           [] e.mode = 4 -> SetMode4(s, e.flag, b, t, e.dim)], t)

GetBlockSyncInfo(s, e, b, t)      == Take(s, <<"wait", b, e.flag>>, t)
GetIntraBlockSyncInfo(s, e, b, t) == Take(s, <<"intra", b, Truncate(s, e.flag, b)>>, t)
-----------------------------------------------------------------------------
(* Soft flags.  A set overwrites the flag of its block; a wait names the   *)
(* block, or takes the flag of the first block that has it (peer < 0).     *)
SetBlockSoftSyncInfo(s, e, b, t) ==
  LET c == <<"soft", b, e.id>>
  IN  Done([s EXCEPT !.que = PushAll(PopAll(@, {c}), {c}, t)], t)
GetBlockSoftSyncInfo(s, e, t) ==
  LET holders == {b \in BlocksOf(s) : At(s.que, <<"soft", b, e.id>>) # <<>>}
      from    == IF e.peer >= 0 THEN e.peer ELSE IF holders = {} THEN 0 ELSE Min(holders)
  IN  Take(s, <<"soft", from, e.id>>, t)

(* MSTX set / wait.  sets counts, from the collecting phase on, the sets   *)
(* of a key that no wait has taken; a wait for several cores (isMore) is   *)
(* skipped when there is none.                                             *)
CacheMstxCrossSet(s, e) ==
  IF e.op # "MSTX_SET" THEN s
  ELSE [s EXCEPT !.sets = [k \in DOMAIN @ \cup {e.key} |->
                             (IF k \in DOMAIN @ THEN @[k] ELSE 0) + (IF k = e.key THEN 1 ELSE 0)]]
Skipped(s, e) == e.more /\ (e.key \notin DOMAIN s.sets \/ s.sets[e.key] = 0)
GetMstxCrossInfo(s, e, t) ==
  LET r == Take(s, <<"mstx", e.key>>, t)
  IN  CASE Skipped(s, e) -> Done(s, t)
        [] ~Skipped(s, e) /\ r.ok -> [r EXCEPT !.s.sets[e.key] = @ - 1]
        [] OTHER -> r

(* BarrierEvent::Wait: the workers arrive until rank of them are there;    *)
(* then each of them passes once, and the barrier is as new.               *)
CoreId(s, b) == IF s.type # "MIX" THEN b
                ELSE IF IsAIC(s, b) THEN b \div 3 ELSE (b \div 3) * 2 + (b % 3)
AllReach_early(arrived, rank) == Cardinality(arrived) + 1 >= rank
AllReach(arrived, rank) == Cardinality(arrived) >= rank
BarrierTime_first(t, was) == IF was.arrived = {} THEN t ELSE was.time
BarrierTime(t, was) == IF was.arrived = {} THEN t ELSE Join(t, was.time)
BarrierWait(s, conf, rank, w, t) ==
  LET was  == IF conf \in DOMAIN s.bars THEN s.bars[conf] ELSE [open |-> FALSE, arrived |-> {}]
      came == was.arrived \cup {w}
      bar  == IF was.open THEN was
              ELSE [open |-> AllReach(came, rank), arrived |-> came,
                    time |-> BarrierTime(t, was)]
      left == bar.arrived \ {w}
      With(x) == [s EXCEPT !.bars = [c \in DOMAIN @ \cup {conf} |-> IF c = conf THEN x ELSE @[c]]]
      Reset   == [s EXCEPT !.bars = [c \in DOMAIN @ \ {conf} |-> @[c]]]
  IN  IF bar.open /\ w \in bar.arrived
      THEN Done(IF left = {} THEN Reset ELSE With([bar EXCEPT !.arrived = left]),
                Join(bar.time, t))
      ELSE Stalled(With(bar), t)

(* SignalDatabase: a value and a time per address. *)
SignalAccumulate(s, e, t) ==
  LET c   == <<"signal", e.addr>>
      old == At(s.que, c)
      new == IF old = <<>> THEN [value |-> e.value, time |-> t]
             ELSE [value |-> Max({e.value, old[1].value}), time |-> Join(t, old[1].time)]
  IN  Done([s EXCEPT !.que = PushAll(PopAll(@, {c}), {c}, new)], t)
SignalSet(s, e, t) ==
  LET c == <<"signal", e.addr>>
  IN  Done([s EXCEPT !.que = PushAll(PopAll(@, {c}), {c}, [value |-> e.value, time |-> t])], t)
Compare(x, op, y) == CASE op = "EQ" -> x = y [] op = "NE" -> x # y
                       [] op = "GT" -> x > y [] op = "GE" -> x >= y
                       [] op = "LT" -> x < y [] op = "LE" -> x <= y
SignalWait(s, e, t) ==
  LET held == At(s.que, <<"signal", e.addr>>)
  IN  IF held # <<>> /\ Compare(held[1].value, e.cmp, e.value)
      THEN Done(s, Join(held[1].time, t)) ELSE Stalled(s, t)
=============================================================================
