--------------------------- MODULE ReplayerProofs ---------------------------
(***************************************************************************)
(* Proofs about Replayer, for any kernels, any number of pipes and         *)
(* programs of any length.                                                 *)
(***************************************************************************)
EXTENDS Replayer, TLAPS

Pipes == 0..(PipeNum - 1)

(* The events of block b that wait in the queue of PIPE_S, and how many of *)
(* its events have left that queue.                                        *)
Scalar(b) == ques[<<0, b, PIPE_S>>]
Cut(b)    == Len(program[b]) - Len(Scalar(b))

SeqTypes == \E S : program \in [Blocks -> Seq(S)] /\ ques \in [Queues -> Seq(S)]

Types ==
  /\ kernelInfo \in Kernels
  /\ SeqTypes
  /\ {"que", "got"} \subseteq DOMAIN state
  /\ deviceIndex = 0 /\ blockIndex \in Blocks /\ pipeIndex \in Pipes
  /\ pipeState = "PROCESS_EVENT" => ques[Cur] # <<>>

(* An event is filed under its block and its place in the program. *)
ProgramInv ==
  \A b \in Blocks : \A i \in DOMAIN program[b] :
    LET e == program[b][i]
    IN  /\ e.no = i /\ e.block = b /\ e.pipe \in Pipes
        /\ e.op \in Ops \ {"MEMCPY"} /\ (e.op = "FFTS_SYNC" => e.mode \in {0, 1, 2, 4})

(* The queue of PIPE_S holds the rest of the program. *)
ScalarInv ==
  \A b \in Blocks : /\ Cut(b) >= 0
                    /\ \A i \in DOMAIN Scalar(b) : Scalar(b)[i] = program[b][Cut(b) + i]

(* The queue of another pipe holds events of that pipe that have left the  *)
(* queue of PIPE_S, in their order, and no accesses.                       *)
PipeInv ==
  \A b \in Blocks, p \in Pipes \ {PIPE_S} :
    LET q == ques[<<0, b, p>>]
    IN  /\ \A i \in DOMAIN q : /\ q[i].no \in 1..Cut(b) /\ q[i] = program[b][q[i].no]
                               /\ q[i].pipe = p /\ q[i].op \notin MemOps
        /\ \A i, j \in DOMAIN q : i < j => q[i].no < q[j].no

LineInv == Types /\ ProgramInv /\ ScalarInv /\ PipeInv

(* The queues of one device.                                               *)
LEMMA QueueFacts ==
  /\ Queues = {0} \X Blocks \X Pipes
  /\ \A b \in Blocks, p \in Pipes : <<0, b, p>> \in Queues
  /\ \A q \in Queues : q = <<0, q[2], q[3]>> /\ q[2] \in Blocks /\ q[3] \in Pipes
  /\ PIPE_S \in Pipes
  <1>1. 0..(1 - 1) = {0}
    OBVIOUS
  <1>2. Queues = {0} \X Blocks \X Pipes
    BY Zenon, <1>1 DEF Queues, Blocks, Pipes
  <1>3. PIPE_S \in Pipes
    BY ReplayAssumption DEF PIPE_S, Pipes
  <1> QED
    BY <1>2, <1>3

(* Every event in a queue is one of the program, of the queue's block, and *)
(* waits in no other place.                                                *)
LEMMA WaitsOnce ==
  ASSUME LineInv, NEW q \in Queues, NEW r \in Queues, NEW i \in DOMAIN ques[q], NEW j \in DOMAIN ques[r]
  PROVE  /\ ques[q][i].block = q[2] /\ ques[q][i].no \in DOMAIN program[q[2]]
         /\ ques[q][i] = program[q[2]][ques[q][i].no]
         /\ ques[q][i] = ques[r][j] => q = r /\ i = j
  <1> DEFINE b == q[2]
             p == q[3]
  <1>1. PICK S : program \in [Blocks -> Seq(S)] /\ ques \in [Queues -> Seq(S)]
    BY Zenon DEF LineInv, Types, SeqTypes
  <1>2. ASSUME NEW x \in Queues, NEW k \in DOMAIN ques[x]
        PROVE  /\ x = <<0, x[2], x[3]>> /\ x[2] \in Blocks /\ x[3] \in Pipes
               /\ ques[x][k].block = x[2] /\ ques[x][k].no \in DOMAIN program[x[2]]
               /\ ques[x][k] = program[x[2]][ques[x][k].no]
               /\ Cut(x[2]) \in Nat
               /\ x[3] = PIPE_S => ques[x][k].no = Cut(x[2]) + k
               /\ x[3] # PIPE_S => ques[x][k].no <= Cut(x[2]) /\ ques[x][k].pipe = x[3]
    <2>1. x = <<0, x[2], x[3]>> /\ x[2] \in Blocks /\ x[3] \in Pipes
      BY Zenon, QueueFacts
    <2>2. /\ Len(program[x[2]]) \in Nat /\ DOMAIN program[x[2]] = 1..Len(program[x[2]])
          /\ Len(ques[x]) \in Nat /\ DOMAIN ques[x] = 1..Len(ques[x])
          /\ Len(Scalar(x[2])) \in Nat
      BY SMTT(30), <1>1, <2>1, QueueFacts DEF Scalar
    <2>3. Cut(x[2]) \in Nat /\ Cut(x[2]) <= Len(program[x[2]])
      BY <2>1, <2>2 DEF LineInv, ScalarInv, Cut
    <2>4. CASE x[3] = PIPE_S
      <3>1. ques[x] = Scalar(x[2])
        BY Zenon, <2>1, <2>4 DEF Scalar
      <3>2. ques[x][k] = program[x[2]][Cut(x[2]) + k]
        BY Zenon, <3>1, <2>1 DEF LineInv, ScalarInv
      <3>3. Cut(x[2]) + k \in DOMAIN program[x[2]]
        <4>1. k \in Nat /\ 1 <= k /\ k <= Len(Scalar(x[2]))
          BY <3>1, <2>2
        <4>2. Cut(x[2]) + Len(Scalar(x[2])) = Len(program[x[2]])
          BY <2>2 DEF Cut
        <4> QED
          BY SMTT(30), <4>1, <4>2, <2>2, <2>3
      <3>4. ques[x][k].no = Cut(x[2]) + k /\ ques[x][k].block = x[2]
        BY SMTT(30), <3>2, <3>3, <2>1 DEF LineInv, ProgramInv
      <3> QED
        BY Zenon, <3>2, <3>3, <3>4, <2>1, <2>3, <2>4
    <2>5. CASE x[3] # PIPE_S
      <3>1. /\ ques[x][k].no \in 1..Cut(x[2]) /\ ques[x][k] = program[x[2]][ques[x][k].no]
            /\ ques[x][k].pipe = x[3]
        BY SMTT(30), <2>1, <2>5 DEF LineInv, PipeInv
      <3>2. ques[x][k].no \in DOMAIN program[x[2]]
        BY SMTT(30), <3>1, <2>2, <2>3
      <3>3. ques[x][k].block = x[2]
        BY <3>1, <3>2, <2>1 DEF LineInv, ProgramInv
      <3> QED
        BY SMTT(30), <3>1, <3>2, <3>3, <2>1, <2>3, <2>5
    <2> QED
      BY Zenon, <2>4, <2>5
  <1>3. ASSUME ques[q][i] = ques[r][j] PROVE q = r
    <2>1. q[2] = r[2] /\ q = <<0, q[2], q[3]>> /\ r = <<0, r[2], r[3]>>
      BY <1>2, <1>3
    <2>2. q[3] = r[3]
      <3>1. i \in Nat /\ j \in Nat /\ i > 0 /\ j > 0
        BY <1>1
      <3>2. Cut(q[2]) \in Nat /\ Cut(r[2]) = Cut(q[2])
        BY Zenon, <1>2, <2>1
      <3> QED
        BY <3>1, <3>2, <1>2, <1>3, <2>1
    <2> QED
      BY Zenon, <2>1, <2>2
  <1>4. ASSUME ques[q][i] = ques[q][j], j \in DOMAIN ques[q] PROVE i = j
    <2>1. i \in Nat /\ j \in Nat
      BY <1>1, <1>4
    <2>2. CASE q[3] = PIPE_S
      <3>1. ques[q][i].no = Cut(q[2]) + i /\ ques[q][j].no = Cut(q[2]) + j /\ Cut(q[2]) \in Nat
        BY <1>2, <1>4, <2>2
      <3> QED
        BY SMTT(30), <3>1, <2>1, <1>4
    <2>3. CASE q[3] # PIPE_S
      <3>1. q = <<0, q[2], q[3]>> /\ q[2] \in Blocks /\ q[3] \in Pipes \ {PIPE_S}
        BY SMTT(30), <1>2, <2>3
      <3>2. /\ \A k \in DOMAIN ques[q] : ques[q][k].no \in 1..Cut(q[2])
            /\ \A k, l \in DOMAIN ques[q] : k < l => ques[q][k].no < ques[q][l].no
        BY <3>1 DEF LineInv, PipeInv
      <3>3. ques[q][i].no \in Int /\ ques[q][j].no = ques[q][i].no
        BY <3>2, <1>4
      <3>4. ~(i < j) /\ ~(j < i)
        BY <3>2, <3>3, <1>4
      <3> QED
        BY SMTT(30), <3>4, <2>1
    <2> QED
      BY Zenon, <2>2, <2>3
  <1> QED
    BY Zenon, <1>2, <1>3, <1>4

(* The accesses of a block are reported in order.                          *)
LEMMA LineInvOrder == LineInv => AccessesInOrder
  <1> SUFFICES ASSUME LineInv, NEW b \in Blocks, NEW e \in Events(b), NEW f \in Events(b),
                      IsMem(e), IsMem(f), f.no < e.no, Executed(e), f \in Waiting
               PROVE  FALSE
    BY Zenon DEF AccessesInOrder, Executed
  <1>1. PICK S : program \in [Blocks -> Seq(S)] /\ ques \in [Queues -> Seq(S)]
    BY Zenon DEF LineInv, Types, SeqTypes
  <1>2. PICK i \in DOMAIN program[b] : e = program[b][i]
    BY Zenon DEF Events, Range
  <1>3. e.no = i /\ f.block = b
    <2>1. PICK j \in DOMAIN program[b] : f = program[b][j]
      BY Zenon DEF Events, Range
    <2> QED
      BY <2>1, <1>2 DEF LineInv, ProgramInv
  <1>4. PICK q \in Queues : \E k \in DOMAIN ques[q] : f = ques[q][k]
    BY Zenon DEF Waiting, Range
  <1>5. PICK k \in DOMAIN ques[q] : f = ques[q][k]
    BY Zenon, <1>4
  <1>6. q[2] = b /\ q = <<0, q[2], q[3]>> /\ q[3] \in Pipes
    BY SMTT(30), <1>5, <1>3, WaitsOnce, QueueFacts
  <1>7. q[3] = PIPE_S
    BY <1>5, <1>6 DEF LineInv, PipeInv, IsMem
  <1>8. ques[q] = Scalar(b)
    BY Zenon, <1>6, <1>7 DEF Scalar
  <1>9. /\ Len(program[b]) \in Nat /\ DOMAIN program[b] = 1..Len(program[b])
        /\ Len(Scalar(b)) \in Nat /\ DOMAIN Scalar(b) = 1..Len(Scalar(b))
    BY <1>1, <1>8
  <1>10. Cut(b) \in Nat
    BY <1>9 DEF LineInv, ScalarInv, Cut
  <1>11. f.no = Cut(b) + k
    <2>1. f = program[b][Cut(b) + k]
      BY Zenon, <1>5, <1>8 DEF LineInv, ScalarInv
    <2>2. Cut(b) + k \in DOMAIN program[b]
      BY SMTT(30), <1>5, <1>8, <1>9, <1>10 DEF Cut
    <2> QED
      BY <2>1, <2>2 DEF LineInv, ProgramInv
  <1>12. i - Cut(b) \in DOMAIN Scalar(b)
    BY SMTT(30), <1>2, <1>3, <1>5, <1>8, <1>9, <1>10, <1>11 DEF Cut
  <1>13. Scalar(b)[i - Cut(b)] = e
    BY <1>2, <1>9, <1>10, <1>12 DEF LineInv, ScalarInv
  <1>14. e \in Waiting
    BY <1>8, <1>12, <1>13 DEF Waiting, Range
  <1> QED
    BY Zenon, <1>14 DEF Executed

(* The length and the elements of the rest of a queue.                     *)
LEMMA TailFacts ==
  ASSUME NEW S, NEW s \in Seq(S), s # <<>>
  PROVE  /\ Tail(s) \in Seq(S) /\ Len(s) \in Nat \ {0} /\ Len(Tail(s)) = Len(s) - 1
         /\ DOMAIN s = 1..Len(s) /\ DOMAIN Tail(s) = 1..(Len(s) - 1)
         /\ \A i \in 1..(Len(s) - 1) : Tail(s)[i] = s[i + 1]
         /\ Head(s) = s[1] /\ s[1] \in S
  OBVIOUS

(* The length and the elements of a queue after one more event.            *)
LEMMA AppendFacts ==
  ASSUME NEW S, NEW s \in Seq(S), NEW e \in S
  PROVE  /\ Append(s, e) \in Seq(S) /\ Len(s) \in Nat /\ Len(Append(s, e)) = Len(s) + 1
         /\ DOMAIN s = 1..Len(s) /\ DOMAIN Append(s, e) = 1..(Len(s) + 1)
         /\ \A i \in 1..Len(s) : Append(s, e)[i] = s[i]
         /\ Append(s, e)[Len(s) + 1] = e
  OBVIOUS

(* The head of the current queue moves to the queue of its own pipe, or it *)
(* is executed.                                                            *)
LEMMA PopFacts ==
  ASSUME LineInv, ProcessOk
  PROVE  LET h == Head(ques[Cur])
             r == Handle(state, blockIndex, h)
             to == <<0, blockIndex, h.pipe>>
         IN  /\ Cur \in Queues /\ Cur = <<0, blockIndex, pipeIndex>> /\ ques[Cur] # <<>>
             /\ h = ques[Cur][1] /\ 1 \in DOMAIN ques[Cur] /\ h.block = blockIndex
             /\ h.pipe \in Pipes /\ h.no \in DOMAIN program[blockIndex] /\ h = program[blockIndex][h.no]
             /\ \/ /\ h.op \notin MemOps /\ pipeIndex = PIPE_S /\ h.pipe # PIPE_S
                   /\ to \in Queues /\ to # Cur
                   /\ ques' = [x \in Queues |-> IF x = to THEN Append(ques[x], h)
                                                ELSE IF x = Cur THEN Tail(ques[x]) ELSE ques[x]]
                   /\ state' = state
                \/ /\ ques' = [x \in Queues |-> IF x = Cur THEN Tail(ques[x]) ELSE ques[x]]
                   /\ r.ok /\ state' = r.s
  <1> DEFINE h == Head(ques[Cur])
             r == Handle(state, blockIndex, h)
             to == <<0, blockIndex, h.pipe>>
             f == ProcessEvent(state, Cur, h)
  <1>1. PICK S : program \in [Blocks -> Seq(S)] /\ ques \in [Queues -> Seq(S)]
    BY Zenon DEF LineInv, Types, SeqTypes
  <1>2. Cur = <<0, blockIndex, pipeIndex>> /\ blockIndex \in Blocks /\ pipeIndex \in Pipes
    BY Zenon DEF LineInv, Types, Cur
  <1>3. Cur \in Queues /\ Cur[2] = blockIndex /\ Cur[3] = pipeIndex
    BY Zenon, <1>2, QueueFacts
  <1>4. ques[Cur] # <<>>
    BY Zenon DEF LineInv, Types, ProcessOk
  <1>5. h = ques[Cur][1] /\ 1 \in DOMAIN ques[Cur]
    BY SMTT(30), <1>1, <1>3, <1>4, TailFacts
  <1>6. h.block = blockIndex /\ h.no \in DOMAIN program[blockIndex] /\ h = program[blockIndex][h.no]
    BY SMTT(30), <1>3, <1>5, WaitsOnce
  <1>7. h.pipe \in Pipes
    BY <1>2, <1>6 DEF LineInv, ProgramInv
  <1>8. f.ok /\ state' = f.s /\ ques' = Popped(f)
    BY Zenon DEF ProcessOk
  <1>9. CASE Migrates(Cur, h)
    <2>1. h.op \notin MemOps /\ h.pipe # pipeIndex
      BY Zenon, <1>9, <1>3 DEF Migrates, RunsOn
    <2>2. pipeIndex = PIPE_S
      BY <2>1, <1>2, <1>5 DEF LineInv, PipeInv
    <2>3. to \in Queues /\ to # Cur
      BY Zenon, <2>1, <1>2, <1>7, QueueFacts
    <2>4. f = [ok |-> TRUE, s |-> state, to |-> to, push |-> <<h>>]
      BY Zenon, <1>6, <1>9 DEF ProcessEvent, RunsOn
    <2>5. f.to = to /\ f.push = <<h>> /\ f.s = state
      BY SMTT(30), <2>4
    <2>6. ques[to] \o <<h>> = Append(ques[to], h)
      BY <1>1, <2>3
    <2>7. ques' = [x \in Queues |-> IF x = to THEN Append(ques[x], h)
                                    ELSE IF x = Cur THEN Tail(ques[x]) ELSE ques[x]]
      BY ZenonT(30), <1>8, <2>3, <2>5, <2>6 DEF Popped
    <2> QED
      BY Zenon, <1>2, <1>3, <1>4, <1>5, <1>6, <1>7, <1>8, <2>1, <2>2, <2>3, <2>5, <2>7
  <1>10. CASE ~Migrates(Cur, h)
    <2>1. f = [ok |-> r.ok, s |-> r.s, to |-> <<>>, push |-> <<>>]
      BY Zenon, <1>6, <1>10 DEF ProcessEvent
    <2>2. f.to = <<>> /\ f.ok = r.ok /\ f.s = r.s
      BY <2>1
    <2>3. \A x \in Queues : x # <<>>
      BY QueueFacts
    <2>4. ques' = [x \in Queues |-> IF x = Cur THEN Tail(ques[x]) ELSE ques[x]]
      BY Zenon, <1>8, <2>2, <2>3 DEF Popped
    <2> QED
      BY ZenonT(30), <1>2, <1>3, <1>4, <1>5, <1>6, <1>7, <1>8, <2>2, <2>4
  <1> QED
    BY Zenon, <1>9, <1>10

(* The queues keep their shape when the head of one is taken.              *)
LEMMA PopStep ==
  ASSUME LineInv, ProcessOk, UNCHANGED own
  PROVE  SeqTypes' /\ ProgramInv' /\ ScalarInv' /\ PipeInv'
  <1> DEFINE h == Head(ques[Cur])
             to == <<0, blockIndex, h.pipe>>
             Away == /\ h.op \notin MemOps /\ pipeIndex = PIPE_S /\ h.pipe # PIPE_S
                     /\ to \in Queues /\ to # Cur
                     /\ ques' = [x \in Queues |-> IF x = to THEN Append(ques[x], h)
                                                  ELSE IF x = Cur THEN Tail(ques[x]) ELSE ques[x]]
             Gone == ques' = [x \in Queues |-> IF x = Cur THEN Tail(ques[x]) ELSE ques[x]]
  <1>1. PICK S : program \in [Blocks -> Seq(S)] /\ ques \in [Queues -> Seq(S)]
    BY Zenon DEF LineInv, Types, SeqTypes
  <1>2. /\ Cur \in Queues /\ Cur = <<0, blockIndex, pipeIndex>> /\ ques[Cur] # <<>>
        /\ h = ques[Cur][1] /\ 1 \in DOMAIN ques[Cur] /\ h.block = blockIndex
        /\ h.pipe \in Pipes /\ h.no \in DOMAIN program[blockIndex] /\ h = program[blockIndex][h.no]
        /\ Away \/ Gone
    BY Zenon, PopFacts
  <1>3. program' = program /\ Blocks' = Blocks /\ Queues' = Queues /\ blockIndex \in Blocks /\ pipeIndex \in Pipes
    BY Zenon DEF own, Blocks, Queues, LineInv, Types
  <1>4. h \in S
    BY <1>1, <1>2, TailFacts
  <1>5. Tail(ques[Cur]) \in Seq(S)
    BY Zenon, <1>1, <1>2, TailFacts
  <1>6. ques' \in [Queues -> Seq(S)]
    <2>1. CASE Away
      <3>1. Append(ques[to], h) \in Seq(S)
        BY <2>1, <1>1, <1>4
      <3> QED
        BY Zenon, <2>1, <3>1, <1>1, <1>5
    <2>2. CASE Gone
      BY Zenon, <2>2, <1>1, <1>5
    <2> QED
      BY Zenon, <2>1, <2>2, <1>2
  <1>7. SeqTypes'
    BY Zenon, <1>1, <1>3, <1>6 DEF SeqTypes
  <1>8. ProgramInv'
    BY <1>3 DEF LineInv, ProgramInv
  <1>9. ASSUME NEW b \in Blocks
        PROVE  /\ Scalar(b)' = IF b = blockIndex /\ pipeIndex = PIPE_S THEN Tail(Scalar(b)) ELSE Scalar(b)
               /\ b = blockIndex /\ pipeIndex = PIPE_S => Scalar(b) = ques[Cur]
    <2>1. <<0, b, PIPE_S>> \in Queues
      BY Zenon, QueueFacts
    <2>2. <<0, b, PIPE_S>> = Cur <=> b = blockIndex /\ pipeIndex = PIPE_S
      BY Zenon, <1>2
    <2>3. CASE Away
      <3>1. <<0, b, PIPE_S>> # to
        BY Zenon, <2>3
      <3> QED
        BY Zenon, <2>1, <2>2, <2>3, <3>1 DEF Scalar, PIPE_S
    <2>4. CASE Gone
      BY Zenon, <2>1, <2>2, <2>4 DEF Scalar, PIPE_S
    <2> QED
      BY Zenon, <2>3, <2>4, <1>2
  <1>10. ASSUME NEW b \in Blocks
         PROVE  /\ Len(program[b]) \in Nat /\ Len(Scalar(b)) \in Nat /\ Cut(b) \in Nat
                /\ DOMAIN Scalar(b) = 1..Len(Scalar(b)) /\ DOMAIN program[b] = 1..Len(program[b])
                /\ Cut(b)' = IF b = blockIndex /\ pipeIndex = PIPE_S THEN Cut(b) + 1 ELSE Cut(b)
    <2>1. Scalar(b) \in Seq(S) /\ program[b] \in Seq(S)
      BY Zenon, <1>1, QueueFacts DEF Scalar
    <2>2. /\ Len(program[b]) \in Nat /\ Len(Scalar(b)) \in Nat
          /\ DOMAIN Scalar(b) = 1..Len(Scalar(b)) /\ DOMAIN program[b] = 1..Len(program[b])
      BY <2>1
    <2>3. Cut(b) \in Nat
      BY <2>2 DEF LineInv, ScalarInv, Cut
    <2>4. CASE b = blockIndex /\ pipeIndex = PIPE_S
      <3>1. Len(Scalar(b)') = Len(Scalar(b)) - 1
        BY ZenonT(30), <2>1, <2>4, <1>2, <1>9, TailFacts
      <3> QED
        BY <3>1, <2>2, <2>3, <2>4, <1>3 DEF Cut
    <2>5. CASE ~(b = blockIndex /\ pipeIndex = PIPE_S)
      BY <2>2, <2>3, <2>5, <1>3, <1>9 DEF Cut
    <2> QED
      BY Zenon, <2>2, <2>3, <2>4, <2>5
  <1> HIDE DEF Away, Gone, h, to
  <1>11. ASSUME NEW b \in Blocks
         PROVE  Cut(b)' >= 0 /\ \A i \in DOMAIN Scalar(b)' : Scalar(b)'[i] = program'[b][Cut(b)' + i]
    <2>1. \A i \in DOMAIN Scalar(b) : Scalar(b)[i] = program[b][Cut(b) + i]
      BY Zenon DEF LineInv, ScalarInv
    <2>2. CASE b = blockIndex /\ pipeIndex = PIPE_S
      <3>1. /\ DOMAIN Tail(Scalar(b)) = 1..(Len(Scalar(b)) - 1)
            /\ \A i \in 1..(Len(Scalar(b)) - 1) : Tail(Scalar(b))[i] = Scalar(b)[i + 1]
        BY <2>2, <1>1, <1>2, <1>9, TailFacts
      <3>2. Scalar(b)' = Tail(Scalar(b)) /\ Cut(b)' = Cut(b) + 1 /\ Cut(b) \in Nat /\ Len(Scalar(b)) \in Nat
        BY Zenon, <2>2, <1>9, <1>10
      <3>3. ASSUME NEW i \in 1..(Len(Scalar(b)) - 1)
            PROVE  Scalar(b)'[i] = program[b][Cut(b)' + i]
        <4>1. DOMAIN Scalar(b) = 1..Len(Scalar(b))
          BY Zenon, <1>10
        <4>2. i + 1 \in DOMAIN Scalar(b) /\ Cut(b) + (i + 1) = (Cut(b) + 1) + i
          BY <4>1, <3>2
        <4> QED
          BY SMTT(30), <4>2, <3>1, <3>2, <2>1
      <3>4. DOMAIN Scalar(b)' = 1..(Len(Scalar(b)) - 1) /\ Cut(b)' >= 0
        BY SMTT(30), <3>1, <3>2
      <3> QED
        BY SMTT(30), <3>3, <3>4, <1>3
    <2>3. CASE ~(b = blockIndex /\ pipeIndex = PIPE_S)
      BY <2>1, <2>3, <1>3, <1>9, <1>10
    <2> QED
      BY Zenon, <2>2, <2>3
  <1>12. ScalarInv'
    BY ZenonT(30), <1>3, <1>11 DEF ScalarInv
  <1>13. ASSUME NEW b \in Blocks, NEW p \in Pipes \ {PIPE_S}
         PROVE  /\ \A i \in DOMAIN ques'[<<0, b, p>>] :
                     /\ ques'[<<0, b, p>>][i].no \in 1..Cut(b)'
                     /\ ques'[<<0, b, p>>][i] = program[b][ques'[<<0, b, p>>][i].no]
                     /\ ques'[<<0, b, p>>][i].pipe = p /\ ques'[<<0, b, p>>][i].op \notin MemOps
                /\ \A i, j \in DOMAIN ques'[<<0, b, p>>] :
                     i < j => ques'[<<0, b, p>>][i].no < ques'[<<0, b, p>>][j].no
    <2> DEFINE x == <<0, b, p>>
               q == ques[x]
               Ok(s, c) == /\ \A i \in DOMAIN s : /\ s[i].no \in 1..c /\ s[i] = program[b][s[i].no]
                                                  /\ s[i].pipe = p /\ s[i].op \notin MemOps
                           /\ \A i, j \in DOMAIN s : i < j => s[i].no < s[j].no
    <2>1. x \in Queues /\ q \in Seq(S)
      BY ZenonT(30), <1>1, QueueFacts
    <2>2. Ok(q, Cut(b)) /\ Cut(b) \in Nat /\ Cut(b)' \in Nat /\ Cut(b) <= Cut(b)'
      BY SMTT(30), <1>10 DEF LineInv, PipeInv
    <2>3. Ok(q, Cut(b)')
      BY <2>2
    <2>4. CASE ques'[x] = q
      BY Zenon, <2>3, <2>4
    <2>5. CASE x = Cur /\ ques'[x] = Tail(q)
      <3>1. /\ DOMAIN q = 1..Len(q) /\ DOMAIN Tail(q) = 1..(Len(q) - 1) /\ Len(q) \in Nat
            /\ \A i \in 1..(Len(q) - 1) : Tail(q)[i] = q[i + 1]
        BY SMTT(30), <2>1, <2>5, <1>2, TailFacts
      <3>2. \A i \in 1..(Len(q) - 1) : i + 1 \in DOMAIN q
        BY <3>1
      <3>3. \A i, j \in 1..(Len(q) - 1) : i < j => i + 1 < j + 1
        BY <3>1
      <3> HIDE DEF q, x
      <3>4. Ok(Tail(q), Cut(b)')
        BY SMTT(30), <2>3, <3>1, <3>2, <3>3
      <3> QED
        BY Zenon, <3>4, <2>5 DEF x
    <2>6. CASE Away /\ x = to
      <3>1. b = blockIndex /\ p = h.pipe /\ pipeIndex = PIPE_S /\ ques'[x] = Append(q, h)
        BY Zenon, <2>6, <2>1 DEF Away, to
      <3> HIDE DEF q, x
      <3>2. /\ DOMAIN q = 1..Len(q) /\ DOMAIN ques'[x] = 1..(Len(q) + 1) /\ Len(q) \in Nat
            /\ \A i \in 1..Len(q) : ques'[x][i] = q[i]
            /\ ques'[x][Len(q) + 1] = h
        BY <3>1, <2>1, <1>4, AppendFacts
      <3>3. h.no = Cut(b) + 1 /\ Cut(b)' = Cut(b) + 1
        <4>1. h = Scalar(b)[1] /\ 1 \in DOMAIN Scalar(b)
          BY SMTT(30), <3>1, <1>2, <1>9
        <4>2. h = program[b][Cut(b) + 1] /\ Cut(b)' = Cut(b) + 1
          BY <4>1, <3>1, <1>10 DEF LineInv, ScalarInv
        <4>3. Cut(b) + 1 \in DOMAIN program[b]
          <5>1. Cut(b) + Len(Scalar(b)) = Len(program[b]) /\ Len(Scalar(b)) >= 1
            BY <4>1, <1>10 DEF Cut
          <5> QED
            BY <5>1, <1>10, <2>2
        <4> QED
          BY SMTT(30), <4>2, <4>3 DEF LineInv, ProgramInv
      <3>4. h.no \in 1..Cut(b)' /\ h = program[b][h.no] /\ h.pipe = p /\ h.op \notin MemOps
        <4>1. h.no \in 1..Cut(b)'
          BY <3>3, <2>2
        <4>2. h = program[b][h.no] /\ h.pipe = p
          BY Zenon, <3>1, <1>2
        <4>3. h.op \notin MemOps
          BY Zenon, <2>6 DEF Away
        <4> QED
          BY Zenon, <4>1, <4>2, <4>3
      <3>5. ASSUME NEW i \in DOMAIN ques'[x], NEW j \in DOMAIN ques'[x], i < j
            PROVE  ques'[x][i].no < ques'[x][j].no
        <4>1. i \in 1..Len(q) /\ ques'[x][i] = q[i] /\ q[i].no \in 1..Cut(b)
          <5>1. i \in 1..Len(q)
            BY SMTT(30), <3>2, <3>5
          <5> QED
            BY Zenon, <5>1, <3>2, <2>2
        <4>2. CASE j = Len(q) + 1
          BY <4>1, <4>2, <3>2, <3>3, <2>2
        <4>3. CASE j \in 1..Len(q)
          BY ZenonT(30), <4>1, <4>3, <3>2, <3>5, <2>2
        <4> QED
          BY <4>2, <4>3, <3>2
      <3>6. ASSUME NEW i \in DOMAIN ques'[x]
            PROVE  /\ ques'[x][i].no \in 1..Cut(b)' /\ ques'[x][i] = program[b][ques'[x][i].no]
                   /\ ques'[x][i].pipe = p /\ ques'[x][i].op \notin MemOps
        <4>1. CASE i = Len(q) + 1
          BY <4>1, <3>2, <3>4
        <4>2. CASE i \in 1..Len(q)
          BY Zenon, <4>2, <3>2, <2>3
        <4> QED
          BY SMTT(30), <4>1, <4>2, <3>2
      <3> QED
        BY Zenon, <3>5, <3>6 DEF x
    <2>7. ques'[x] = q \/ (x = Cur /\ ques'[x] = Tail(q)) \/ (Away /\ x = to)
      BY ZenonT(30), <1>2, <2>1 DEF Away, Gone
    <2> QED
      BY SMTT(30), <2>4, <2>5, <2>6, <2>7
  <1>14. PipeInv'
    BY <1>3, <1>13 DEF PipeInv
  <1> QED
    BY Zenon, <1>7, <1>8, <1>12, <1>14

(* What a channel holds after times are stored in, or taken from, others.  *)
LEMMA ChannelFacts ==
  ASSUME NEW que, NEW cs, NEW t, NEW c
  PROVE  /\ At(PushAll(que, cs, t), c) = IF c \in cs THEN Append(At(que, c), t) ELSE At(que, c)
         /\ c \notin cs => At(PopAll(que, cs), c) = At(que, c)
  <1>1. At(PushAll(que, cs, t), c) = IF c \in cs THEN Append(At(que, c), t) ELSE At(que, c)
    BY Zenon DEF At, PushAll
  <1>2. c \notin cs => At(PopAll(que, cs), c) = At(que, c)
    BY Zenon DEF At, PopAll
  <1> QED
    BY Zenon, <1>1, <1>2

(* The channels of buffer releases, and what s1 must have of s for a step  *)
(* that is not about buffers.                                              *)
IsRls(c) == c[1] = "rls"
SameBuffers(s1, s) ==
  /\ DOMAIN s1 = DOMAIN s /\ s1.got = s.got
  /\ \A c : IsRls(c) => At(s1.que, c) = At(s.que, c)

(* Sets of flags leave the releases alone.                                 *)
LEMMA PushApart ==
  ASSUME NEW que, NEW cs, NEW t, NEW c, IsRls(c), \A d \in cs : d[1] # "rls"
  PROVE  /\ At(PushAll(que, cs, t), c) = At(que, c)
         /\ At(PopAll(que, cs), c) = At(que, c)
  BY ChannelFacts DEF IsRls

(* So does an update of que that keeps the channels of releases.           *)
LEMMA QueApart ==
  ASSUME NEW s, {"que", "got"} \subseteq DOMAIN s, NEW que, \A c : IsRls(c) => At(que, c) = At(s.que, c)
  PROVE  SameBuffers([s EXCEPT !.que = que], s)
  <1>1. [s EXCEPT !.que = que].que = que /\ [s EXCEPT !.que = que].got = s.got
    BY Zenon
  <1>2. DOMAIN [s EXCEPT !.que = que] = DOMAIN s
    BY Zenon
  <1> QED
    BY Zenon, <1>1, <1>2 DEF SameBuffers

(* A queue other than that of releases is set or taken.                    *)
LEMMA TakeApart ==
  ASSUME NEW s, {"que", "got"} \subseteq DOMAIN s, NEW d, d[1] # "rls", NEW t
  PROVE  /\ SameBuffers(Store(s, d, t).s, s)
         /\ SameBuffers(Take(s, d, t).s, s)
  <1>1. \A c : IsRls(c) => /\ At(PushAll(s.que, {d}, t), c) = At(s.que, c)
                           /\ At(PopAll(s.que, {d}), c) = At(s.que, c)
    BY PushApart
  <1>2. SameBuffers([s EXCEPT !.que = PushAll(s.que, {d}, t)], s)
    BY Zenon, <1>1, QueApart
  <1>3. SameBuffers([s EXCEPT !.que = PopAll(s.que, {d})], s)
    BY Zenon, <1>1, QueApart
  <1>4. SameBuffers(s, s)
    BY Zenon DEF SameBuffers
  <1>5. Store(s, d, t).s = [s EXCEPT !.que = PushAll(s.que, {d}, t)]
    BY Zenon DEF Store, Done
  <1>6. Take(s, d, t).s = s \/ Take(s, d, t).s = [s EXCEPT !.que = PopAll(s.que, {d})]
    BY Zenon DEF Take, Done, Stalled
  <1> QED
    BY SMTT(30), <1>2, <1>3, <1>4, <1>5, <1>6

(* The sets of FFTS leave the releases alone.                              *)
LEMMA FftsApart ==
  ASSUME NEW s, {"que", "got"} \subseteq DOMAIN s, NEW e, NEW b, NEW t, e.mode \in {0, 1, 2, 4}
  PROVE  SameBuffers(SetBlockSyncInfo(s, e, b, t).s, s)
  <1> DEFINE f == e.flag
             Q == CASE e.mode = 0 -> SetMode0(s, e.flag, b, t)
                    [] e.mode = 1 -> SetMode1(s, e.flag, b, t)
                    [] e.mode = 2 -> SetMode2(s, e.flag, b, t, e.dim)
                    [] e.mode = 4 -> SetMode4(s, e.flag, b, t, e.dim)
  <1> SUFFICES ASSUME NEW c, IsRls(c) PROVE At(Q, c) = At(s.que, c)
    <2>1. \A c : IsRls(c) => At(Q, c) = At(s.que, c)
      BY Zenon
    <2>2. SetBlockSyncInfo(s, e, b, t).s = [s EXCEPT !.que = Q]
      BY Zenon DEF SetBlockSyncInfo, Done
    <2> HIDE DEF Q
    <2> QED
      BY <2>1, <2>2, QueApart
  <1> DEFINE Skips(cs) == \A x, y : At(PushAll(x, cs, y), c) = At(x, c) /\ At(PopAll(x, cs), c) = At(x, c)
  <1>s. ASSUME NEW cs, \A d \in cs : d[1] # "rls" PROVE Skips(cs)
    BY SMTT(30), <1>s, PushApart
  <1> HIDE DEF Skips
  <1>0. CASE e.mode = 0
    <2> DEFINE que == PushAll(s.que, {<<"set0", b, f>>}, t)
               full == {<<"set0", i, f>> : i \in Side(s, b)} \cap DOMAIN que
               to == {<<"wait", i, f>> : i \in Side(s, b)}
    <2>1. Skips({<<"set0", b, f>>}) /\ Skips(full) /\ Skips(to)
      BY <1>s
    <2>2. \E y : SetMode0(s, f, b, t) \in {que, PushAll(PopAll(que, full), to, y)}
      BY Zenon DEF SetMode0
    <2>3. Q = SetMode0(s, f, b, t)
      BY <1>0
    <2>4. At(que, c) = At(s.que, c)
      BY Zenon, <2>1 DEF Skips
    <2> HIDE DEF Q, que, full, to
    <2> QED
      BY SMTT(30), <2>1, <2>2, <2>3, <2>4 DEF Skips
  <1>1. CASE e.mode = 1
    <2> DEFINE mine == {<<"set1", b, f>>}
               peer == {<<"set1", Peer(b), f>>}
               to == {<<"wait", b, f>>, <<"wait", Peer(b), f>>}
    <2>1. Skips(mine) /\ Skips(peer) /\ Skips(to)
      BY <1>s
    <2>2. \/ Q = s.que \/ \E y : Q = PushAll(s.que, mine, y)
          \/ \E y : Q = PushAll(PopAll(s.que, peer), to, y)
      BY SMTT(30), <1>1 DEF SetMode1
    <2> HIDE DEF Q, mine, peer, to
    <2> QED
      BY <2>1, <2>2 DEF Skips
  <1>2. CASE e.mode = 2
    <2> DEFINE mine == <<"set2", b, f>>
               peer == <<"set2", Peer(b), f>>
               one == {<<"wait", IF IsAIC(s, b) THEN VecOf(b) ELSE CubeOf(b), f>>}
               vecs == {<<"wait", b - 1, f>>, <<"wait", b - 2, f>>}
               cube == {<<"wait", Cube(b), f>>}
    <2>1. Skips({mine}) /\ Skips({mine, peer}) /\ Skips(one) /\ Skips(vecs) /\ Skips(cube)
      BY <1>s
    <2>2. \/ Q = s.que
          \/ \E y : Q = PushAll(s.que, {mine}, y) \/ Q = PushAll(s.que, one, y) \/ Q = PushAll(s.que, vecs, y)
          \/ \E y : Q = PushAll(PopAll(PushAll(s.que, {mine}, t), {mine, peer}), cube, y)
      BY SMTT(30), <1>2 DEF SetMode2
    <2> HIDE DEF Q, mine, peer, one, vecs, cube
    <2> QED
      BY SMTT(30), <2>1, <2>2 DEF Skips
  <1>4. CASE e.mode = 4
    <2> DEFINE to == Target4(s, Truncate(s, f, b), b, e.dim)
               tos == {<<"intra", to[1], to[2]>>}
    <2>1. Skips(tos)
      BY <1>s
    <2>2. Q = s.que \/ Q = PushAll(s.que, tos, t)
      BY <1>4 DEF SetMode4
    <2> HIDE DEF Q, tos
    <2> QED
      BY Zenon, <2>1, <2>2 DEF Skips
  <1> QED
    BY Zenon, <1>0, <1>1, <1>2, <1>4

(* A barrier changes the barriers only.                                    *)
LEMMA BarrierApart ==
  ASSUME NEW s, NEW conf, NEW rank, NEW w, NEW t
  PROVE  \E m : BarrierWait(s, conf, rank, w, t).s = [s EXCEPT !.bars = m]
  <1> DEFINE was  == IF conf \in DOMAIN s.bars THEN s.bars[conf] ELSE [open |-> FALSE, arrived |-> {}]
             came == was.arrived \cup {w}
             bar  == IF was.open THEN was
                     ELSE [open |-> AllReach(came, rank), arrived |-> came, time |-> BarrierTime(t, was)]
             left == bar.arrived \ {w}
             Put(x) == [c \in DOMAIN s.bars \cup {conf} |-> IF c = conf THEN x ELSE s.bars[c]]
             drop == [c \in DOMAIN s.bars \ {conf} |-> s.bars[c]]
             half == [bar EXCEPT !.arrived = left]
             late == Join(bar.time, t)
             pass == bar.open /\ w \in bar.arrived
  <1>1. BarrierWait(s, conf, rank, w, t) =
          IF pass THEN Done(IF left = {} THEN [s EXCEPT !.bars = drop] ELSE [s EXCEPT !.bars = Put(half)], late)
          ELSE Stalled([s EXCEPT !.bars = Put(bar)], t)
    BY Zenon DEF BarrierWait
  <1> HIDE DEF pass, left, late, drop, half, Put, bar
  <1> DEFINE out == BarrierWait(s, conf, rank, w, t)
  <1>2. CASE pass /\ left = {}
    <2>1. out.s = [s EXCEPT !.bars = drop]
      BY <1>1, <1>2 DEF Done
    <2> QED
      BY Zenon, <2>1
  <1>3. CASE pass /\ left # {}
    <2>1. out.s = [s EXCEPT !.bars = Put(half)]
      BY <1>1, <1>3 DEF Done
    <2> QED
      BY Zenon, <2>1
  <1>4. CASE ~pass
    <2>1. out.s = [s EXCEPT !.bars = Put(bar)]
      BY <1>1, <1>4 DEF Stalled
    <2> QED
      BY Zenon, <2>1
  <1> QED
    BY Zenon, <1>2, <1>3, <1>4

(* What an event other than a get or a release does to the buffers:        *)
(* nothing.                                                                *)
LEMMA OthersApart ==
  ASSUME NEW s, {"que", "got"} \subseteq DOMAIN s, NEW b, NEW e,
         e.op \in Ops \ {"MEMCPY", "GET_BUF", "RLS_BUF"}, e.op = "FFTS_SYNC" => e.mode \in {0, 1, 2, 4}
  PROVE  SameBuffers(Handle(s, b, e).s, s)
  <1> DEFINE r == Handle(s, b, e)
  <1> SUFFICES SameBuffers(r.s, s)
    BY Zenon
  <1>0. SameBuffers(s, s)
    BY Zenon DEF SameBuffers
  <1>1. CASE e.op \in MemOps \/ e.op = "OTHER"
    <2>1. r = Done(s, NoTime)
      BY Zenon, <1>1 DEF Handle, MemOps
    <2> QED
      BY <2>1, <1>0 DEF Done
  <1>2. CASE e.op = "SET_FLAG"
    <2>1. r = Store(s, <<"flag", b, e.key>>, NoTime)
      BY Zenon, <1>2 DEF Handle, MemOps
    <2>2. SameBuffers(Store(s, <<"flag", b, e.key>>, NoTime).s, s)
      BY Zenon, TakeApart
    <2> QED
      BY Zenon, <2>1, <2>2
  <1>3. CASE e.op = "WAIT_FLAG"
    <2>1. r = Take(s, <<"flag", b, e.key>>, NoTime)
      BY Zenon, <1>3 DEF Handle, MemOps
    <2>2. SameBuffers(Take(s, <<"flag", b, e.key>>, NoTime).s, s)
      BY Zenon, TakeApart
    <2> QED
      BY Zenon, <2>1, <2>2
  <1>4. CASE e.op = "FFTS_SYNC"
    <2> DEFINE s2 == SetVecSubBlockDim(s, e)
    <2>1. r = SetBlockSyncInfo(s2, e, b, NoTime)
      BY Zenon, <1>4 DEF Handle, MemOps
    <2>2. DOMAIN s2 = DOMAIN s /\ s2.que = s.que /\ s2.got = s.got
      BY Zenon DEF SetVecSubBlockDim
    <2> HIDE DEF s2
    <2>3. SameBuffers(SetBlockSyncInfo(s2, e, b, NoTime).s, s2)
      BY <2>2, <1>4, FftsApart
    <2> QED
      BY Zenon, <2>1, <2>2, <2>3 DEF SameBuffers
  <1>5. CASE e.op = "WAIT_FLAG_DEV"
    <2>1. r = Take(s, <<"wait", b, e.flag>>, NoTime)
      BY Zenon, <1>5 DEF Handle, MemOps, GetBlockSyncInfo
    <2>2. SameBuffers(Take(s, <<"wait", b, e.flag>>, NoTime).s, s)
      BY Zenon, TakeApart
    <2> QED
      BY Zenon, <2>1, <2>2
  <1>6. CASE e.op = "WAIT_INTRA_BLOCK"
    <2> DEFINE c == <<"intra", b, Truncate(s, e.flag, b)>>
    <2>1. r = Take(s, c, NoTime)
      BY Zenon, <1>6 DEF Handle, MemOps, GetIntraBlockSyncInfo
    <2>2. c[1] # "rls"
      BY Zenon
    <2> HIDE DEF c
    <2> QED
      BY Zenon, <2>1, <2>2, TakeApart
  <1>7. CASE e.op = "IB_SET"
    <2> DEFINE c == <<"soft", b, e.id>>
               que == PushAll(PopAll(s.que, {c}), {c}, NoTime)
    <2>1. r.s = [s EXCEPT !.que = que]
      BY Zenon, <1>7 DEF Handle, MemOps, SetBlockSoftSyncInfo, Done
    <2>2. \A d \in {c} : d[1] # "rls"
      BY SMTT(30)
    <2>3. \A d : IsRls(d) => At(que, d) = At(s.que, d)
      <3> HIDE DEF c
      <3> QED
        BY SMTT(30), <2>2, PushApart
    <2> HIDE DEF que
    <2> QED
      BY <2>1, <2>3, QueApart
  <1>8. CASE e.op = "IB_WAIT"
    <2> DEFINE holders == {i \in BlocksOf(s) : At(s.que, <<"soft", i, e.id>>) # <<>>}
               from == IF e.peer >= 0 THEN e.peer ELSE IF holders = {} THEN 0 ELSE Min(holders)
               c == <<"soft", from, e.id>>
    <2>1. r = Take(s, c, NoTime)
      BY Zenon, <1>8 DEF Handle, MemOps, GetBlockSoftSyncInfo
    <2>2. c[1] # "rls"
      BY Zenon
    <2> HIDE DEF c
    <2> QED
      BY Zenon, <2>1, <2>2, TakeApart
  <1>9. CASE e.op = "MSTX_SET"
    <2> DEFINE c == <<"mstx", e.key>>
    <2>1. r = Store(s, c, NoTime)
      BY Zenon, <1>9 DEF Handle, MemOps
    <2>2. c[1] # "rls"
      BY Zenon
    <2> HIDE DEF c
    <2> QED
      BY Zenon, <2>1, <2>2, TakeApart
  <1>10. CASE e.op = "MSTX_WAIT"
    <2> DEFINE c == <<"mstx", e.key>>
               k == Take(s, c, NoTime)
    <2>1. r = GetMstxCrossInfo(s, e, NoTime)
      BY Zenon, <1>10 DEF Handle, MemOps
    <2>2. c[1] # "rls"
      BY Zenon
    <2>3. DOMAIN k = {"ok", "s", "t"}
      BY Zenon DEF Take, Done, Stalled
    <2>4. \/ r.s = s \/ r.s = k.s
          \/ \E m : r.s = [k.s EXCEPT !.sets = m]
      <3>1. CASE Skipped(s, e)
        BY <3>1, <2>1 DEF GetMstxCrossInfo, Done
      <3>2. CASE ~Skipped(s, e) /\ k.ok
        <4>1. r = [k EXCEPT !.s.sets[e.key] = @ - 1]
          BY Zenon, <3>2, <2>1 DEF GetMstxCrossInfo
        <4> HIDE DEF k
        <4> QED
          BY Zenon, <4>1, <2>3
      <3>3. CASE ~Skipped(s, e) /\ ~k.ok
        BY Zenon, <3>3, <2>1 DEF GetMstxCrossInfo
      <3> QED
        BY Zenon, <3>1, <3>2, <3>3
    <2> HIDE DEF c
    <2>5. SameBuffers(k.s, s)
      BY Zenon, <2>2, TakeApart
    <2> HIDE DEF k, r
    <2>6. ASSUME NEW m, r.s = [k.s EXCEPT !.sets = m] PROVE SameBuffers(r.s, s)
      <3>1. DOMAIN r.s = DOMAIN s /\ r.s.que = k.s.que /\ r.s.got = k.s.got
        BY Zenon, <2>5, <2>6 DEF SameBuffers
      <3> QED
        BY Zenon, <3>1, <2>5 DEF SameBuffers
    <2> QED
      BY Zenon, <2>4, <2>5, <2>6, <1>0
  <1>11. CASE e.op = "BARRIER"
    <2>1. r = BarrierWait(s, e.used, e.used, CoreId(s, b), NoTime)
      BY Zenon, <1>11 DEF Handle, MemOps
    <2> HIDE DEF r
    <2>2. \E m : r.s = [s EXCEPT !.bars = m]
      <3>1. \E m : BarrierWait(s, e.used, e.used, CoreId(s, b), NoTime).s = [s EXCEPT !.bars = m]
        BY SMTT(30), BarrierApart
      <3> QED
        BY Zenon, <3>1, <2>1
    <2>3. PICK m : r.s = [s EXCEPT !.bars = m]
      BY Zenon, <2>2
    <2>4. DOMAIN r.s = DOMAIN s /\ r.s.que = s.que /\ r.s.got = s.got
      BY Zenon, <2>3
    <2> QED
      BY Zenon, <2>4 DEF SameBuffers
  <1> HIDE DEF r
  <1> QED
    BY SMTT(30), <1>1, <1>2, <1>3, <1>4, <1>5, <1>6, <1>7, <1>8, <1>9, <1>10, <1>11 DEF Ops,
       MemOps

(* What an event does to the releases and the gets of a buffer: a release  *)
(* adds one to its own channel, a get that passes adds one to the gets of  *)
(* its channel, and it passes only after rls releases and not twice        *)
(* without a release between.                                              *)
LEMMA HandleFacts ==
  ASSUME NEW s, {"que", "got"} \subseteq DOMAIN s, NEW b, NEW e,
         e.op \in Ops \ {"MEMCPY"}, e.op = "FFTS_SYNC" => e.mode \in {0, 1, 2, 4}
  PROVE  LET r == Handle(s, b, e)
             mine == <<"rls", b, e.buf>>
         IN  /\ DOMAIN r.s = DOMAIN s
             /\ ~r.ok => r.s.got = s.got /\ \A c : IsRls(c) => At(r.s.que, c) = At(s.que, c)
             /\ \A c : IsRls(c) =>
                  /\ At(r.s.que, c) = IF e.op = "RLS_BUF" /\ c = mine THEN Append(At(s.que, c), NoTime)
                                      ELSE At(s.que, c)
                  /\ r.ok => At(r.s.got, c) = IF e.op = "GET_BUF" /\ c = mine THEN Append(At(s.got, c), NoTime)
                                              ELSE At(s.got, c)
             /\ e.op = "GET_BUF" /\ r.ok => ~(Len(At(s.que, mine)) < e.rls) /\ ~(Len(At(s.got, mine)) > Len(At(s.que, mine)))
  <1> DEFINE r == Handle(s, b, e)
             mine == <<"rls", b, e.buf>>
  <1>1. CASE e.op \notin {"GET_BUF", "RLS_BUF"}
    <2>1. SameBuffers(r.s, s)
      BY Zenon, <1>1, OthersApart
    <2> HIDE DEF r
    <2> QED
      BY Zenon, <2>1, <1>1 DEF SameBuffers, r
  <1>2. CASE e.op = "RLS_BUF"
    <2> DEFINE que == PushAll(s.que, {mine}, NoTime)
    <2>1. r = [ok |-> TRUE, s |-> [s EXCEPT !.que = que], t |-> NoTime]
      BY Zenon, <1>2 DEF Handle, MemOps, Store, Done
    <2>2. \A c : At(que, c) = IF c = mine THEN Append(At(s.que, c), NoTime) ELSE At(s.que, c)
      BY ChannelFacts
    <2> HIDE DEF que, r, mine
    <2>3. r.ok /\ DOMAIN r.s = DOMAIN s /\ r.s.que = que /\ r.s.got = s.got
      BY Zenon, <2>1
    <2> QED
      BY Zenon, <2>2, <2>3, <1>2 DEF r, mine
  <1>3. CASE e.op = "GET_BUF"
    <2> DEFINE got == PushAll(s.got, {mine}, NoTime)
               Late == Len(At(s.que, mine)) < e.rls \/ Len(At(s.got, mine)) > Len(At(s.que, mine))
    <2>1. r = IF Late THEN [ok |-> FALSE, s |-> s, t |-> NoTime]
              ELSE [ok |-> TRUE, s |-> [s EXCEPT !.got = got], t |-> NoTime]
      BY Zenon, <1>3 DEF Handle, MemOps, GetBuf, Done, Stalled
    <2>2. \A c : At(got, c) = IF c = mine THEN Append(At(s.got, c), NoTime) ELSE At(s.got, c)
      BY ChannelFacts
    <2>3. Late \/ ~Late
      BY Zenon
    <2> HIDE DEF got, r
    <2>4. CASE Late
      <3>1. ~r.ok /\ r.s = s
        BY Zenon, <2>1, <2>4
      <3> QED
        BY Zenon, <3>1, <1>3 DEF r
    <2>5. CASE ~Late
      <3>1. r.ok /\ DOMAIN r.s = DOMAIN s /\ r.s.que = s.que /\ r.s.got = got
        BY Zenon, <2>1, <2>5
      <3> QED
        BY <3>1, <2>2, <2>5, <1>3 DEF r
    <2> QED
      BY Zenon, <2>4, <2>5
  <1> QED
    BY Zenon, <1>1, <1>2, <1>3

(* The length and the elements of a queue after several more events.       *)
LEMMA ConcatFacts ==
  ASSUME NEW S, NEW s \in Seq(S), NEW t \in Seq(S)
  PROVE  /\ s \o t \in Seq(S) /\ Len(s) \in Nat /\ Len(t) \in Nat
         /\ DOMAIN s = 1..Len(s) /\ DOMAIN t = 1..Len(t)
         /\ DOMAIN (s \o t) = 1..(Len(s) + Len(t)) /\ Len(s \o t) = Len(s) + Len(t)
         /\ \A i \in 1..Len(s) : (s \o t)[i] = s[i]
         /\ \A i \in 1..Len(t) : (s \o t)[Len(s) + i] = t[i]
  OBVIOUS

(* The i-th event after the program of block b. *)
StampedAs(b, i, x) ==
  /\ x.no = Len(program[b]) + i /\ x.block = b /\ x.pipe \in Pipes
  /\ x.op \in Ops \ {"MEMCPY"} /\ (x.op = "FFTS_SYNC" => x.mode \in {0, 1, 2, 4})
  /\ x.op = "GET_BUF" => i = 1 /\ x.rls = Cardinality({f \in Events(b) : OfBuf(f, "RLS_BUF", x.buf)})

(* What the parser makes of a shape is filed after the program so far.     *)
LEMMA StampFacts ==
  ASSUME LineInv, NEW b \in Blocks, NEW e \in Shapes(kernelInfo, b)
  PROVE  LET st == Stamp(b, e)
         IN  /\ \E T : st \in Seq(T)
             /\ \A i \in DOMAIN st : StampedAs(b, i, st[i])
             /\ DOMAIN st \in {1..1, 1..2}
  <1> DEFINE n == Len(program[b])
             ev == Over([block |-> b, no |-> n + 1], e)
             st == Stamp(b, e)
  <1>1. /\ {"op", "pipe"} \subseteq DOMAIN e /\ e.op \in Ops /\ e.pipe \in Pipes
        /\ e.op = "FFTS_SYNC" => "mode" \in DOMAIN e /\ e.mode \in {0, 1, 2, 4}
        /\ e.op \in {"GET_BUF", "RLS_BUF"} => "buf" \in DOMAIN e
    <2>1. kernelInfo \in Kernels
      BY Zenon DEF LineInv, Types
    <2> QED
      BY Zenon, <2>1, ShapesAssumption DEF Blocks, Pipes
  <1>2. n \in Nat
    BY DEF LineInv, Types, SeqTypes
  <1>3. /\ DOMAIN ev = {"block", "no"} \cup DOMAIN e
        /\ ev.block = b /\ ev.no = n + 1
        /\ \A x \in DOMAIN e \ {"block", "no"} : ev[x] = e[x]
    BY Zenon DEF Over
  <1>4. /\ {"block", "no", "op", "pipe"} \subseteq DOMAIN ev /\ ev.op = e.op /\ ev.pipe = e.pipe
        /\ e.op = "FFTS_SYNC" => ev.mode = e.mode
        /\ e.op \in {"GET_BUF", "RLS_BUF"} => "buf" \in DOMAIN ev /\ ev.buf = e.buf
    BY Zenon, <1>1, <1>3
  <1>5. CASE e.op = "GET_BUF"
    <2> DEFINE g == Over([rls |-> Releases(b, e)], ev)
    <2>1. st = <<g>>
      BY Zenon, <1>5 DEF Stamp
    <2>2. g.rls = Releases(b, e) /\ \A x \in DOMAIN ev \ {"rls"} : g[x] = ev[x]
      BY Zenon DEF Over
    <2> HIDE DEF ev
    <2>3. g.block = b /\ g.no = n + 1 /\ g.op = e.op /\ g.pipe = e.pipe /\ g.buf = e.buf
      BY SMTT(30), <2>2, <1>3, <1>4, <1>5
    <2>4. g.rls = Cardinality({f \in Events(b) : OfBuf(f, "RLS_BUF", g.buf)})
      BY Zenon, <2>2, <2>3 DEF Releases
    <2> HIDE DEF g
    <2>5. st \in Seq({g}) /\ DOMAIN st = 1..1 /\ st[1] = g
      BY <2>1
    <2> HIDE DEF st
    <2>6. \A i \in DOMAIN st : i = 1 /\ st[i] = g
      BY <2>5
    <2>7. g.op \in Ops \ {"MEMCPY"} /\ g.op # "FFTS_SYNC" /\ g.pipe \in Pipes
      BY Zenon, <2>3, <1>1, <1>5
    <2>8. \A i \in DOMAIN st : st[i].no = n + i
      BY Zenon, <2>3, <2>6
    <2>9. \A i \in DOMAIN st : StampedAs(b, i, st[i])
      BY Zenon, <2>3, <2>4, <2>6, <2>7, <2>8 DEF StampedAs
    <2>10. (\E T : st \in Seq(T)) /\ DOMAIN st \in {1..1, 1..2}
      BY ZenonT(30), <2>5
    <2> QED
      BY Zenon, <2>9, <2>10 DEF st
  <1>6. CASE e.op = "MEMCPY"
    <2> DEFINE x == [ev EXCEPT !.op = "READ"]
               y == [ev EXCEPT !.op = "WRITE", !.no = @ + 1]
    <2>1. st = <<x, y>>
      BY Zenon, <1>6 DEF Stamp
    <2> HIDE DEF ev
    <2>2. /\ x.op = "READ" /\ x.no = n + 1 /\ x.block = b /\ x.pipe = e.pipe
          /\ y.op = "WRITE" /\ y.no = n + 2 /\ y.block = b /\ y.pipe = e.pipe
      BY SMTT(30), <1>2, <1>3, <1>4
    <2> HIDE DEF x, y
    <2>3. st \in Seq({x, y}) /\ DOMAIN st = 1..2 /\ st[1] = x /\ st[2] = y
      BY SMTT(30), <2>1
    <2> HIDE DEF st
    <2> QED
      BY SMTT(30), <2>2, <2>3, <1>1, <1>2 DEF st, Ops, StampedAs
  <1>7. CASE e.op \notin {"GET_BUF", "MEMCPY"}
    <2>1. st = <<ev>>
      BY Zenon, <1>7 DEF Stamp
    <2> HIDE DEF ev
    <2>2. st \in Seq({ev}) /\ DOMAIN st = 1..1 /\ st[1] = ev
      BY <2>1
    <2> HIDE DEF st
    <2> QED
      BY SMTT(30), <2>2, <1>1, <1>2, <1>3, <1>4, <1>7 DEF st, StampedAs
  <1> QED
    BY Zenon, <1>5, <1>6, <1>7

(* The events collected wait in the queue of PIPE_S, behind the others.    *)
LEMMA CollectStep ==
  ASSUME LineInv, NEW b \in Blocks, NEW e \in Shapes(kernelInfo, b), Collect(b, e)
  PROVE  LineInv'
  <1> DEFINE st == Stamp(b, e)
             n == Len(program[b])
             m == Len(Scalar(b))
             here == <<0, b, PIPE_S>>
  <1>1. PICK R : program \in [Blocks -> Seq(R)] /\ ques \in [Queues -> Seq(R)]
    BY Zenon DEF LineInv, Types, SeqTypes
  <1>2. PICK T : st \in Seq(T)
    BY Zenon, StampFacts
  <1> DEFINE S == R \cup T
  <1>3. /\ program' = [program EXCEPT ![b] = @ \o st] /\ ques' = [ques EXCEPT ![here] = @ \o st]
        /\ kernelInfo' = kernelInfo /\ Blocks' = Blocks /\ Queues' = Queues
        /\ UNCHANGED <<deviceIndex, blockIndex, pipeIndex, pipeState>>
    BY Zenon DEF Collect, place, Blocks, Queues
  <1>4. \A i \in DOMAIN st : /\ st[i].no = n + i /\ st[i].block = b /\ st[i].pipe \in Pipes
                             /\ st[i].op \in Ops \ {"MEMCPY"}
                             /\ (st[i].op = "FFTS_SYNC" => st[i].mode \in {0, 1, 2, 4})
    <2>1. \A i \in DOMAIN st : StampedAs(b, i, st[i])
      BY Zenon, StampFacts
    <2> QED
      BY Zenon, <2>1 DEF StampedAs
  <1>5. DOMAIN state' = DOMAIN state
    BY Zenon DEF Collect, CacheMstxCrossSet
  <1> HIDE DEF st
  <1>6. here \in Queues /\ Scalar(b) = ques[here] /\ \A x \in Queues : x[2] \in Blocks
    BY Zenon, QueueFacts DEF Scalar
  <1>7. st \in Seq(S) /\ program \in [Blocks -> Seq(S)] /\ ques \in [Queues -> Seq(S)]
    <2>1. Seq(R) \subseteq Seq(S) /\ Seq(T) \subseteq Seq(S)
      OBVIOUS
    <2> HIDE DEF S
    <2> QED
      BY Zenon, <1>1, <1>2, <2>1
  <1> HIDE DEF S, here
  <1>8. /\ program[b] \o st \in Seq(S) /\ n \in Nat /\ Len(st) \in Nat
        /\ DOMAIN program[b] = 1..n /\ DOMAIN st = 1..Len(st)
        /\ DOMAIN (program[b] \o st) = 1..(n + Len(st)) /\ Len(program[b] \o st) = n + Len(st)
        /\ \A i \in 1..n : (program[b] \o st)[i] = program[b][i]
        /\ \A i \in 1..Len(st) : (program[b] \o st)[n + i] = st[i]
    BY SMTT(30), <1>7, ConcatFacts
  <1>9. /\ Scalar(b) \o st \in Seq(S) /\ m \in Nat /\ DOMAIN Scalar(b) = 1..m
        /\ DOMAIN (Scalar(b) \o st) = 1..(m + Len(st)) /\ Len(Scalar(b) \o st) = m + Len(st)
        /\ \A i \in 1..m : (Scalar(b) \o st)[i] = Scalar(b)[i]
        /\ \A i \in 1..Len(st) : (Scalar(b) \o st)[m + i] = st[i]
    BY <1>6, <1>7, ConcatFacts
  <1>10. program'[b] = program[b] \o st /\ \A c \in Blocks \ {b} : program'[c] = program[c]
    BY Zenon, <1>1, <1>3
  <1>11. /\ ques'[here] = Scalar(b) \o st /\ \A x \in Queues \ {here} : ques'[x] = ques[x]
    BY Zenon, <1>1, <1>3, <1>6
  <1>12. /\ Scalar(b)' = Scalar(b) \o st /\ \A c \in Blocks \ {b} : Scalar(c)' = Scalar(c)
    <2>1. \A c \in Blocks \ {b} : <<0, c, PIPE_S>> \in Queues \ {here}
      BY Zenon, QueueFacts DEF here
    <2> QED
      BY Zenon, <2>1, <1>11 DEF Scalar, here, PIPE_S
  <1>13. Cut(b) \in Nat /\ Cut(b) + m = n
    BY <1>8, <1>9 DEF LineInv, ScalarInv, Cut
  <1>14. Cut(b)' = Cut(b) /\ \A c \in Blocks \ {b} : Cut(c)' = Cut(c)
    <2>1. Cut(b)' = (n + Len(st)) - (m + Len(st))
      BY Zenon, <1>8, <1>9, <1>10, <1>12 DEF Cut
    <2>2. Cut(b)' = Cut(b)
      <3>1. n \in Nat /\ m \in Nat /\ Len(st) \in Nat
        BY Zenon, <1>8, <1>9
      <3>2. \A x, y, z \in Nat : (x + z) - (y + z) = x - y
        OBVIOUS
      <3>3. Cut(b) = n - m
        BY Zenon DEF Cut
      <3> QED
        BY Zenon, <2>1, <3>1, <3>2, <3>3
    <2>3. \A c \in Blocks \ {b} : Cut(c)' = Cut(c)
      BY Zenon, <1>10, <1>12 DEF Cut
    <2> QED
      BY Zenon, <2>2, <2>3
  <1>15. SeqTypes'
    <2>1. program' \in [Blocks -> Seq(S)]
      BY Zenon, <1>3, <1>7, <1>8
    <2>2. ques' \in [Queues -> Seq(S)]
      BY SMTT(30), <1>3, <1>6, <1>7, <1>9
    <2> QED
      BY Zenon, <2>1, <2>2, <1>3 DEF SeqTypes
  <1>16. Types'
    <2>1. pipeState' = "PROCESS_EVENT" => ques'[Cur'] # <<>>
      <3> SUFFICES ASSUME pipeState = "PROCESS_EVENT" PROVE ques'[Cur] # <<>>
        BY Zenon, <1>3 DEF Cur
      <3>1. Cur \in Queues /\ ques[Cur] # <<>>
        BY Zenon, QueueFacts DEF LineInv, Types, Cur
      <3>2. CASE Cur = here
        <4>1. m > 0
          BY SMTT(30), <3>1, <3>2, <1>6, <1>7
        <4>2. Len(ques'[Cur]) > 0
          BY SMTT(30), <4>1, <3>2, <1>8, <1>9, <1>11
        <4> QED
          BY <4>2
      <3>3. CASE Cur # here
        BY Zenon, <3>1, <3>3, <1>11
      <3> QED
        BY Zenon, <3>2, <3>3
    <2> QED
      BY SMTT(30), <2>1, <1>3, <1>5, <1>15 DEF LineInv, Types
  <1>17. ProgramInv'
    <2> SUFFICES ASSUME NEW c \in Blocks, NEW i \in DOMAIN program'[c]
                 PROVE  LET x == program'[c][i]
                        IN  /\ x.no = i /\ x.block = c /\ x.pipe \in Pipes
                            /\ x.op \in Ops \ {"MEMCPY"} /\ (x.op = "FFTS_SYNC" => x.mode \in {0, 1, 2, 4})
      BY ZenonT(30), <1>3 DEF ProgramInv
    <2>1. CASE c = b /\ i > n
      <3>1. i - n \in 1..Len(st) /\ n + (i - n) = i
        BY SMTT(30), <2>1, <1>8, <1>10
      <3>2. program'[c][i] = st[i - n]
        BY Zenon, <3>1, <2>1, <1>8, <1>10
      <3> QED
        BY SMTT(30), <3>1, <3>2, <2>1, <1>4, <1>8
    <2>2. CASE c = b /\ ~(i > n)
      <3>1. i \in DOMAIN program[c] /\ program'[c][i] = program[c][i]
        BY SMTT(30), <2>2, <1>8, <1>10
      <3> QED
        BY SMTT(30), <3>1 DEF LineInv, ProgramInv
    <2>3. CASE c # b
      BY SMTT(30), <2>3, <1>10 DEF LineInv, ProgramInv
    <2> QED
      BY Zenon, <2>1, <2>2, <2>3
  <1>18. ScalarInv'
    <2> SUFFICES ASSUME NEW c \in Blocks
                 PROVE  Cut(c)' >= 0 /\ \A i \in DOMAIN Scalar(c)' : Scalar(c)'[i] = program'[c][Cut(c)' + i]
      BY Zenon, <1>3 DEF ScalarInv
    <2>1. CASE c # b
      BY SMTT(30), <2>1, <1>10, <1>12, <1>14 DEF LineInv, ScalarInv
    <2>2. ASSUME c = b, NEW i \in DOMAIN Scalar(b)' PROVE Scalar(b)'[i] = program'[b][Cut(b) + i]
      <3>1. CASE i \in 1..m
        <4>1. Scalar(b)'[i] = program[b][Cut(b) + i]
          BY SMTT(30), <3>1, <1>9, <1>12 DEF LineInv, ScalarInv
        <4>2. Cut(b) + i \in 1..n
          BY <3>1, <1>9, <1>13
        <4> QED
          BY ZenonT(30), <4>1, <4>2, <1>8, <1>10
      <3>2. CASE i \notin 1..m
        <4>1. i - m \in 1..Len(st) /\ i = m + (i - m) /\ Cut(b) + i = n + (i - m)
          BY SMTT(30), <2>2, <3>2, <1>8, <1>9, <1>12, <1>13
        <4>2. PICK k \in 1..Len(st) : i = m + k /\ Cut(b) + i = n + k
          BY Zenon, <4>1
        <4>3. (Scalar(b) \o st)[m + k] = st[k] /\ (program[b] \o st)[n + k] = st[k]
          BY Zenon, <1>8, <1>9
        <4> QED
          BY ZenonT(30), <4>2, <4>3, <1>10, <1>12
      <3> QED
        BY Zenon, <3>1, <3>2
    <2> QED
      BY <2>1, <2>2, <1>13, <1>14
  <1>19. PipeInv'
    <2> SUFFICES ASSUME NEW c \in Blocks, NEW p \in Pipes \ {PIPE_S}
                 PROVE  LET q == ques'[<<0, c, p>>]
                        IN  /\ \A i \in DOMAIN q : /\ q[i].no \in 1..Cut(c)' /\ q[i] = program'[c][q[i].no]
                                                   /\ q[i].pipe = p /\ q[i].op \notin MemOps
                            /\ \A i, j \in DOMAIN q : i < j => q[i].no < q[j].no
      BY Zenon, <1>3 DEF PipeInv
    <2> DEFINE q == ques[<<0, c, p>>]
    <2>1. ques'[<<0, c, p>>] = q
      <3>1. <<0, c, p>> \in Queues \ {here}
        BY Zenon, QueueFacts DEF here
      <3> QED
        BY Zenon, <3>1, <1>11
    <2>2. /\ \A i \in DOMAIN q : /\ q[i].no \in 1..Cut(c) /\ q[i] = program[c][q[i].no]
                                 /\ q[i].pipe = p /\ q[i].op \notin MemOps
          /\ \A i, j \in DOMAIN q : i < j => q[i].no < q[j].no
      BY Zenon DEF LineInv, PipeInv
    <2> HIDE DEF q
    <2>3. Cut(c)' = Cut(c) /\ \A i \in 1..Cut(c) : program'[c][i] = program[c][i]
      <3>1. CASE c = b
        <4>1. 1..Cut(b) \subseteq 1..n
          BY <1>8, <1>9, <1>13
        <4> QED
          BY SMTT(30), <4>1, <3>1, <1>8, <1>10, <1>14
      <3>2. CASE c # b
        BY Zenon, <3>2, <1>10, <1>14
      <3> QED
        BY ZenonT(30), <3>1, <3>2
    <2> QED
      BY Zenon, <2>1, <2>2, <2>3
  <1> QED
    BY <1>16, <1>17, <1>18, <1>19 DEF LineInv

(* The front event of the current queue is one of the program.             *)
LEMMA HeadFacts ==
  ASSUME LineInv, pipeState = "PROCESS_EVENT"
  PROVE  LET h == Head(ques[Cur])
         IN  /\ Cur \in Queues /\ 1 \in DOMAIN ques[Cur] /\ h = ques[Cur][1]
             /\ blockIndex \in Blocks /\ h \in Events(blockIndex) /\ h \in Waiting /\ h.block = blockIndex
             /\ h.op \in Ops \ {"MEMCPY"} /\ (h.op = "FFTS_SYNC" => h.mode \in {0, 1, 2, 4})
  <1> DEFINE h == Head(ques[Cur])
  <1>1. PICK S : program \in [Blocks -> Seq(S)] /\ ques \in [Queues -> Seq(S)]
    BY Zenon DEF LineInv, Types, SeqTypes
  <1>2. Cur = <<0, blockIndex, pipeIndex>> /\ blockIndex \in Blocks /\ pipeIndex \in Pipes /\ ques[Cur] # <<>>
    BY Zenon DEF LineInv, Types, Cur
  <1>3. Cur \in Queues /\ Cur[2] = blockIndex
    BY Zenon, <1>2, QueueFacts
  <1>4. h = ques[Cur][1] /\ 1 \in DOMAIN ques[Cur]
    BY SMTT(30), <1>1, <1>2, <1>3, TailFacts
  <1>5. h.block = blockIndex /\ h.no \in DOMAIN program[blockIndex] /\ h = program[blockIndex][h.no]
    BY SMTT(30), <1>3, <1>4, WaitsOnce
  <1>6. h \in Events(blockIndex) /\ h \in Waiting
    BY SMTT(30), <1>3, <1>4, <1>5 DEF Events, Waiting, Range
  <1>7. h.op \in Ops \ {"MEMCPY"} /\ (h.op = "FFTS_SYNC" => h.mode \in {0, 1, 2, 4})
    BY SMTT(30), <1>2, <1>5 DEF LineInv, ProgramInv
  <1> QED
    BY Zenon, <1>2, <1>3, <1>4, <1>5, <1>6, <1>7

(* An event that stalls stays where it is.                                 *)
LEMMA StallFacts ==
  ASSUME LineInv, ProcessStalled
  PROVE  LET r == Handle(state, blockIndex, Head(ques[Cur]))
         IN  ~r.ok /\ state' = r.s
  <1> DEFINE h == Head(ques[Cur])
             r == Handle(state, blockIndex, h)
             f == ProcessEvent(state, Cur, h)
  <1>1. ~f.ok /\ state' = f.s /\ pipeState = "PROCESS_EVENT"
    BY Zenon DEF ProcessStalled
  <1>2. h.block = blockIndex
    BY Zenon, <1>1, HeadFacts
  <1>3. ~Migrates(Cur, h)
    BY Zenon, <1>1 DEF ProcessEvent
  <1>4. f = [ok |-> r.ok, s |-> r.s, to |-> <<>>, push |-> <<>>]
    BY Zenon, <1>2, <1>3 DEF ProcessEvent
  <1> QED
    BY <1>1, <1>4

(* A step of the loop keeps the queues in shape.                           *)
LEMMA RunStep ==
  ASSUME LineInv, Run, UNCHANGED own
  PROVE  LineInv'
  <1> DEFINE D == {"que", "got"} \subseteq DOMAIN state
             Place == deviceIndex = 0 /\ blockIndex \in Blocks /\ pipeIndex \in Pipes
             Ready == pipeState = "PROCESS_EVENT" => ques[Cur] # <<>>
  <1>1. /\ kernelInfo' = kernelInfo /\ program' = program /\ Blocks' = Blocks /\ Queues' = Queues
        /\ kernelInfo \in Kernels
    BY Zenon DEF own, Blocks, Queues, LineInv, Types
  <1>2. kernelInfo.num \in Nat \ {0} /\ PipeNum \in Nat \ {0}
    BY <1>1, ReplayAssumption
  <1>3. D /\ Place /\ Ready
    BY Zenon DEF LineInv, Types
  <1>4. 0 \in Blocks /\ 0 \in Pipes
    BY <1>2 DEF Blocks, Pipes
  <1>5. \A b \in Blocks : (b + 1) % kernelInfo.num \in Blocks
    BY <1>2 DEF Blocks
  <1>6. \A p \in Pipes : (p + 1) % PipeNum \in Pipes
    BY SMTT(30), <1>2 DEF Pipes
  <1>7. ASSUME SwitchToNextPipe PROVE Place' /\ pipeState' = "CHECK_CUR_BLOCK"
    BY SMTT(30), <1>1, <1>3, <1>6, <1>7 DEF SwitchToNextPipe
  <1>8. ASSUME ques' = ques, state' = state \/ D', Place', Ready' PROVE LineInv'
    <2>1. SeqTypes' /\ ProgramInv' /\ ScalarInv'
      BY SMTT(30), <1>1, <1>8 DEF LineInv, Types, SeqTypes, ProgramInv, ScalarInv, Cut, Scalar
    <2>2. PipeInv'
      <3>1. /\ Pipes' = Pipes /\ PIPE_S' = PIPE_S /\ \A b : Cut(b)' = Cut(b)
        BY <1>1, <1>8 DEF Cut, Scalar, Pipes, PIPE_S
      <3> QED
        BY SMTT(30), <3>1, <1>1, <1>8 DEF LineInv, PipeInv
    <2> QED
      BY SMTT(30), <2>1, <2>2, <1>1, <1>3, <1>8 DEF LineInv, Types
  <1>9. CASE CheckAllDevice
    BY ZenonT(30), <1>9, <1>1, <1>3, <1>8 DEF CheckAllDevice, container, Cur
  <1>10. CASE StayOnDevice
    BY SMTT(30), <1>10, <1>1, <1>3, <1>8 DEF StayOnDevice, container, Cur
  <1>11. CASE NextDevice
    <2>1. deviceIndex' = 0
      BY SMTT(30), <1>11, <1>3 DEF NextDevice, SwitchToNextDevice
    <2> QED
      BY SMTT(30), <2>1, <1>11, <1>1, <1>3, <1>4, <1>8 DEF NextDevice, SwitchToNextDevice
  <1>12. CASE GiveUp
    BY SMTT(30), <1>12, <1>1, <1>3, <1>8 DEF GiveUp, Cur
  <1>13. CASE StayOnBlock
    BY SMTT(30), <1>13, <1>1, <1>3, <1>8 DEF StayOnBlock, container, Cur
  <1>14. CASE NextBlock
    BY SMTT(30), <1>14, <1>1, <1>3, <1>4, <1>5, <1>8 DEF NextBlock
  <1>15. CASE SkipPipe
    BY Zenon, <1>15, <1>7, <1>8 DEF SkipPipe
  <1>16. CASE EnterPipe
    BY SMTT(30), <1>16, <1>1, <1>3, <1>8 DEF EnterPipe, container, Cur
  <1>17. CASE ProcessOk
    <2>1. SeqTypes' /\ ProgramInv' /\ ScalarInv' /\ PipeInv'
      BY Zenon, <1>17, PopStep
    <2>2. D'
      <3>1. state' = state \/ state' = Handle(state, blockIndex, Head(ques[Cur])).s
        BY Zenon, <1>17, PopFacts
      <3>2. pipeState = "PROCESS_EVENT"
        BY Zenon, <1>17 DEF ProcessOk
      <3>3. DOMAIN Handle(state, blockIndex, Head(ques[Cur])).s = DOMAIN state
        BY ZenonT(30), <3>2, <1>3, HeadFacts, HandleFacts
      <3> QED
        BY Zenon, <3>1, <3>3, <1>3
    <2>3. Place' /\ Ready'
      BY Zenon, <1>17, <1>1, <1>3 DEF ProcessOk
    <2> QED
      BY <2>1, <2>2, <2>3, <1>1 DEF LineInv, Types
  <1>18. CASE ProcessStalled
    <2>1. ques' = ques /\ SwitchToNextPipe /\ pipeState = "PROCESS_EVENT"
      BY Zenon, <1>18 DEF ProcessStalled
    <2>2. state' = Handle(state, blockIndex, Head(ques[Cur])).s
      BY Zenon, <1>18, StallFacts
    <2>3. DOMAIN Handle(state, blockIndex, Head(ques[Cur])).s = DOMAIN state
      BY ZenonT(30), <2>1, <1>3, HeadFacts, HandleFacts
    <2>4. D'
      BY Zenon, <2>2, <2>3, <1>3
    <2> HIDE DEF D
    <2> QED
      BY Zenon, <2>1, <2>4, <1>7, <1>8
  <1> QED
    BY SMTT(30), <1>9, <1>10, <1>11, <1>12, <1>13, <1>14, <1>15, <1>16, <1>17, <1>18 DEF Run

(* A kernel has just been announced. *)
Fresh == /\ kernelInfo \in Kernels
         /\ program = [b \in Blocks |-> <<>>] /\ ques = [q \in Queues |-> <<>>]
         /\ state = EmptySync(kernelInfo)
         /\ deviceIndex = 0 /\ blockIndex = 0 /\ pipeIndex = 0 /\ pipeState = "CHECK_ALL_DEVICE"

(* Its queues are empty.                                                   *)
LEMMA FreshLine == Fresh => LineInv
  <1> SUFFICES ASSUME Fresh PROVE LineInv
    BY Zenon
  <1>1. kernelInfo.num \in Nat \ {0} /\ PipeNum \in Nat \ {0}
    BY Zenon, ReplayAssumption DEF Fresh
  <1>2. 0 \in Blocks /\ 0 \in Pipes
    BY <1>1 DEF Blocks, Pipes
  <1>3. SeqTypes
    <2>1. program \in [Blocks -> Seq({})] /\ ques \in [Queues -> Seq({})]
      BY DEF Fresh
    <2> QED
      BY Zenon, <2>1 DEF SeqTypes
  <1>4. \A b \in Blocks, p \in Pipes : ques[<<0, b, p>>] = <<>>
    BY Zenon, QueueFacts DEF Fresh
  <1>5. \A b \in Blocks : program[b] = <<>> /\ Scalar(b) = <<>>
    BY Zenon, <1>4, QueueFacts DEF Scalar, Fresh
  <1>6. ProgramInv
    BY <1>5 DEF ProgramInv
  <1>7. ScalarInv
    BY SMTT(30), <1>5 DEF ScalarInv, Cut
  <1>8. PipeInv
    <2> SUFFICES ASSUME NEW b \in Blocks, NEW p \in Pipes \ {PIPE_S}
                 PROVE  DOMAIN ques[<<0, b, p>>] = {}
      BY Zenon DEF PipeInv
    <2> QED
      BY <1>4
  <1>9. Types
    BY Zenon, <1>2, <1>3 DEF Types, EmptySync, Fresh
  <1> QED
    BY Zenon, <1>6, <1>7, <1>8, <1>9 DEF LineInv

(* A kernel is announced with empty queues.                                *)
LEMMA InitFresh == Init => Fresh
  BY Zenon DEF Init, Fresh, ContainerInit

(* So is the next one, whatever the last one left.                         *)
LEMMA NextKernelFresh ==
  ASSUME NEW k \in Kernels, NextKernel(k)
  PROVE  Fresh'
  <1>1. kernelInfo' = k /\ Blocks' = 0..(k.num - 1) /\ Queues' = {0} \X (0..(k.num - 1)) \X (0..(PipeNum - 1))
    <2>1. kernelInfo' = k /\ 0..(1 - 1) = {0}
      BY DEF NextKernel
    <2> QED
      BY Zenon, <2>1 DEF Blocks, Queues
  <1> QED
    BY Zenon, <1>1 DEF NextKernel, Fresh, NoEvents, Cleared, ContainerReset

(* Steps outside the loop and the parser leave the queues alone.           *)
LEMMA RestStep ==
  ASSUME LineInv, KernelFinish \/ Finish \/ UNCHANGED vars
  PROVE  LineInv'
  <1>1. UNCHANGED <<ques, state, pipeState, place, kernelInfo, program>>
    BY Zenon DEF KernelFinish, Finish, vars, own
  <1>2. Blocks' = Blocks /\ Queues' = Queues /\ Cur' = Cur
    BY Zenon, <1>1 DEF Blocks, Queues, Cur, place
  <1>3. Types'
    BY Zenon, <1>1, <1>2 DEF LineInv, Types, SeqTypes, place
  <1>4. ProgramInv' /\ ScalarInv'
    BY SMTT(30), <1>1, <1>2 DEF LineInv, ProgramInv, ScalarInv, Cut, Scalar
  <1>5. PipeInv'
    <2>1. /\ ques' = ques /\ program' = program /\ Blocks' = Blocks /\ Pipes' = Pipes /\ PIPE_S' = PIPE_S
          /\ \A b : Cut(b)' = Cut(b)
      BY Zenon, <1>1, <1>2 DEF Cut, Scalar, Pipes, PIPE_S
    <2> QED
      BY <2>1 DEF LineInv, PipeInv
  <1> QED
    BY <1>3, <1>4, <1>5 DEF LineInv

(* The queues keep their shape, whatever kernels are replayed: LineInv is  *)
(* an invariant of the replayer.                                           *)
THEOREM LineInvariance == Spec => []LineInv
  <1>1. Init => LineInv
    BY Zenon, InitFresh, FreshLine
  <1>2. Fresh' => LineInv'
    BY FreshLine, PTL
  <1>3. LineInv /\ [Next]_vars => LineInv'
    <2> SUFFICES ASSUME LineInv, [Next]_vars PROVE LineInv'
      BY Zenon
    <2>1. CASE \E b \in Blocks : \E e \in Shapes(kernelInfo, b) : Collect(b, e)
      BY Zenon, <2>1, CollectStep
    <2>2. CASE Replay
      BY Zenon, <2>2, RunStep DEF Replay
    <2>3. CASE KernelFinish \/ Finish \/ UNCHANGED vars
      BY Zenon, <2>3, RestStep
    <2>4. CASE \E k \in Kernels : NextKernel(k)
      BY Zenon, <2>4, <1>2, NextKernelFresh
    <2> QED
      BY <2>1, <2>2, <2>3, <2>4 DEF Next
  <1> QED
    BY <1>1, <1>3, PTL DEF Spec

(* PipelineReplayer reports the accesses of a block in the order of its    *)
(* program, for every kernel and every program: AccessesInOrder.           *)
THEOREM AccessesStayInOrder == Spec => []AccessesInOrder
  BY LineInvariance, LineInvOrder, PTL
=============================================================================
