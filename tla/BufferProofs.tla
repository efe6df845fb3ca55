---------------------------- MODULE BufferProofs ----------------------------
(***************************************************************************)
(* The buffers of Replayer: a get waits for the releases before it, for    *)
(* any kernels, any number of pipes and programs of any length.            *)
(***************************************************************************)
EXTENDS ReplayerProofs, FiniteSetTheorems

(* The events of a block that have run and are gets, or releases, of       *)
(* buffer x, and the releases of it before place n of the program.         *)
RanOf(b, op, x) == {e \in Events(b) : Executed(e) /\ OfBuf(e, op, x)}
Before(b, x, n) == {f \in Events(b) : OfBuf(f, "RLS_BUF", x) /\ f.no < n}

(* A channel holds what the executed releases stored, the gets are         *)
(* counted, and no get has passed before the releases it waits for.        *)
BufInv ==
  \A b \in Blocks :
    /\ IsFiniteSet(Events(b))
    /\ \A x : LET c == <<"rls", b, x>>
              IN  /\ At(state.que, c) \in Seq({NoTime}) /\ At(state.got, c) \in Seq({NoTime})
                  /\ Len(At(state.que, c)) = Cardinality(RanOf(b, "RLS_BUF", x))
                  /\ Len(At(state.got, c)) = Cardinality(RanOf(b, "GET_BUF", x))
                  /\ Len(At(state.got, c)) <= Len(At(state.que, c)) + 1
    /\ \A e \in Events(b) : e.op = "GET_BUF" =>
         /\ e.rls = Cardinality(Before(b, e.buf, e.no))
         /\ Executed(e) => Cardinality(RanOf(b, "RLS_BUF", e.buf)) >= e.rls

(* The counts give the property.                                           *)
LEMMA BufInvGives == BufInv => GetAfterReleases
  <1> SUFFICES ASSUME BufInv, NEW b \in Blocks, NEW e \in Events(b), e.op = "GET_BUF", Executed(e)
               PROVE  LET released == Ran(b, LAMBDA f : OfBuf(f, "RLS_BUF", e.buf))
                      IN  /\ released >= Cardinality({f \in Events(b) : OfBuf(f, "RLS_BUF", e.buf) /\ f.no < e.no})
                          /\ Ran(b, LAMBDA f : OfBuf(f, "GET_BUF", e.buf)) <= released + 1
    BY Zenon DEF GetAfterReleases
  <1>1. Ran(b, LAMBDA f : OfBuf(f, "RLS_BUF", e.buf)) = Cardinality(RanOf(b, "RLS_BUF", e.buf))
    BY Zenon DEF Ran, RanOf
  <1>2. Ran(b, LAMBDA f : OfBuf(f, "GET_BUF", e.buf)) = Cardinality(RanOf(b, "GET_BUF", e.buf))
    BY Zenon DEF Ran, RanOf
  <1>3. {f \in Events(b) : OfBuf(f, "RLS_BUF", e.buf) /\ f.no < e.no} = Before(b, e.buf, e.no)
    BY Zenon DEF Before
  <1>4. Cardinality(RanOf(b, "RLS_BUF", e.buf)) >= Cardinality(Before(b, e.buf, e.no))
    BY Zenon DEF BufInv
  <1>5. Cardinality(RanOf(b, "GET_BUF", e.buf)) <= Cardinality(RanOf(b, "RLS_BUF", e.buf)) + 1
    BY Zenon DEF BufInv
  <1> QED
    BY SMTT(30), <1>1, <1>2, <1>3, <1>4, <1>5

(* The counts do not change while the events, what waits and the databases *)
(* of the buffers stay.                                                    *)
LEMMA BufFrame ==
  ASSUME BufInv, Blocks' = Blocks, \A b \in Blocks : Events(b)' = Events(b), Waiting' = Waiting,
         \A c : IsRls(c) => At(state'.que, c) = At(state.que, c) /\ At(state'.got, c) = At(state.got, c)
  PROVE  BufInv'
  <1>1. \A b \in Blocks : \A op, x, n : RanOf(b, op, x)' = RanOf(b, op, x) /\ Before(b, x, n)' = Before(b, x, n)
    BY Zenon DEF RanOf, Before, Executed
  <1>2. \A e : Executed(e)' = Executed(e)
    BY Zenon DEF Executed
  <1>3. \A b, x : IsRls(<<"rls", b, x>>)
    BY Zenon DEF IsRls
  <1>4. ASSUME NEW b \in Blocks, NEW x
        PROVE  LET c == <<"rls", b, x>>
               IN  /\ At(state'.que, c) \in Seq({NoTime}) /\ At(state'.got, c) \in Seq({NoTime})
                   /\ Len(At(state'.que, c)) = Cardinality(RanOf(b, "RLS_BUF", x)')
                   /\ Len(At(state'.got, c)) = Cardinality(RanOf(b, "GET_BUF", x)')
                   /\ Len(At(state'.got, c)) <= Len(At(state'.que, c)) + 1
    BY SMTT(30), <1>1, <1>3 DEF BufInv
  <1>5. ASSUME NEW b \in Blocks, NEW e \in Events(b), e.op = "GET_BUF"
        PROVE  /\ e.rls = Cardinality(Before(b, e.buf, e.no)')
               /\ Executed(e)' => Cardinality(RanOf(b, "RLS_BUF", e.buf)') >= e.rls
    BY <1>1, <1>2, <1>5 DEF BufInv
  <1>6. \A b \in Blocks : IsFiniteSet(Events(b))
    BY Zenon DEF BufInv
  <1> QED
    BY ZenonT(30), <1>4, <1>5, <1>6 DEF BufInv

(* A kernel that has just been announced has no events.                    *)
LEMMA FreshBuf == Fresh => BufInv
  <1> SUFFICES ASSUME Fresh, NEW b \in Blocks
               PROVE  /\ IsFiniteSet(Events(b))
                      /\ \A x : LET c == <<"rls", b, x>>
                                IN  /\ At(state.que, c) \in Seq({NoTime}) /\ At(state.got, c) \in Seq({NoTime})
                                    /\ Len(At(state.que, c)) = Cardinality(RanOf(b, "RLS_BUF", x))
                                    /\ Len(At(state.got, c)) = Cardinality(RanOf(b, "GET_BUF", x))
                                    /\ Len(At(state.got, c)) <= Len(At(state.que, c)) + 1
                      /\ \A e \in Events(b) : e.op = "GET_BUF" =>
                           /\ e.rls = Cardinality(Before(b, e.buf, e.no))
                           /\ Executed(e) => Cardinality(RanOf(b, "RLS_BUF", e.buf)) >= e.rls
    BY Zenon DEF BufInv
  <1>1. Events(b) = {}
    <2>1. program[b] = <<>>
      BY Zenon DEF Fresh
    <2> QED
      BY <2>1 DEF Events, Range
  <1>2. \A op, x : RanOf(b, op, x) = {}
    BY Zenon, <1>1 DEF RanOf
  <1>3. IsFiniteSet({}) /\ Cardinality({}) = 0
    BY Zenon, FS_EmptySet
  <1>4. \A c : At(state.que, c) = <<>> /\ At(state.got, c) = <<>>
    BY Zenon DEF Fresh, EmptySync, At, Nothing
  <1>5. <<>> \in Seq({NoTime}) /\ Len(<<>>) = 0 /\ Len(<<>>) <= Len(<<>>) + 1
    OBVIOUS
  <1>6. \A x : LET c == <<"rls", b, x>>
              IN  /\ At(state.que, c) \in Seq({NoTime}) /\ At(state.got, c) \in Seq({NoTime})
                  /\ Len(At(state.que, c)) = Cardinality(RanOf(b, "RLS_BUF", x))
                  /\ Len(At(state.got, c)) = Cardinality(RanOf(b, "GET_BUF", x))
                  /\ Len(At(state.got, c)) <= Len(At(state.que, c)) + 1
    BY Zenon, <1>2, <1>3, <1>4, <1>5
  <1> QED
    BY Zenon, <1>1, <1>3, <1>6

(* What waits is what waits in some place of some queue.                   *)
LEMMA WaitingFacts ==
  \A e : e \in Waiting <=> \E q \in Queues : \E i \in DOMAIN ques[q] : e = ques[q][i]
  BY DEF Waiting, Range

(* The same after a step that keeps the set of the queues.                 *)
LEMMA WaitingNext ==
  Queues' = Queues => \A e : e \in Waiting' <=> \E q \in Queues : \E i \in DOMAIN ques'[q] : e = ques'[q][i]
  BY DEF Waiting, Range

(* What waits after the step lies in a set that holds what the queues hold. *)
LEMMA WaitingWithin ==
  ASSUME Queues' = Queues, NEW X, \A q \in Queues : \A i \in DOMAIN ques'[q] : ques'[q][i] \in X
  PROVE  Waiting' \subseteq X
  BY WaitingNext

(* An event that moves to the queue of its own pipe still waits.           *)
LEMMA WaitingMoved ==
  ASSUME NEW S, ques \in [Queues -> Seq(S)], Cur \in Queues, ques[Cur] # <<>>, NEW h, h = ques[Cur][1],
         NEW to \in Queues, to # Cur, Queues' = Queues,
         ques' = [x \in Queues |-> IF x = to THEN Append(ques[x], h)
                                   ELSE IF x = Cur THEN Tail(ques[x]) ELSE ques[x]]
  PROVE  Waiting' = Waiting
  <1>1. /\ h \in S /\ Len(ques[Cur]) \in Nat \ {0} /\ DOMAIN ques[Cur] = 1..Len(ques[Cur])
        /\ DOMAIN Tail(ques[Cur]) = 1..(Len(ques[Cur]) - 1)
        /\ \A i \in 1..(Len(ques[Cur]) - 1) : Tail(ques[Cur])[i] = ques[Cur][i + 1]
    BY Zenon, TailFacts
  <1>2. /\ Len(ques[to]) \in Nat /\ DOMAIN ques[to] = 1..Len(ques[to])
        /\ DOMAIN Append(ques[to], h) = 1..(Len(ques[to]) + 1)
        /\ \A i \in 1..Len(ques[to]) : Append(ques[to], h)[i] = ques[to][i]
        /\ Append(ques[to], h)[Len(ques[to]) + 1] = h
    BY <1>1, AppendFacts
  <1>3. /\ ques'[to] = Append(ques[to], h) /\ ques'[Cur] = Tail(ques[Cur])
        /\ \A x \in Queues \ {to, Cur} : ques'[x] = ques[x]
    BY Zenon
  <1>4. \A e : e \in Waiting' <=> \E q \in Queues : \E i \in DOMAIN ques'[q] : e = ques'[q][i]
    BY Zenon, WaitingNext
  <1>5. ASSUME NEW q \in Queues, NEW i \in DOMAIN ques'[q] PROVE ques'[q][i] \in Waiting
    <2>1. CASE q = to
      <3>1. CASE i = Len(ques[to]) + 1
        <4>1. 1 \in DOMAIN ques[Cur]
          BY <1>1
        <4>2. ques'[q][i] = ques[Cur][1]
          BY Zenon, <2>1, <3>1, <1>2, <1>3
        <4> QED
          BY Zenon, <4>1, <4>2, WaitingFacts
      <3>2. CASE i # Len(ques[to]) + 1
        <4>1. i \in DOMAIN ques[to] /\ ques'[q][i] = ques[to][i]
          BY SMTT(30), <2>1, <3>2, <1>2, <1>3
        <4> QED
          BY Zenon, <4>1, WaitingFacts
      <3> QED
        BY Zenon, <3>1, <3>2
    <2>2. CASE q = Cur
      <3>1. i + 1 \in DOMAIN ques[Cur] /\ ques'[q][i] = ques[Cur][i + 1]
        <4>1. i \in 1..(Len(ques[Cur]) - 1) /\ ques'[q][i] = Tail(ques[Cur])[i]
          BY Zenon, <2>2, <1>1, <1>3
        <4>2. i + 1 \in 1..Len(ques[Cur])
          BY <4>1, <1>1
        <4> QED
          BY Zenon, <4>1, <4>2, <1>1
      <3> QED
        BY Zenon, <3>1, WaitingFacts
    <2>3. CASE q \notin {to, Cur}
      BY Zenon, <2>3, <1>3, WaitingFacts
    <2> QED
      BY <2>1, <2>2, <2>3
  <1>6. ASSUME NEW q \in Queues, NEW i \in DOMAIN ques[q] PROVE ques[q][i] \in Waiting'
    <2>1. CASE q = to
      <3>1. i \in DOMAIN ques'[to] /\ ques'[to][i] = ques[to][i]
        BY <2>1, <1>2, <1>3
      <3> QED
        BY Zenon, <2>1, <3>1, <1>4
    <2>2. CASE q = Cur /\ i = 1
      <3>1. Len(ques[to]) + 1 \in DOMAIN ques'[to] /\ ques'[to][Len(ques[to]) + 1] = ques[q][i]
        BY SMTT(30), <2>2, <1>2, <1>3
      <3> QED
        BY Zenon, <3>1, <1>4
    <2>3. CASE q = Cur /\ i # 1
      <3>1. i - 1 \in DOMAIN ques'[Cur] /\ ques'[Cur][i - 1] = ques[Cur][i]
        <4>1. i - 1 \in 1..(Len(ques[Cur]) - 1) /\ (i - 1) + 1 = i
          BY <2>3, <1>1
        <4> QED
          BY Zenon, <4>1, <1>1, <1>3
      <3> QED
        BY Zenon, <2>3, <3>1, <1>4
    <2>4. CASE q \notin {to, Cur}
      BY Zenon, <2>4, <1>3, <1>4
    <2> QED
      BY Zenon, <2>1, <2>2, <2>3, <2>4
  <1>7. Waiting' \subseteq Waiting
    <2>1. \A q \in Queues : \A i \in DOMAIN ques'[q] : ques'[q][i] \in Waiting
      BY Zenon, <1>5
    <2> QED
      BY Zenon, <2>1, WaitingWithin
  <1>8. Waiting \subseteq Waiting'
    BY <1>6, WaitingFacts
  <1> QED
    BY Zenon, <1>7, <1>8

(* An event that is executed waits nowhere any more.                       *)
LEMMA WaitingGone ==
  ASSUME LineInv, Cur \in Queues, ques[Cur] # <<>>, NEW h, h = ques[Cur][1], Queues' = Queues,
         ques' = [x \in Queues |-> IF x = Cur THEN Tail(ques[x]) ELSE ques[x]]
  PROVE  Waiting' = Waiting \ {h}
  <1>0. PICK S : ques \in [Queues -> Seq(S)]
    BY Zenon DEF LineInv, Types, SeqTypes
  <1>1. /\ Len(ques[Cur]) \in Nat \ {0} /\ DOMAIN ques[Cur] = 1..Len(ques[Cur])
        /\ DOMAIN Tail(ques[Cur]) = 1..(Len(ques[Cur]) - 1)
        /\ \A i \in 1..(Len(ques[Cur]) - 1) : Tail(ques[Cur])[i] = ques[Cur][i + 1]
    BY Zenon, <1>0, TailFacts
  <1>2. 1 \in DOMAIN ques[Cur]
    BY <1>1
  <1>3. ques'[Cur] = Tail(ques[Cur]) /\ \A x \in Queues \ {Cur} : ques'[x] = ques[x]
    BY Zenon
  <1>4. \A e : e \in Waiting' <=> \E q \in Queues : \E i \in DOMAIN ques'[q] : e = ques'[q][i]
    BY Zenon, WaitingNext
  <1>5. ASSUME NEW q \in Queues, NEW i \in DOMAIN ques'[q] PROVE ques'[q][i] \in Waiting \ {h}
    <2>1. CASE q = Cur
      <3>1. i + 1 \in DOMAIN ques[Cur] /\ ques'[q][i] = ques[Cur][i + 1] /\ i + 1 # 1
        BY SMTT(30), <2>1, <1>1, <1>3
      <3>2. ques[Cur][i + 1] # h
        BY SMTT(30), <3>1, <1>2, WaitsOnce
      <3> QED
        BY Zenon, <3>1, <3>2, WaitingFacts
    <2>2. CASE q # Cur
      <3>1. i \in DOMAIN ques[q] /\ ques'[q][i] = ques[q][i]
        BY Zenon, <2>2, <1>3
      <3>2. ques[q][i] # h
        BY SMTT(30), <3>1, <2>2, <1>2, WaitsOnce
      <3> QED
        BY Zenon, <3>1, <3>2, WaitingFacts
    <2> QED
      BY Zenon, <2>1, <2>2
  <1>6. ASSUME NEW q \in Queues, NEW i \in DOMAIN ques[q], ques[q][i] # h PROVE ques[q][i] \in Waiting'
    <2>1. CASE q = Cur
      <3>1. i - 1 \in DOMAIN ques'[Cur] /\ ques'[Cur][i - 1] = ques[Cur][i]
        <4>1. i # 1
          BY Zenon, <1>6, <2>1
        <4>2. i - 1 \in 1..(Len(ques[Cur]) - 1) /\ (i - 1) + 1 = i
          BY SMTT(30), <4>1, <2>1, <1>1
        <4> QED
          BY Zenon, <4>2, <1>1, <1>3
      <3> QED
        BY Zenon, <2>1, <3>1, <1>4
    <2>2. CASE q # Cur
      BY Zenon, <2>2, <1>3, <1>4
    <2> QED
      BY Zenon, <2>1, <2>2
  <1>7. Waiting' \subseteq Waiting \ {h}
    <2>1. \A q \in Queues : \A i \in DOMAIN ques'[q] : ques'[q][i] \in Waiting \ {h}
      BY Zenon, <1>5
    <2> QED
      BY Zenon, <2>1, WaitingWithin
  <1>8. Waiting \ {h} \subseteq Waiting'
    BY SMTT(30), <1>6, WaitingFacts
  <1> QED
    BY Zenon, <1>7, <1>8

(* The events of a block know their block and their place.                 *)
LEMMA EventFacts ==
  ASSUME LineInv, NEW b \in Blocks, NEW e \in Events(b)
  PROVE  e.block = b /\ e.no \in 1..Len(program[b]) /\ Len(program[b]) \in Nat
  <1>1. PICK i \in DOMAIN program[b] : e = program[b][i]
    BY Zenon DEF Events, Range
  <1>2. DOMAIN program[b] = 1..Len(program[b]) /\ Len(program[b]) \in Nat
    BY DEF LineInv, Types, SeqTypes
  <1> QED
    BY <1>1, <1>2 DEF LineInv, ProgramInv

(* An event is executed: the counts of its buffer follow.                  *)
LEMMA BufExecute ==
  ASSUME LineInv, BufInv, pipeState = "PROCESS_EVENT", UNCHANGED own,
         Waiting' = Waiting \ {Head(ques[Cur])},
         Handle(state, blockIndex, Head(ques[Cur])).ok,
         state' = Handle(state, blockIndex, Head(ques[Cur])).s
  PROVE  BufInv'
  <1> DEFINE h == Head(ques[Cur])
             r == Handle(state, blockIndex, h)
             mine == <<"rls", blockIndex, h.buf>>
             Adds(b, op, x) == b = blockIndex /\ OfBuf(h, op, x)
  <1>1. /\ Blocks' = Blocks /\ \A b \in Blocks : Events(b)' = Events(b)
    BY Zenon DEF own, Blocks, Events
  <1>2. /\ h \in Waiting /\ h.block = blockIndex /\ h \in Events(blockIndex) /\ blockIndex \in Blocks
        /\ h.op \in Ops \ {"MEMCPY"} /\ (h.op = "FFTS_SYNC" => h.mode \in {0, 1, 2, 4})
    BY Zenon, HeadFacts
  <1>3. {"que", "got"} \subseteq DOMAIN state
    BY Zenon DEF LineInv, Types
  <1> HIDE DEF h
  <1>4. /\ \A c : IsRls(c) =>
             /\ At(state'.que, c) = IF h.op = "RLS_BUF" /\ c = mine THEN Append(At(state.que, c), NoTime)
                                    ELSE At(state.que, c)
             /\ At(state'.got, c) = IF h.op = "GET_BUF" /\ c = mine THEN Append(At(state.got, c), NoTime)
                                    ELSE At(state.got, c)
        /\ h.op = "GET_BUF" => /\ ~(Len(At(state.que, mine)) < h.rls)
                               /\ ~(Len(At(state.got, mine)) > Len(At(state.que, mine)))
    <2>1. r.ok /\ state' = r.s
      BY Zenon DEF h
    <2> QED
      BY SMTT(30), <2>1, <1>2, <1>3, HandleFacts
  <1>5. ASSUME NEW b \in Blocks, NEW x
        PROVE  LET c == <<"rls", b, x>>
               IN  /\ At(state'.que, c) = IF Adds(b, "RLS_BUF", x) THEN Append(At(state.que, c), NoTime)
                                          ELSE At(state.que, c)
                   /\ At(state'.got, c) = IF Adds(b, "GET_BUF", x) THEN Append(At(state.got, c), NoTime)
                                          ELSE At(state.got, c)
    <2> DEFINE c == <<"rls", b, x>>
    <2>1. IsRls(c) /\ (c = mine <=> b = blockIndex /\ h.buf = x)
      BY Zenon DEF IsRls
    <2> HIDE DEF c, mine
    <2> QED
      BY ZenonT(30), <2>1, <1>4 DEF OfBuf, c
  <1>6. ASSUME NEW b \in Blocks, NEW op, NEW x
        PROVE  /\ RanOf(b, op, x)' = IF Adds(b, op, x) THEN RanOf(b, op, x) \cup {h} ELSE RanOf(b, op, x)
               /\ h \notin RanOf(b, op, x) /\ IsFiniteSet(RanOf(b, op, x))
    <2>1. h \notin RanOf(b, op, x)
      BY <1>2 DEF RanOf, Executed
    <2>2. IsFiniteSet(RanOf(b, op, x))
      <3>1. IsFiniteSet(Events(b)) /\ RanOf(b, op, x) \in SUBSET Events(b)
        BY Zenon DEF BufInv, RanOf
      <3> QED
        BY <3>1, FS_Subset
    <2>3. b # blockIndex => h \notin Events(b)
      BY SMTT(30), <1>2, EventFacts
    <2>4. RanOf(b, op, x)' = {e \in Events(b) : e \notin Waiting \ {h} /\ OfBuf(e, op, x)}
      BY Zenon, <1>1 DEF RanOf, Executed, h
    <2>5. RanOf(b, op, x) = {e \in Events(b) : e \notin Waiting /\ OfBuf(e, op, x)}
      BY Zenon DEF RanOf, Executed
    <2>6. CASE Adds(b, op, x)
      <3>1. h \in Events(b) /\ OfBuf(h, op, x)
        BY SMTT(30), <2>6, <1>2
      <3> QED
        BY SMTT(30), <3>1, <2>1, <2>2, <2>4, <2>5, <2>6
    <2>7. CASE ~Adds(b, op, x)
      <3>1. h \notin Events(b) \/ ~OfBuf(h, op, x)
        BY SMTT(30), <2>7, <2>3
      <3> QED
        BY SMTT(30), <3>1, <2>1, <2>2, <2>4, <2>5, <2>7
    <2> QED
      BY SMTT(30), <2>6, <2>7
  <1>7. ASSUME NEW b \in Blocks, NEW op, NEW x
        PROVE  /\ Cardinality(RanOf(b, op, x)) \in Nat
               /\ Cardinality(RanOf(b, op, x)') = Cardinality(RanOf(b, op, x)) + (IF Adds(b, op, x) THEN 1 ELSE 0)
    <2>1. Cardinality(RanOf(b, op, x)) \in Nat
      BY SMTT(30), <1>6, FS_CardinalityType
    <2>2. Cardinality(RanOf(b, op, x) \cup {h}) = Cardinality(RanOf(b, op, x)) + 1
      BY ZenonT(30), <1>6, FS_AddElement
    <2> HIDE DEF Adds
    <2>3. CASE Adds(b, op, x)
      <3>1. RanOf(b, op, x)' = RanOf(b, op, x) \cup {h}
        BY Zenon, <2>3, <1>6
      <3> QED
        BY SMTT(30), <3>1, <2>1, <2>2, <2>3
    <2>4. CASE ~Adds(b, op, x)
      <3>1. RanOf(b, op, x)' = RanOf(b, op, x)
        BY Zenon, <2>4, <1>6
      <3> QED
        BY SMTT(30), <3>1, <2>1, <2>4
    <2> QED
      BY Zenon, <2>3, <2>4
  <1>8. ASSUME NEW b \in Blocks, NEW x
        PROVE  LET c == <<"rls", b, x>>
               IN  /\ At(state'.que, c) \in Seq({NoTime}) /\ At(state'.got, c) \in Seq({NoTime})
                   /\ Len(At(state'.que, c)) = Cardinality(RanOf(b, "RLS_BUF", x)')
                   /\ Len(At(state'.got, c)) = Cardinality(RanOf(b, "GET_BUF", x)')
                   /\ Len(At(state'.got, c)) <= Len(At(state'.que, c)) + 1
    <2> DEFINE c == <<"rls", b, x>>
               q == At(state.que, c)
               g == At(state.got, c)
               q2 == At(state'.que, c)
               g2 == At(state'.got, c)
    <2>1. /\ q \in Seq({NoTime}) /\ g \in Seq({NoTime}) /\ Len(q) = Cardinality(RanOf(b, "RLS_BUF", x))
          /\ Len(g) = Cardinality(RanOf(b, "GET_BUF", x)) /\ Len(g) <= Len(q) + 1
      BY Zenon DEF BufInv
    <2>2. /\ q2 = IF Adds(b, "RLS_BUF", x) THEN Append(q, NoTime) ELSE q
          /\ g2 = IF Adds(b, "GET_BUF", x) THEN Append(g, NoTime) ELSE g
      BY Zenon, <1>5
    <2>3. Adds(b, "GET_BUF", x) => ~(Len(g) > Len(q))
      <3> SUFFICES ASSUME Adds(b, "GET_BUF", x) PROVE ~(Len(g) > Len(q))
        BY Zenon
      <3>1. c = mine /\ h.op = "GET_BUF"
        BY Zenon DEF OfBuf
      <3> QED
        BY SMTT(30), <3>1, <1>4
    <2>4. ~(Adds(b, "GET_BUF", x) /\ Adds(b, "RLS_BUF", x))
      BY Zenon DEF OfBuf
    <2>5. /\ Cardinality(RanOf(b, "RLS_BUF", x)') = Len(q) + (IF Adds(b, "RLS_BUF", x) THEN 1 ELSE 0)
          /\ Cardinality(RanOf(b, "GET_BUF", x)') = Len(g) + (IF Adds(b, "GET_BUF", x) THEN 1 ELSE 0)
      BY SMTT(30), <2>1, <1>7
    <2> HIDE DEF c, q, g, q2, g2, Adds
    <2>6. Len(q) \in Nat /\ Len(g) \in Nat
      BY SMTT(30), <2>1
    <2>7. /\ q2 \in Seq({NoTime}) /\ g2 \in Seq({NoTime})
          /\ Len(q2) = Len(q) + (IF Adds(b, "RLS_BUF", x) THEN 1 ELSE 0)
          /\ Len(g2) = Len(g) + (IF Adds(b, "GET_BUF", x) THEN 1 ELSE 0)
      <3>1. /\ Append(q, NoTime) \in Seq({NoTime}) /\ Len(Append(q, NoTime)) = Len(q) + 1
            /\ Append(g, NoTime) \in Seq({NoTime}) /\ Len(Append(g, NoTime)) = Len(g) + 1
        BY SMTT(30), <2>1, AppendFacts
      <3> QED
        BY SMTT(30), <3>1, <2>1, <2>2, <2>6
    <2>8. Len(g2) <= Len(q2) + 1
      BY SMTT(30), <2>1, <2>3, <2>4, <2>6, <2>7
    <2> QED
      BY ZenonT(30), <2>5, <2>7, <2>8 DEF c, q2, g2
  <1>9. ASSUME NEW b \in Blocks, NEW e \in Events(b), e.op = "GET_BUF"
        PROVE  /\ e.rls = Cardinality(Before(b, e.buf, e.no)')
               /\ Executed(e)' => Cardinality(RanOf(b, "RLS_BUF", e.buf)') >= e.rls
    <2>1. e.rls = Cardinality(Before(b, e.buf, e.no)) /\ IsFiniteSet(Before(b, e.buf, e.no))
      <3>1. Before(b, e.buf, e.no) \in SUBSET Events(b) /\ IsFiniteSet(Events(b))
        BY Zenon DEF Before, BufInv
      <3> QED
        BY SMTT(30), <3>1, <1>9, FS_Subset DEF BufInv
    <2>2. Before(b, e.buf, e.no)' = Before(b, e.buf, e.no)
      BY Zenon, <1>1 DEF Before
    <2>3. e.rls \in Nat
      BY SMTT(30), <2>1, FS_CardinalityType
    <2>4. CASE e = h
      <3>1. b = blockIndex
        BY SMTT(30), <2>4, <1>2, EventFacts
      <3>2. Len(At(state.que, mine)) = Cardinality(RanOf(b, "RLS_BUF", e.buf))
        BY SMTT(30), <2>4, <3>1 DEF BufInv
      <3>3. ~(Len(At(state.que, mine)) < e.rls)
        BY SMTT(30), <1>4, <1>9, <2>4
      <3>4. Cardinality(RanOf(b, "RLS_BUF", e.buf)) \in Nat /\ Cardinality(RanOf(b, "RLS_BUF", e.buf)') >= Cardinality(RanOf(b, "RLS_BUF", e.buf))
        BY SMTT(30), <1>7
      <3>5. Cardinality(RanOf(b, "RLS_BUF", e.buf)') \in Nat
        BY SMTT(30), <1>7
      <3> QED
        BY SMTT(30), <2>1, <2>2, <2>3, <3>2, <3>3, <3>4, <3>5
    <2>5. CASE e # h
      <3>1. Executed(e)' => Executed(e)
        BY Zenon, <2>5 DEF Executed, h
      <3>2. Executed(e) => Cardinality(RanOf(b, "RLS_BUF", e.buf)) >= e.rls
        BY Zenon, <1>9 DEF BufInv
      <3>3. Cardinality(RanOf(b, "RLS_BUF", e.buf)) \in Nat /\ Cardinality(RanOf(b, "RLS_BUF", e.buf)') \in Nat
            /\ Cardinality(RanOf(b, "RLS_BUF", e.buf)') >= Cardinality(RanOf(b, "RLS_BUF", e.buf))
        BY SMTT(30), <1>7
      <3> QED
        BY SMTT(30), <2>1, <2>2, <2>3, <3>1, <3>2, <3>3
    <2> QED
      BY SMTT(30), <2>4, <2>5
  <1>10. \A b \in Blocks : IsFiniteSet(Events(b))
    BY Zenon DEF BufInv
  <1> HIDE DEF Adds, mine, r
  <1> QED
    BY ZenonT(30), <1>1, <1>8, <1>9, <1>10 DEF BufInv

(* An event that stalls leaves the channels of the buffers as they are.     *)
LEMMA HandleStalls ==
  ASSUME NEW s, {"que", "got"} \subseteq DOMAIN s, NEW b, NEW e,
         e.op \in Ops \ {"MEMCPY"}, e.op = "FFTS_SYNC" => e.mode \in {0, 1, 2, 4}, ~Handle(s, b, e).ok
  PROVE  LET r == Handle(s, b, e)
         IN  r.s.got = s.got /\ \A c : IsRls(c) => At(r.s.que, c) = At(s.que, c)
  <1> DEFINE r == Handle(s, b, e)
  <1>1. CASE e.op \notin {"GET_BUF", "RLS_BUF"}
    <2>1. SameBuffers(r.s, s)
      BY Zenon, <1>1, OthersApart
    <2> HIDE DEF r
    <2> QED
      BY Zenon, <2>1 DEF SameBuffers, r
  <1>2. CASE e.op = "RLS_BUF"
    <2>1. r.ok
      BY Zenon, <1>2 DEF Handle, MemOps, Store, Done
    <2> QED
      BY Zenon, <2>1
  <1>3. CASE e.op = "GET_BUF"
    <2>1. r.ok \/ r.s = s
      BY Zenon, <1>3 DEF Handle, MemOps, GetBuf, Done, Stalled
    <2>2. r.s = s
      BY Zenon, <2>1
    <2> HIDE DEF r
    <2> QED
      BY Zenon, <2>2 DEF r
  <1> QED
    BY Zenon, <1>1, <1>2, <1>3

(* A step of the loop keeps the counts.                                    *)
LEMMA BufRun ==
  ASSUME LineInv, BufInv, Run, UNCHANGED own
  PROVE  BufInv'
  <1> DEFINE h == Head(ques[Cur])
             r == Handle(state, blockIndex, h)
             to == <<0, blockIndex, h.pipe>>
  <1>1. Blocks' = Blocks /\ Queues' = Queues /\ \A b \in Blocks : Events(b)' = Events(b)
    BY Zenon DEF own, Blocks, Queues, Events
  <1>2. ques' = ques => Waiting' = Waiting
    BY Zenon, <1>1 DEF Waiting
  <1>3. CASE UNCHANGED <<ques, state>>
    BY SMTT(30), <1>1, <1>2, <1>3, BufFrame
  <1>4. CASE ProcessStalled
    <2>1. ques' = ques /\ pipeState = "PROCESS_EVENT"
      BY Zenon, <1>4 DEF ProcessStalled
    <2>2. ~r.ok /\ state' = r.s
      BY Zenon, <1>4, StallFacts
    <2>3. {"que", "got"} \subseteq DOMAIN state
      BY Zenon DEF LineInv, Types
    <2>4. r.s.got = state.got /\ \A c : IsRls(c) => At(r.s.que, c) = At(state.que, c)
      <3>1. h.op \in Ops \ {"MEMCPY"} /\ (h.op = "FFTS_SYNC" => h.mode \in {0, 1, 2, 4})
        BY Zenon, <2>1, HeadFacts
      <3> HIDE DEF h
      <3> QED
        BY SMTT(30), <3>1, <2>2, <2>3, HandleStalls
    <2> HIDE DEF r
    <2> QED
      BY SMTT(30), <2>1, <2>2, <2>4, <1>1, <1>2, BufFrame
  <1>5. CASE ProcessOk
    <2>1. PICK S : ques \in [Queues -> Seq(S)]
      BY Zenon DEF LineInv, Types, SeqTypes
    <2>2. pipeState = "PROCESS_EVENT"
      BY Zenon, <1>5 DEF ProcessOk
    <2>3. Cur \in Queues /\ ques[Cur] # <<>> /\ h = ques[Cur][1]
      BY Zenon, <1>5, PopFacts
    <2>4. CASE /\ to \in Queues /\ to # Cur
               /\ ques' = [x \in Queues |-> IF x = to THEN Append(ques[x], h)
                                            ELSE IF x = Cur THEN Tail(ques[x]) ELSE ques[x]]
               /\ state' = state
      <3> HIDE DEF h, to
      <3>1. Waiting' = Waiting
        BY ZenonT(30), <2>1, <2>3, <2>4, <1>1, WaitingMoved
      <3> QED
        BY SMTT(30), <3>1, <2>4, <1>1, BufFrame
    <2>5. CASE /\ ques' = [x \in Queues |-> IF x = Cur THEN Tail(ques[x]) ELSE ques[x]]
               /\ r.ok /\ state' = r.s
      <3>1. Waiting' = Waiting \ {h}
        <4> HIDE DEF h, r
        <4> QED
          BY SMTT(30), <2>3, <2>5, <1>1, WaitingGone
      <3> QED
        BY SMTT(30), <3>1, <2>2, <2>5, BufExecute
    <2> QED
      BY Zenon, <2>4, <2>5, <1>5, PopFacts
  <1>6. UNCHANGED <<ques, state>> \/ ProcessOk \/ ProcessStalled
    BY Zenon DEF Run, CheckAllDevice, StayOnDevice, NextDevice, GiveUp, StayOnBlock, NextBlock, SkipPipe, EnterPipe
  <1> QED
    BY SMTT(30), <1>3, <1>4, <1>5, <1>6

(* New events are in the program, and they wait.                           *)
LEMMA CollectFacts ==
  ASSUME LineInv, NEW b \in Blocks, NEW e \in Shapes(kernelInfo, b), Collect(b, e)
  PROVE  LET New == Range(Stamp(b, e))
         IN  /\ Blocks' = Blocks /\ Queues' = Queues
             /\ Events(b)' = Events(b) \cup New /\ \A c \in Blocks \ {b} : Events(c)' = Events(c)
             /\ Waiting' = Waiting \cup New
             /\ \A f \in New : f.block = b /\ f.no \in Nat /\ f.no > Len(program[b])
             /\ \A c \in Blocks : \A f \in Events(c) : f \notin New /\ f.no \in 1..Len(program[c])
  <1> DEFINE st == Stamp(b, e)
             n == Len(program[b])
             New == Range(st)
             here == <<0, b, PIPE_S>>
  <1>1. PICK R : program \in [Blocks -> Seq(R)] /\ ques \in [Queues -> Seq(R)]
    BY Zenon DEF LineInv, Types, SeqTypes
  <1>2. PICK T : st \in Seq(T)
    BY Zenon, StampFacts
  <1>3. /\ program' = [program EXCEPT ![b] = @ \o st] /\ ques' = [ques EXCEPT ![here] = @ \o st]
        /\ Blocks' = Blocks /\ Queues' = Queues
    BY Zenon DEF Collect, Blocks, Queues
  <1>4. /\ \A i \in DOMAIN st : st[i].no = n + i /\ st[i].block = b
        /\ DOMAIN st \in {1..1, 1..2}
    <2>1. (\A i \in DOMAIN st : StampedAs(b, i, st[i])) /\ DOMAIN st \in {1..1, 1..2}
      BY Zenon, StampFacts
    <2> QED
      BY Zenon, <2>1 DEF StampedAs
  <1> HIDE DEF st
  <1>6. here \in Queues
    BY Zenon, QueueFacts
  <1>7. ASSUME NEW s \in Seq(R) PROVE Range(s \o st) = Range(s) \cup New
    <2>1. s \in Seq(R \cup T) /\ st \in Seq(R \cup T)
      BY SMTT(30), <1>2
    <2>2. /\ Len(s) \in Nat /\ Len(st) \in Nat /\ DOMAIN s = 1..Len(s) /\ DOMAIN st = 1..Len(st)
          /\ DOMAIN (s \o st) = 1..(Len(s) + Len(st))
          /\ \A i \in 1..Len(s) : (s \o st)[i] = s[i]
          /\ \A i \in 1..Len(st) : (s \o st)[Len(s) + i] = st[i]
      BY SMTT(30), <2>1, ConcatFacts
    <2>3. ASSUME NEW i \in DOMAIN (s \o st) PROVE (s \o st)[i] \in Range(s) \cup New
      <3>1. CASE i \in 1..Len(s)
        BY Zenon, <3>1, <2>2 DEF Range
      <3>2. CASE i \notin 1..Len(s)
        <4>1. i - Len(s) \in 1..Len(st) /\ Len(s) + (i - Len(s)) = i
          BY SMTT(30), <3>2, <2>2
        <4>2. (s \o st)[i] = st[i - Len(s)]
          BY Zenon, <4>1, <2>2
        <4> QED
          BY SMTT(30), <4>1, <4>2, <2>2 DEF Range
      <3> QED
        BY Zenon, <3>1, <3>2
    <2>4. ASSUME NEW i \in DOMAIN s PROVE s[i] \in Range(s \o st)
      <3>1. i \in DOMAIN (s \o st) /\ (s \o st)[i] = s[i]
        BY SMTT(30), <2>2
      <3> QED
        BY Zenon, <3>1 DEF Range
    <2>5. ASSUME NEW i \in DOMAIN st PROVE st[i] \in Range(s \o st)
      <3>1. Len(s) + i \in DOMAIN (s \o st) /\ (s \o st)[Len(s) + i] = st[i]
        BY <2>2
      <3> QED
        BY Zenon, <3>1 DEF Range
    <2>6. Range(s \o st) \subseteq Range(s) \cup New
      BY Zenon, <2>3 DEF Range
    <2>7. Range(s) \cup New \subseteq Range(s \o st)
      <3>1. \A x \in Range(s) : x \in Range(s \o st)
        BY Zenon, <2>4 DEF Range
      <3>2. \A x \in New : x \in Range(s \o st)
        BY Zenon, <2>5 DEF Range
      <3> QED
        BY Zenon, <3>1, <3>2
    <2> QED
      BY SMTT(30), <2>6, <2>7
  <1>8. Events(b)' = Events(b) \cup New /\ \A c \in Blocks \ {b} : Events(c)' = Events(c)
    <2>1. program'[b] = program[b] \o st /\ \A c \in Blocks \ {b} : program'[c] = program[c]
      BY Zenon, <1>1, <1>3
    <2> QED
      BY Zenon, <2>1, <1>1, <1>7 DEF Events
  <1>9. Waiting' = Waiting \cup New
    <2>1. ques'[here] = ques[here] \o st /\ \A x \in Queues \ {here} : ques'[x] = ques[x]
      BY Zenon, <1>1, <1>3, <1>6
    <2>2. Range(ques'[here]) = Range(ques[here]) \cup New
      BY Zenon, <2>1, <1>1, <1>6, <1>7
    <2>3. Waiting' = UNION {Range(ques'[q]) : q \in Queues}
      BY Zenon, <1>3 DEF Waiting
    <2> HIDE DEF here, New
    <2> QED
      BY ZenonT(30), <2>1, <2>2, <2>3, <1>6 DEF Waiting
  <1>10. \A f \in New : f.block = b /\ f.no \in Nat /\ f.no > n
    <2>1. n \in Nat
      BY <1>1
    <2> SUFFICES ASSUME NEW f \in New PROVE f.block = b /\ f.no \in Nat /\ f.no > n
      BY Zenon
    <2>2. PICK i \in DOMAIN st : f = st[i]
      BY Zenon DEF Range
    <2>3. f.block = b /\ f.no = n + i
      BY Zenon, <2>2, <1>4
    <2>4. i \in Nat \ {0}
      BY <1>4
    <2> QED
      BY SMTT(30), <2>1, <2>3, <2>4
  <1> HIDE DEF New
  <1>11. \A c \in Blocks : \A f \in Events(c) : f \notin New /\ f.no \in 1..Len(program[c])
    BY SMTT(30), <1>10, EventFacts
  <1> QED
    BY ZenonT(30), <1>3, <1>8, <1>9, <1>10, <1>11 DEF New, st

(* New events wait, and change no count.                                   *)
LEMMA BufCollect ==
  ASSUME LineInv, BufInv, NEW b \in Blocks, NEW e \in Shapes(kernelInfo, b), Collect(b, e)
  PROVE  BufInv'
  <1> DEFINE st == Stamp(b, e)
             n == Len(program[b])
             New == Range(st)
  <1>1. PICK R : program \in [Blocks -> Seq(R)] /\ ques \in [Queues -> Seq(R)]
    BY Zenon DEF LineInv, Types, SeqTypes
  <1>2. Blocks' = Blocks
    BY Zenon DEF Collect, Blocks
  <1>3. /\ \A i \in DOMAIN st : /\ st[i].no = n + i /\ st[i].block = b
                                /\ st[i].op = "GET_BUF" =>
                                     i = 1 /\ st[i].rls = Cardinality({f \in Events(b) : OfBuf(f, "RLS_BUF", st[i].buf)})
        /\ DOMAIN st \in {1..1, 1..2}
    <2>1. (\A i \in DOMAIN st : StampedAs(b, i, st[i])) /\ DOMAIN st \in {1..1, 1..2}
      BY Zenon, StampFacts
    <2> QED
      BY Zenon, <2>1 DEF StampedAs
  <1>4. state'.que = state.que /\ state'.got = state.got
    <2>1. {"que", "got"} \subseteq DOMAIN state
      BY Zenon DEF LineInv, Types
    <2> QED
      BY Zenon, <2>1 DEF Collect, CacheMstxCrossSet
  <1> HIDE DEF st
  <1>5. /\ Events(b)' = Events(b) \cup New /\ \A c \in Blocks \ {b} : Events(c)' = Events(c)
        /\ Waiting' = Waiting \cup New
        /\ \A f \in New : f.block = b /\ f.no \in Nat /\ f.no > n
        /\ \A c \in Blocks : \A f \in Events(c) : f \notin New /\ f.no \in 1..Len(program[c])
    BY Zenon, CollectFacts DEF st
  <1>6. IsFiniteSet(New)
    <2>1. New \subseteq {st[1], st[2]}
      BY SMTT(30), <1>3 DEF Range
    <2>2. IsFiniteSet({st[1], st[2]})
      <3>1. IsFiniteSet({st[1]}) /\ {st[1], st[2]} = {st[1]} \cup {st[2]}
        BY Zenon, FS_Singleton
      <3> QED
        BY ZenonT(30), <3>1, FS_AddElement
    <2> QED
      BY ZenonT(30), <2>1, <2>2, FS_Subset
  <1> HIDE DEF New
  <1>7. \A c \in Blocks : \A op, x : RanOf(c, op, x)' = RanOf(c, op, x)
    <2> SUFFICES ASSUME NEW c \in Blocks, NEW op, NEW x PROVE RanOf(c, op, x)' = RanOf(c, op, x)
      BY Zenon
    <2>1. RanOf(c, op, x)' = {f \in Events(c)' : f \notin Waiting' /\ OfBuf(f, op, x)}
      BY Zenon DEF RanOf, Executed
    <2>2. RanOf(c, op, x) = {f \in Events(c) : f \notin Waiting /\ OfBuf(f, op, x)}
      BY Zenon DEF RanOf, Executed
    <2> QED
      BY SMTT(30), <2>1, <2>2, <1>5
  <1>8. \A c \in Blocks : \A f \in Events(c) :
           (Executed(f)' <=> Executed(f)) /\ \A x : Before(c, x, f.no)' = Before(c, x, f.no)
    <2> SUFFICES ASSUME NEW c \in Blocks, NEW f \in Events(c)
                 PROVE  (Executed(f)' <=> Executed(f)) /\ \A x : Before(c, x, f.no)' = Before(c, x, f.no)
      BY Zenon
    <2>1. Executed(f)' <=> Executed(f)
      BY SMTT(30), <1>5 DEF Executed
    <2>2. \A g \in Events(c)' : g.no < f.no => g \in Events(c)
      BY <1>5
    <2>3. Events(c) \subseteq Events(c)'
      BY Zenon, <1>5
    <2> QED
      BY SMTT(30), <2>1, <2>2, <2>3 DEF Before
  <1>9. ASSUME NEW f \in New, f.op = "GET_BUF"
         PROVE  ~Executed(f)' /\ f.rls = Cardinality(Before(b, f.buf, f.no)')
    <2>1. PICK i \in DOMAIN st : f = st[i]
      BY Zenon DEF New, Range
    <2>2. f.no = n + 1 /\ f.rls = Cardinality({g \in Events(b) : OfBuf(g, "RLS_BUF", f.buf)}) /\ n \in Nat
      <3>1. st[i].op = "GET_BUF" /\ st[i].no = n + i
        BY Zenon, <2>1, <1>3, <1>9
      <3>2. i = 1 /\ st[i].rls = Cardinality({g \in Events(b) : OfBuf(g, "RLS_BUF", st[i].buf)})
        BY Zenon, <3>1, <1>3
      <3>3. n \in Nat
        BY SMTT(30), <1>1
      <3> QED
        BY Zenon, <2>1, <3>1, <3>2, <3>3
    <2>3. \A g \in New : ~(g.no < f.no)
      BY SMTT(30), <2>2, <1>5
    <2>4. \A g \in Events(b) : g.no < f.no
      BY SMTT(30), <2>2, <1>5
    <2>5. Before(b, f.buf, f.no)' = {g \in Events(b) : OfBuf(g, "RLS_BUF", f.buf)}
      BY Zenon, <2>3, <2>4, <1>5 DEF Before
    <2> QED
      BY Zenon, <2>2, <2>5, <1>5 DEF Executed
  <1>10. ASSUME NEW c \in Blocks
         PROVE  IsFiniteSet(Events(c)')
    <2>1. IsFiniteSet(Events(c)) /\ IsFiniteSet(Events(c) \cup New)
      BY Zenon, <1>6, FS_Union DEF BufInv
    <2> QED
      BY Zenon, <2>1, <1>5
  <1>11. ASSUME NEW c \in Blocks, NEW f \in Events(c)', f.op = "GET_BUF"
         PROVE  /\ f.rls = Cardinality(Before(c, f.buf, f.no)')
                /\ Executed(f)' => Cardinality(RanOf(c, "RLS_BUF", f.buf)') >= f.rls
    <2>1. CASE f \in Events(c)
      <3>1. /\ f.rls = Cardinality(Before(c, f.buf, f.no))
            /\ Executed(f) => Cardinality(RanOf(c, "RLS_BUF", f.buf)) >= f.rls
        BY Zenon, <2>1, <1>11 DEF BufInv
      <3>2. /\ Before(c, f.buf, f.no)' = Before(c, f.buf, f.no) /\ (Executed(f)' <=> Executed(f))
            /\ RanOf(c, "RLS_BUF", f.buf)' = RanOf(c, "RLS_BUF", f.buf)
        BY ZenonT(30), <2>1, <1>7, <1>8
      <3> QED
        BY Zenon, <3>1, <3>2
    <2>2. CASE f \notin Events(c)
      <3>1. c = b /\ f \in New
        BY ZenonT(30), <2>2, <1>5
      <3> QED
        BY Zenon, <3>1, <1>9, <1>11
    <2> QED
      BY Zenon, <2>1, <2>2
  <1>12. ASSUME NEW c \in Blocks, NEW x
         PROVE  LET d == <<"rls", c, x>>
                IN  /\ At(state'.que, d) \in Seq({NoTime}) /\ At(state'.got, d) \in Seq({NoTime})
                    /\ Len(At(state'.que, d)) = Cardinality(RanOf(c, "RLS_BUF", x)')
                    /\ Len(At(state'.got, d)) = Cardinality(RanOf(c, "GET_BUF", x)')
                    /\ Len(At(state'.got, d)) <= Len(At(state'.que, d)) + 1
    BY SMTT(30), <1>4, <1>7 DEF BufInv
  <1> QED
    BY ZenonT(30), <1>2, <1>10, <1>11, <1>12 DEF BufInv

(* The counts of the buffers are an invariant of the replayer.             *)
THEOREM BufInvariance == Spec => []BufInv
  <1>1. Init => BufInv
    BY Zenon, InitFresh, FreshBuf
  <1>2. Fresh' => BufInv'
    BY FreshBuf, PTL
  <1>3. LineInv /\ BufInv /\ [Next]_vars => BufInv'
    <2> SUFFICES ASSUME LineInv, BufInv, [Next]_vars PROVE BufInv'
      BY Zenon
    <2>1. CASE \E b \in Blocks : \E e \in Shapes(kernelInfo, b) : Collect(b, e)
      BY Zenon, <2>1, BufCollect
    <2>2. CASE Replay
      BY Zenon, <2>2, BufRun DEF Replay
    <2>3. CASE KernelFinish \/ Finish \/ UNCHANGED vars
      <3>1. UNCHANGED <<ques, state, kernelInfo, program>>
        BY Zenon, <2>3 DEF KernelFinish, Finish, vars, own
      <3>2. Blocks' = Blocks /\ Waiting' = Waiting /\ \A b \in Blocks : Events(b)' = Events(b)
        BY Zenon, <3>1 DEF Blocks, Waiting, Queues, Events
      <3> QED
        BY SMTT(30), <3>1, <3>2, BufFrame
    <2>4. CASE \E k \in Kernels : NextKernel(k)
      BY SMTT(30), <2>4, <1>2, NextKernelFresh
    <2> QED
      BY SMTT(30), <2>1, <2>2, <2>3, <2>4 DEF Next
  <1> QED
    BY <1>1, <1>3, LineInvariance, PTL DEF Spec

(* ProcessGetRlsBufSyncEvent: in every replay a get of a buffer passes     *)
(* only after as many releases of it as the program has before the get,    *)
(* and never twice without a release between: GetAfterReleases.            *)
THEOREM GetsWaitForReleases == Spec => []GetAfterReleases
  BY BufInvariance, BufInvGives, PTL

=============================================================================
