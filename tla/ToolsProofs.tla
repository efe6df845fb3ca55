------------------------------ MODULE ToolsProofs ------------------------------
(* PeerAccessManager, RegisterSanitizer and SyncSanitizer, for any processes, *)
(* devices, sanitizers, cores, blocks, registers, pipes, flags and programs.  *)
EXTENDS MCTools, FiniteSetTheorems, TLAPS

-----------------------------------------------------------------------------
(* PeerAccessManager: the tables of registrations.                         *)

(* The inductive invariant: a sanitizer is filed under its own process,    *)
(* and no device is a peer of itself.                                      *)
OwnProcess == \A s \in Sanitizers : sources[s] # Nobody => pid[s] = sources[s][1]

NoSelf == \A p \in Pids : \A r \in relations[p] : r[1] # r[2]

IndInv == TypeOK /\ NoDangling /\ RegisteredOnce /\ OwnProcess /\ NoSelf

(* The types of the tables UnregisterDevice leaves, and what they hold. *)
LEMMA DroppedFacts ==
  ASSUME TypeOK, NEW s \in Sanitizers
  PROVE  /\ Dropped(s) \in [Pids -> [Devs -> Sanitizers \cup {Nobody}]]
         /\ \A p \in Pids, d \in Devs :
              Dropped(s)[p][d] = IF devices[p][d] = s THEN Nobody ELSE devices[p][d]
BY ZenonT(30) DEF TypeOK, Dropped

(* Every operation keeps the types. *)
LEMMA TypeStep == TypeOK /\ [Next]_vars => TypeOK'
<1> SUFFICES ASSUME TypeOK, [Next]_vars PROVE TypeOK'
  BY Zenon
<1>1. CASE \E s \in Sanitizers : Create(s)
  BY Zenon, <1>1 DEF TypeOK, Create
<1>2. ASSUME NEW s \in Sanitizers, Destroy(s) PROVE TypeOK'
  BY ZenonT(60), <1>2, DroppedFacts DEF TypeOK, Destroy
<1>3. ASSUME NEW s \in Sanitizers, NEW p \in Pids \cup {NoPid}, NEW d \in Devs,
             NEW ready \in BOOLEAN, SetDeviceInfo(s, p, d, ready)
      PROVE  TypeOK'
  <2> DEFINE own == IF pid[s] = NoPid THEN p ELSE pid[s]
  <2>1. own \in Pids \cup {NoPid}
    BY Zenon DEF TypeOK
  <2>2. alive' = alive /\ covers' = covers /\ relations' = relations /\ pid' = [pid EXCEPT ![s] = own]
    BY Zenon, <1>3 DEF SetDeviceInfo
  <2>3. devices' \in [Pids -> [Devs -> Sanitizers \cup {Nobody}]]
    <3>1. CASE own = NoPid
      BY Zenon, <1>3, <3>1 DEF SetDeviceInfo, TypeOK
    <3>2. CASE own # NoPid /\ ready
      <4>1. devices' = [Dropped(s) EXCEPT ![own] = [@ EXCEPT ![d] = s]]
        BY Zenon, <1>3, <3>2 DEF SetDeviceInfo
      <4>2. QED
        BY <4>1, <3>2, <2>1, DroppedFacts
    <3>3. CASE own # NoPid /\ ~ready
      BY <1>3, <3>3, DroppedFacts DEF SetDeviceInfo
    <3>4. QED
      BY Zenon, <3>1, <3>2, <3>3
  <2>4. sources' \in [Sanitizers -> (Pids \X Devs) \cup {Nobody}]
    BY <1>3, <2>1 DEF SetDeviceInfo, TypeOK
  <2>5. QED
    BY Zenon, <2>1, <2>2, <2>3, <2>4 DEF TypeOK
<1>4. CASE \E s \in Sanitizers, new \in SUBSET Addrs : HostRecord(s, new)
  BY <1>4 DEF TypeOK, HostRecord
<1>5. ASSUME NEW p \in Pids, NEW d \in Devs, NEW e \in Devs, Enable(p, d, e) \/ Disable(p, d, e)
      PROVE  TypeOK'
  <2>1. <<d, e>> \in Devs \X Devs
    BY Zenon
  <2>2. relations' \in [Pids -> SUBSET (Devs \X Devs)]
    <3>1. CASE Enable(p, d, e)
      BY Zenon, <2>1, <3>1 DEF TypeOK, Enable
    <3>2. CASE Disable(p, d, e)
      BY Zenon, <3>2 DEF TypeOK, Disable
    <3>3. QED
      BY Zenon, <1>5, <3>1, <3>2
  <2>3. UNCHANGED <<alive, pid, covers, devices, sources>>
    BY Zenon, <1>5 DEF Enable, Disable
  <2>4. QED
    BY Zenon, <2>2, <2>3 DEF TypeOK
<1>6. ASSUME NEW p \in Pids, NEW d \in Devs, Reset(p, d) PROVE TypeOK'
  <2>1. Untied(relations[p], d) \subseteq relations[p]
    BY Zenon DEF Untied
  <2>2. QED
    BY Zenon, <1>6, <2>1 DEF TypeOK, Reset
<1>7. CASE \E s \in Sanitizers, access \in SUBSET Addrs : CheckRemote(s, access)
  BY Zenon, <1>7 DEF TypeOK, CheckRemote
<1>8. CASE Clear
  BY Zenon, <1>8 DEF TypeOK, Clear
<1>9. CASE UNCHANGED vars
  BY Zenon, <1>9 DEF TypeOK, vars
<1>10. QED
  BY Zenon, <1>1, <1>2, <1>3, <1>4, <1>5, <1>6, <1>7, <1>8, <1>9 DEF Next

(* What the tables of registrations say after SetDeviceInfo. *)
LEMMA SetDeviceInfoFacts ==
  ASSUME TypeOK, NEW s \in Sanitizers, NEW p \in Pids \cup {NoPid}, NEW d \in Devs,
         NEW ready \in BOOLEAN, SetDeviceInfo(s, p, d, ready), pid'[s] # NoPid
  PROVE  /\ pid'[s] \in Pids
         /\ sources'[s] = IF ready THEN <<pid'[s], d>> ELSE Nobody
         /\ \A t \in Sanitizers \ {s} : sources'[t] = sources[t] /\ pid'[t] = pid[t]
         /\ \A q \in Pids, e \in Devs :
              devices'[q][e] = IF ready /\ q = pid'[s] /\ e = d THEN s
                               ELSE IF devices[q][e] = s THEN Nobody ELSE devices[q][e]
<1> DEFINE own == IF pid[s] = NoPid THEN p ELSE pid[s]
<1>1. pid' = [pid EXCEPT ![s] = own] /\ own = pid'[s] /\ own \in Pids
  BY Zenon DEF SetDeviceInfo, TypeOK
<1>2. CASE ready
  <2>1. devices' = [Dropped(s) EXCEPT ![own] = [@ EXCEPT ![d] = s]]
    BY Zenon, <1>1, <1>2, NobodyAssumption DEF SetDeviceInfo
  <2>2. sources' = [sources EXCEPT ![s] = <<own, d>>]
    BY Zenon, <1>1, <1>2, NobodyAssumption DEF SetDeviceInfo
  <2>3. QED
    BY SMTT(30), <1>1, <1>2, <2>1, <2>2, DroppedFacts DEF TypeOK
<1>3. CASE ~ready
  <2>1. devices' = Dropped(s) /\ sources' = [sources EXCEPT ![s] = Nobody]
    BY Zenon, <1>1, <1>3, NobodyAssumption DEF SetDeviceInfo
  <2>2. QED
    BY SMTT(30), <1>1, <1>3, <2>1, DroppedFacts DEF TypeOK
<1>4. QED
  BY Zenon, <1>2, <1>3

(* Every operation keeps the rest of the invariant. *)
LEMMA FileStep ==
  IndInv /\ [Next]_vars => NoDangling' /\ RegisteredOnce' /\ OwnProcess' /\ NoSelf'
<1> SUFFICES ASSUME IndInv, [Next]_vars
             PROVE  NoDangling' /\ RegisteredOnce' /\ OwnProcess' /\ NoSelf'
  BY Zenon
<1> USE NobodyAssumption
<1>1. ASSUME NEW s \in Sanitizers, Create(s)
      PROVE  NoDangling' /\ RegisteredOnce' /\ OwnProcess' /\ NoSelf'
  <2>1. s \notin alive /\ alive' = alive \cup {s} /\ pid' = [pid EXCEPT ![s] = NoPid]
        /\ devices' = devices /\ sources' = sources /\ relations' = relations
    BY Zenon, <1>1 DEF Create
  <2>2. sources[s] = Nobody /\ \A p \in Pids, d \in Devs : devices[p][d] # s
    BY Zenon, <2>1 DEF IndInv, NoDangling
  <2>3. NoDangling'
    BY Zenon, <2>1 DEF IndInv, NoDangling
  <2>4. RegisteredOnce'
    BY <2>1, <2>2 DEF IndInv, RegisteredOnce, TypeOK
  <2>5. OwnProcess' /\ NoSelf'
    BY Zenon, <2>1, <2>2 DEF IndInv, OwnProcess, NoSelf, TypeOK
  <2>6. QED
    BY Zenon, <2>3, <2>4, <2>5
<1>2. ASSUME NEW s \in Sanitizers, Destroy(s)
      PROVE  NoDangling' /\ RegisteredOnce' /\ OwnProcess' /\ NoSelf'
  <2>1. alive' = alive \ {s} /\ pid' = pid /\ relations' = relations
    BY Zenon, <1>2 DEF Destroy
  <2>2. /\ \A p \in Pids, d \in Devs :
             devices'[p][d] = IF devices[p][d] = s THEN Nobody ELSE devices[p][d]
        /\ sources'[s] = Nobody
        /\ \A t \in Sanitizers \ {s} : sources'[t] = sources[t]
    <3>1. CASE pid[s] = NoPid
      <4>1. devices' = devices /\ sources' = sources
        BY Zenon, <1>2, <3>1 DEF Destroy
      <4>2. sources[s] = Nobody
        BY Zenon, <3>1 DEF IndInv, OwnProcess, TypeOK
      <4>3. \A p \in Pids, d \in Devs : devices[p][d] # s
        BY SMTT(30), <3>1 DEF IndInv, RegisteredOnce
      <4>4. QED
        BY Zenon, <4>1, <4>2, <4>3
    <3>2. CASE pid[s] # NoPid
      BY SMTT(30), <1>2, <3>2, DroppedFacts DEF Destroy, IndInv, TypeOK
    <3>3. QED
      BY Zenon, <3>1, <3>2
  <2>3. NoDangling'
    BY SMTT(30), <2>1, <2>2 DEF IndInv, NoDangling
  <2>4. RegisteredOnce'
    BY <2>1, <2>2 DEF IndInv, RegisteredOnce, TypeOK
  <2>5. OwnProcess' /\ NoSelf'
    BY Zenon, <2>1, <2>2 DEF IndInv, OwnProcess, NoSelf
  <2>6. QED
    BY Zenon, <2>3, <2>4, <2>5
<1>3. ASSUME NEW s \in Sanitizers, NEW p \in Pids \cup {NoPid}, NEW d \in Devs,
             NEW ready \in BOOLEAN, SetDeviceInfo(s, p, d, ready)
      PROVE  NoDangling' /\ RegisteredOnce' /\ OwnProcess' /\ NoSelf'
  <2>1. s \in alive /\ alive' = alive /\ relations' = relations
    BY Zenon, <1>3 DEF SetDeviceInfo
  <2>2. CASE pid'[s] = NoPid
    <3>1. pid' = pid /\ devices' = devices /\ sources' = sources
      BY Zenon, <1>3, <2>2 DEF SetDeviceInfo, IndInv, TypeOK
    <3>2. QED
      BY <2>1, <3>1 DEF IndInv, NoDangling, RegisteredOnce, OwnProcess, NoSelf
  <2>3. CASE pid'[s] # NoPid
    <3>1. /\ pid'[s] \in Pids
          /\ sources'[s] = IF ready THEN <<pid'[s], d>> ELSE Nobody
          /\ \A t \in Sanitizers \ {s} : sources'[t] = sources[t] /\ pid'[t] = pid[t]
          /\ \A q \in Pids, e \in Devs :
               devices'[q][e] = IF ready /\ q = pid'[s] /\ e = d THEN s
                                ELSE IF devices[q][e] = s THEN Nobody ELSE devices[q][e]
      BY SMTT(30), <1>3, <2>3, SetDeviceInfoFacts DEF IndInv
    <3>2. NoDangling'
      BY SMTT(30), <2>1, <3>1 DEF IndInv, NoDangling
    <3>3. RegisteredOnce'
      BY SMTT(30), <3>1 DEF IndInv, RegisteredOnce, TypeOK
    <3>4. OwnProcess' /\ NoSelf'
      BY SMTT(30), <2>1, <3>1 DEF IndInv, OwnProcess, NoSelf
    <3>5. QED
      BY Zenon, <3>2, <3>3, <3>4
  <2>4. QED
    BY Zenon, <2>2, <2>3
<1>4. CASE \/ \E s \in Sanitizers, new \in SUBSET Addrs : HostRecord(s, new)
           \/ \E s \in Sanitizers, access \in SUBSET Addrs : CheckRemote(s, access)
           \/ UNCHANGED vars
  <2>1. UNCHANGED <<alive, pid, relations, devices, sources>>
    BY Zenon, <1>4 DEF HostRecord, CheckRemote, vars
  <2>2. QED
    BY <2>1 DEF IndInv, NoDangling, RegisteredOnce, OwnProcess, NoSelf
<1>5. CASE \/ \E p \in Pids, d, e \in Devs : Enable(p, d, e) \/ Disable(p, d, e)
           \/ \E p \in Pids, d \in Devs : Reset(p, d)
  <2>1. UNCHANGED <<alive, pid, devices, sources>>
    BY Zenon, <1>5 DEF Enable, Disable, Reset
  <2>2. NoSelf'
    <3>1. ASSUME NEW p \in Pids, NEW d \in Devs, NEW e \in Devs, Enable(p, d, e) \/ Disable(p, d, e)
          PROVE  NoSelf'
      <4>1. CASE Enable(p, d, e)
        BY <4>1 DEF IndInv, TypeOK, NoSelf, Enable
      <4>2. CASE Disable(p, d, e)
        BY Zenon, <4>2 DEF IndInv, TypeOK, NoSelf, Disable
      <4>3. QED
        BY Zenon, <3>1, <4>1, <4>2
    <3>2. ASSUME NEW p \in Pids, NEW d \in Devs, Reset(p, d) PROVE NoSelf'
      <4>1. Untied(relations[p], d) \subseteq relations[p]
        BY Zenon DEF Untied
      <4>2. QED
        BY Zenon, <3>2, <4>1 DEF IndInv, TypeOK, NoSelf, Reset
    <3>3. QED
      BY Zenon, <1>5, <3>1, <3>2
  <2>3. QED
    BY Zenon, <2>1, <2>2 DEF IndInv, NoDangling, RegisteredOnce, OwnProcess
<1>6. CASE Clear
  BY Zenon, <1>6 DEF Clear, NoDangling, RegisteredOnce, OwnProcess, NoSelf
<1>7. QED
  BY Zenon, <1>1, <1>2, <1>3, <1>4, <1>5, <1>6 DEF Next

(* The invariant holds of every behaviour of PeerAccessManager. *)
THEOREM Inductive == Spec => []IndInv
<1>1. Init => IndInv
  BY DEF Init, IndInv, TypeOK, NoDangling, RegisteredOnce, OwnProcess, NoSelf
<1>2. IndInv /\ [Next]_vars => IndInv'
  BY Zenon, TypeStep, FileStep DEF IndInv
<1>3. QED
  BY <1>1, <1>2, PTL DEF Spec

(* Type correctness of PeerAccessManager. *)
THEOREM TypeCorrect == Spec => []TypeOK
BY Inductive, PTL DEF IndInv

(* Nothing on file in PeerAccessManager outlives its sanitizer. *)
THEOREM NeverDangling == Spec => []NoDangling
BY Inductive, PTL DEF IndInv

(* A sanitizer is registered for one device, of its own process. *)
THEOREM OneRegistration == Spec => []RegisteredOnce
BY Inductive, PTL DEF IndInv

(* CheckRemote grants an access only by a live sanitizer of another device *)
(* of the same process. *)
THEOREM GrantsByPeers == Spec => []GrantIsFromPeer
<1>1. IndInv => GrantIsFromPeer
  <2> SUFFICES ASSUME IndInv, NEW s \in alive, NEW a \in Addrs, Grants(s, {a})
               PROVE  \E t \in alive \ {s} : pid[t] = pid[s] /\ a \in covers[t]
    BY Zenon DEF GrantIsFromPeer, IndInv, NoSelf
  <2> USE NobodyAssumption
  <2>1. s \in Sanitizers /\ sources[s] \in Pids \X Devs /\ pid[s] = sources[s][1]
    BY Zenon DEF IndInv, TypeOK, OwnProcess, Grants
  <2>2. PICK r \in relations[sources[s][1]] :
          /\ r[1] = sources[s][2]
          /\ devices[sources[s][1]][r[2]] # Nobody
          /\ {a} \subseteq covers[devices[sources[s][1]][r[2]]]
    BY Zenon DEF Grants
  <2>3. sources[s][1] \in Pids /\ r[2] \in Devs /\ r[1] # r[2]
    BY SMTT(30), <2>1 DEF IndInv, TypeOK, NoSelf
  <2> DEFINE t == devices[sources[s][1]][r[2]]
  <2>4. t \in alive /\ sources[t] = <<sources[s][1], r[2]>> /\ pid[t] = sources[s][1]
    BY SMTT(30), <2>2, <2>3 DEF IndInv, NoDangling, RegisteredOnce
  <2>5. t # s
    <3> HIDE DEF t
    <3>1. sources[t][2] = r[2]
      <4>1. sources[t] = <<sources[s][1], r[2]>>
        BY Zenon, <2>4
      <4>2. sources[t][2] = <<sources[s][1], r[2]>>[2]
        BY Zenon, <4>1
      <4> QED
        BY SMTT(30), <4>2
    <3>2. sources[s][2] = r[1]
      BY Zenon, <2>2
    <3> QED BY Zenon, <3>1, <3>2, <2>3
  <2>6. QED
    BY Zenon, <2>1, <2>2, <2>4, <2>5
<1>2. QED
  BY <1>1, Inductive, PTL

(* Only a sanitizer itself, its successor or Clear ends its registration. *)
THEOREM SuccessorSurvives == Spec => NewSurvivesOld
<1> DEFINE Step == \A p \in Pids, d \in Devs :
       devices'[p][d] # devices[p][d] =>
         \/ op'.name = "Clear"
         \/ op'.sanitizer \in {devices[p][d], devices'[p][d]} \ {Nobody}
<1>1. IndInv /\ [Next]_vars => [Step]_vars
  <2> SUFFICES ASSUME IndInv, Next PROVE Step
    BY Zenon
  <2> USE NobodyAssumption
  <2>1. ASSUME NEW s \in Sanitizers, Create(s) \/ Destroy(s) PROVE Step
    BY SMTT(30), <2>1, DroppedFacts DEF Create, Destroy, Op, IndInv
  <2>2. ASSUME NEW s \in Sanitizers, NEW p \in Pids \cup {NoPid}, NEW d \in Devs,
               NEW ready \in BOOLEAN, SetDeviceInfo(s, p, d, ready)
        PROVE  Step
    <3>1. op'.sanitizer = s
      BY Zenon, <2>2 DEF SetDeviceInfo, Op
    <3>2. CASE pid'[s] = NoPid
      <4>1. devices' = devices
        BY Zenon, <2>2, <3>2 DEF SetDeviceInfo, IndInv, TypeOK
      <4>2. QED
        BY Zenon, <4>1
    <3>3. CASE pid'[s] # NoPid
      <4>1. /\ pid'[s] \in Pids
            /\ sources'[s] = IF ready THEN <<pid'[s], d>> ELSE Nobody
            /\ \A t \in Sanitizers \ {s} : sources'[t] = sources[t] /\ pid'[t] = pid[t]
            /\ \A q \in Pids, e \in Devs :
                 devices'[q][e] = IF ready /\ q = pid'[s] /\ e = d THEN s
                                  ELSE IF devices[q][e] = s THEN Nobody ELSE devices[q][e]
        BY <2>2, <3>3, SetDeviceInfoFacts DEF IndInv
      <4>2. QED
        BY <4>1, <3>1, s # Nobody
    <3>4. QED
      BY Zenon, <3>2, <3>3
  <2>3. CASE Clear
    BY Zenon, <2>3 DEF Clear, Op
  <2>4. CASE \/ \E s \in Sanitizers, new \in SUBSET Addrs : HostRecord(s, new)
             \/ \E p \in Pids, d, e \in Devs : Enable(p, d, e) \/ Disable(p, d, e)
             \/ \E p \in Pids, d \in Devs : Reset(p, d)
             \/ \E s \in Sanitizers, access \in SUBSET Addrs : CheckRemote(s, access)
    BY Zenon, <2>4 DEF HostRecord, Enable, Disable, Reset, CheckRemote
  <2>5. QED
    BY SMTT(30), <2>1, <2>2, <2>3, <2>4 DEF Next
<1>2. QED
  BY <1>1, Inductive, PTL DEF Spec, NewSurvivesOld

-----------------------------------------------------------------------------
(* The register check.                                                     *)

RegVals == {Reg!Stored(r, v) : r \in Registers, v \in Values} \cup {0, 1}

RegTypes ==
  /\ next \in Int
  /\ written \subseteq Blocks \X Registers \X Values
  /\ regValActual_ \in [PhysCores -> [Registers -> [val : RegVals, block : Int]]]

(* The blocks of a kernel have their cores. *)
Placed == job.tool = "register" => /\ kernel \in Nat /\ (phase = "run" => kernel > 0)
                                   /\ (kernel > 0 => place \in [Blocks -> PhysCores])

(* The blocks wrote one after the other; of each register the last value counts. *)
WritesInOrder ==
  /\ \A w \in written : w[1] <= next
  /\ \A w, x \in written : w[1] = x[1] /\ w[2] = x[2] => w = x

(* Write w is one of register r on core c. *)
WriteOf(w, c, r) == w[2] = r /\ place[w[1]] = c

(* The table holds the last write of each register on each core. *)
Filed ==
  \A c \in PhysCores, r \in Registers :
    \/ /\ \A w \in written : ~WriteOf(w, c, r)
       /\ regValActual_[c][r] = [val |-> Reg!regDftVal(r), block |-> 0]
    \/ \E w \in written :
         /\ WriteOf(w, c, r) /\ \A x \in written : WriteOf(x, c, r) => x[1] <= w[1]
         /\ regValActual_[c][r] = [val |-> Reg!Stored(r, w[3]), block |-> w[1]]

(* What the end of a kernel reports. *)
Leftovers == {<<x[1], x[2], regValActual_[x[1]][x[2]].block>> : x \in
               {y \in PhysCores \X (Registers \ Unchecked) :
                  regValActual_[y[1]][y[2]].val # Reg!regDftVal(y[2])}}

Reported == phase = "idle" /\ kernel > 0 /\ job.tool = "register" => regReport = Leftovers

RegInv == RegTypes /\ Placed /\ WritesInOrder /\ Filed /\ Reported

(* The table of a core that wrote nothing.                                 *)
LEMMA DefaultFiled ==
  /\ Reg!Default \in [PhysCores -> [Registers -> [val : RegVals, block : Int]]]
  /\ \A c \in PhysCores, r \in Registers : Reg!Default[c][r] = [val |-> Reg!regDftVal(r), block |-> 0]
  <1>1. \A r : Reg!regDftVal(r) \in RegVals
    BY DEF Reg!regDftVal, RegVals
  <1> QED
    BY <1>1 DEF Reg!Default

(* A write is entered as the last one of its register and core.            *)
LEMMA RegWrite ==
  ASSUME RegInv, job.tool = "register", NEW b \in Blocks, NEW reg \in Registers, NEW v \in Values,
         Reg!RegisterEvent(b, reg, v), UNCHANGED job
  PROVE  RegInv'
  <1> DEFINE c0 == place[b]
             old == {w \in written : ~(w[1] = b /\ w[2] = reg)}
  <1>1. /\ phase = "run" /\ b >= next /\ next' = b /\ b \in Int /\ next \in Int
        /\ written' = old \cup {<<b, reg, v>>} /\ place' = place /\ kernel' = kernel /\ phase' = phase
        /\ regValActual_' = [regValActual_ EXCEPT ![place[b]][reg] = [val |-> Reg!Stored(reg, v), block |-> b]]
    BY Zenon, ToolsAssumption DEF Reg!RegisterEvent, RegInv, RegTypes
  <1>2. c0 \in PhysCores
    BY Zenon, <1>1 DEF RegInv, Placed
  <1>3. /\ regValActual_ \in [PhysCores -> [Registers -> [val : RegVals, block : Int]]]
        /\ written \subseteq Blocks \X Registers \X Values
    BY Zenon DEF RegInv, RegTypes
  <1>4. Reg!Stored(reg, v) \in RegVals
    BY DEF RegVals
  <1>5. RegTypes'
    <2>1. [regValActual_[c0] EXCEPT ![reg] = [val |-> Reg!Stored(reg, v), block |-> b]]
             \in [Registers -> [val : RegVals, block : Int]]
      BY Zenon, <1>1, <1>2, <1>3, <1>4
    <2>2. regValActual_' \in [PhysCores -> [Registers -> [val : RegVals, block : Int]]]
      BY Zenon, <2>1, <1>1, <1>2, <1>3
    <2>3. written' \subseteq Blocks \X Registers \X Values
      BY <1>1, <1>3
    <2> QED
      BY Zenon, <2>2, <2>3, <1>1 DEF RegTypes
  <1>6. Placed' /\ Reported'
    BY Zenon, <1>1 DEF RegInv, Placed, Reported
  <1>7. \A w \in written : w[1] <= b /\ w[1] \in Int
    <2>1. \A w \in written : w[1] <= next /\ w[1] \in Int
      BY Zenon, <1>3, ToolsAssumption DEF RegInv, WritesInOrder
    <2> QED
      BY <2>1, <1>1
  <1>8. \A w \in written' : w \in old \/ w = <<b, reg, v>>
    BY Zenon, <1>1
  <1>9. \A w \in old : w \in written /\ w \in written' /\ ~(w[1] = b /\ w[2] = reg)
    BY Zenon, <1>1
  <1>10. <<b, reg, v>> \in written' /\ <<b, reg, v>>[1] = b /\ <<b, reg, v>>[2] = reg /\ <<b, reg, v>>[3] = v
    BY Zenon, <1>1
  <1> HIDE DEF old
  <1>11. WritesInOrder'
    <2>1. \A w \in written' : w[1] <= next'
      BY SMTT(30), <1>1, <1>7, <1>8, <1>9, <1>10
    <2>2. ASSUME NEW w \in written', NEW x \in written', w[1] = x[1], w[2] = x[2] PROVE w = x
      BY Zenon, <2>2, <1>8, <1>9, <1>10 DEF RegInv, WritesInOrder
    <2> QED
      BY Zenon, <2>1, <2>2 DEF WritesInOrder
  <1>12. ASSUME NEW c \in PhysCores, NEW r \in Registers
         PROVE  \/ /\ \A w \in written' : ~WriteOf(w, c, r)
                   /\ regValActual_'[c][r] = [val |-> Reg!regDftVal(r), block |-> 0]
                \/ \E w \in written' :
                     /\ WriteOf(w, c, r) /\ \A x \in written' : WriteOf(x, c, r) => x[1] <= w[1]
                     /\ regValActual_'[c][r] = [val |-> Reg!Stored(r, w[3]), block |-> w[1]]
    <2>1. CASE c = c0 /\ r = reg
      <3>1. regValActual_'[c][r] = [val |-> Reg!Stored(reg, v), block |-> b]
        BY Zenon, <2>1, <1>1, <1>2, <1>3
      <3>2. WriteOf(<<b, reg, v>>, c, r)
        BY Zenon, <2>1, <1>10 DEF WriteOf
      <3>3. \A x \in written' : x[1] <= b
        BY SMTT(30), <1>1, <1>7, <1>8, <1>9, <1>10
      <3> QED
        BY Zenon, <3>1, <3>2, <3>3, <2>1, <1>10
    <2>2. CASE ~(c = c0 /\ r = reg)
      <3>1. regValActual_'[c][r] = regValActual_[c][r]
        BY Zenon, <2>2, <1>1, <1>2, <1>3
      <3>2. \A w : WriteOf(w, c, r) => (w \in written <=> w \in written')
        <4>1. ~WriteOf(<<b, reg, v>>, c, r)
          BY Zenon, <2>2, <1>10 DEF WriteOf
        <4>2. \A w \in written : WriteOf(w, c, r) => w \in old
          BY Zenon, <2>2 DEF WriteOf, old
        <4> QED
          BY Zenon, <4>1, <4>2, <1>8, <1>9
      <3>3. \/ /\ \A w \in written : ~WriteOf(w, c, r)
               /\ regValActual_[c][r] = [val |-> Reg!regDftVal(r), block |-> 0]
            \/ \E w \in written :
                 /\ WriteOf(w, c, r) /\ \A x \in written : WriteOf(x, c, r) => x[1] <= w[1]
                 /\ regValActual_[c][r] = [val |-> Reg!Stored(r, w[3]), block |-> w[1]]
        BY Zenon DEF RegInv, Filed
      <3> QED
        BY Zenon, <3>1, <3>2, <3>3
    <2> QED
      BY Zenon, <2>1, <2>2
  <1>13. Filed'
    BY SMTT(30), <1>1, <1>12 DEF Filed, WriteOf
  <1> QED
    BY Zenon, <1>5, <1>6, <1>11, <1>13 DEF RegInv

(* Every step of a job keeps the invariant of the register check.          *)
LEMMA RegStep ==
  ASSUME RegInv, [MCNext]_<<peerVars, syncVars, kernel, phase, regVars>>
  PROVE  RegInv'
  <1>1. CASE job.tool = "register" /\ Reg!Next /\ UNCHANGED job
    <2>1. CASE Reg!SetKernelInfo
      <3>1. /\ kernel' = kernel + 1 /\ phase' = "run" /\ next' = 0 /\ place' \in [Blocks -> PhysCores]
            /\ regValActual_' = Reg!Default /\ written' = {}
        BY Zenon, <2>1 DEF Reg!SetKernelInfo, Reg!Default, Reg!regDftVal
      <3>2. RegTypes' /\ WritesInOrder' /\ Filed'
        BY SMTT(30), <3>1, DefaultFiled DEF RegTypes, WritesInOrder, Filed
      <3>3. Placed' /\ Reported'
        BY <3>1, <1>1 DEF Placed, Reported, RegInv
      <3> QED
        BY Zenon, <3>2, <3>3 DEF RegInv
    <2>2. ASSUME NEW b \in Blocks, NEW reg \in Registers, NEW v \in Values, Reg!RegisterEvent(b, reg, v)
          PROVE  RegInv'
      BY Zenon, <1>1, <2>2, RegWrite
    <2>3. CASE Reg!KernelFinish
      <3>1. /\ UNCHANGED <<kernel, place, next, regValActual_, written, job>>
            /\ regReport' = Leftovers /\ phase' = "idle" /\ phase = "run"
        BY Zenon, <2>3, <1>1 DEF Reg!KernelFinish, Leftovers
      <3>2. RegTypes' /\ WritesInOrder' /\ Filed'
        BY <3>1 DEF RegTypes, WritesInOrder, Filed, RegInv, WriteOf
      <3>3. Placed'
        BY Zenon, <3>1, <1>1 DEF Placed, RegInv
      <3>4. Reported'
        BY Zenon, <3>1 DEF Reported, Leftovers
      <3> QED
        BY Zenon, <3>2, <3>3, <3>4 DEF RegInv
    <2> QED
      BY Zenon, <1>1, <2>1, <2>2, <2>3 DEF Reg!Next
  <1>2. CASE /\ UNCHANGED <<regVars, job>>
             /\ job.tool # "register" \/ UNCHANGED <<kernel, phase>>
    <2>1. UNCHANGED <<place, next, regValActual_, written, regReport, job>>
      BY Zenon, <1>2 DEF regVars
    <2>2. RegTypes' /\ WritesInOrder' /\ Filed'
      BY <2>1 DEF RegTypes, WritesInOrder, Filed, RegInv, WriteOf
    <2>3. Placed' /\ Reported'
      BY Zenon, <2>1, <1>2 DEF Placed, Reported, RegInv, Leftovers
    <2> QED
      BY Zenon, <2>2, <2>3 DEF RegInv
  <1>3. CASE job.tool = "sync" /\ Sync!Next /\ UNCHANGED <<peerVars, regVars>>
    BY Zenon, <1>3, <1>2 DEF Sync!Next
  <1>4. CASE UNCHANGED <<peerVars, syncVars, kernel, phase, regVars>>
    BY Zenon, <1>4, <1>2 DEF syncVars
  <1> QED
    BY Zenon, <1>1, <1>2, <1>3, <1>4 DEF MCNext, syncVars

(* What the table holds makes the report what it is to be.                 *)
LEMMA RegInvExact == RegInv => ReportsLeftovers
  <1> DEFINE Left(w) == /\ w[2] \notin Unchecked
                        /\ Reg!Stored(w[2], w[3]) # Reg!regDftVal(w[2])
                        /\ \A x \in written : x[2] = w[2] /\ place[x[1]] = place[w[1]] => x[1] <= w[1]
             Exact == {<<place[w[1]], w[2], w[1]>> : w \in {w \in written : Left(w)}}
             Core(y) == y[1]
  <1> SUFFICES ASSUME RegInv, phase = "idle", kernel > 0, job.tool = "register"
               PROVE  regReport = Exact
    BY Zenon DEF ReportsLeftovers
  <1>1. regReport = Leftovers /\ place \in [Blocks -> PhysCores]
    BY Zenon DEF RegInv, Reported, Placed
  <1>2. written \subseteq Blocks \X Registers \X Values
    BY Zenon DEF RegInv, RegTypes
  <1>3. \A w \in written : w[1] \in Int /\ w[1] \in Blocks /\ w[2] \in Registers
    BY Zenon, <1>2, ToolsAssumption
  <1>4. ASSUME NEW c \in PhysCores, NEW r \in Registers
        PROVE  \/ /\ \A w \in written : ~WriteOf(w, c, r)
                  /\ regValActual_[c][r] = [val |-> Reg!regDftVal(r), block |-> 0]
               \/ \E w \in written :
                    /\ WriteOf(w, c, r) /\ \A x \in written : WriteOf(x, c, r) => x[1] <= w[1]
                    /\ regValActual_[c][r] = [val |-> Reg!Stored(r, w[3]), block |-> w[1]]
    BY Zenon DEF RegInv, Filed
  <1>5. ASSUME NEW z \in Leftovers PROVE z \in Exact
    <2>1. PICK c \in PhysCores, r \in Registers \ Unchecked :
            /\ regValActual_[c][r].val # Reg!regDftVal(r)
            /\ z = <<c, r, regValActual_[c][r].block>>
      BY Zenon, <1>5 DEF Leftovers
    <2>2. PICK w \in written :
            /\ WriteOf(w, c, r) /\ \A x \in written : WriteOf(x, c, r) => x[1] <= w[1]
            /\ regValActual_[c][r] = [val |-> Reg!Stored(r, w[3]), block |-> w[1]]
      <3>1. regValActual_[c][r] # [val |-> Reg!regDftVal(r), block |-> 0]
        BY SMTT(30), <2>1
      <3> QED
        BY Zenon, <3>1, <1>4
    <2>3. Left(w) /\ z = <<place[w[1]], w[2], w[1]>>
      BY <2>1, <2>2 DEF WriteOf
    <2> QED
      BY Zenon, <2>3
  <1>6. ASSUME NEW z \in Exact PROVE z \in Leftovers
    <2>1. PICK w \in written : Left(w) /\ z = <<place[w[1]], w[2], w[1]>>
      BY Zenon, <1>6
    <2> DEFINE c == place[w[1]]
               r == w[2]
    <2>2. c \in PhysCores /\ r \in Registers \ Unchecked /\ WriteOf(w, c, r)
      BY Zenon, <2>1, <1>1, <1>3 DEF WriteOf
    <2>3. PICK x \in written :
            /\ WriteOf(x, c, r) /\ \A y \in written : WriteOf(y, c, r) => y[1] <= x[1]
            /\ regValActual_[c][r] = [val |-> Reg!Stored(r, x[3]), block |-> x[1]]
      BY Zenon, <2>2, <1>4
    <2>4. x = w
      <3>1. x[1] <= w[1] /\ w[1] <= x[1]
        BY ZenonT(30), <2>1, <2>2, <2>3 DEF WriteOf
      <3>2. x[1] = w[1] /\ x[2] = w[2]
        BY SMTT(30), <3>1, <2>3, <1>3 DEF WriteOf
      <3> QED
        BY Zenon, <3>2 DEF RegInv, WritesInOrder
    <2>5. regValActual_[c][r].val # Reg!regDftVal(r) /\ z = <<c, r, regValActual_[c][r].block>>
      BY SMTT(30), <2>1, <2>3, <2>4
    <2>6. <<c, r>> \in PhysCores \X (Registers \ Unchecked) /\ <<c, r>>[1] = c /\ <<c, r>>[2] = r
      BY Zenon, <2>2
    <2> HIDE DEF c, r
    <2> QED
      BY Zenon, <2>5, <2>6 DEF Leftovers
  <1> QED
    BY Zenon, <1>1, <1>5, <1>6

-----------------------------------------------------------------------------
(* Resets of devices.                                                      *)

(* A device that was reset is in no relation. *)
QuietAlone ==
  \A p \in Pids, d \in Devs : <<p, d>> \in quiet => \A r \in relations[p] : r[1] # d /\ r[2] # d

(* Every operation of PeerAccessManager keeps the devices it reset alone.  *)
LEMMA QuietStep ==
  ASSUME TypeOK, QuietAlone, PeerNext
  PROVE  QuietAlone'
  <1>1. CASE UNCHANGED <<relations, quiet>>
    BY Zenon, <1>1 DEF QuietAlone
  <1>2. ASSUME NEW p \in Pids, NEW d \in Devs, NEW e \in Devs, Disable(p, d, e), UNCHANGED quiet
        PROVE  QuietAlone'
    BY Zenon, <1>2 DEF QuietAlone, Disable, TypeOK
  <1>3. ASSUME NEW p \in Pids, NEW d \in Devs, NEW e \in Devs, Enable(p, d, e),
               quiet' = quiet \ {<<p, d>>, <<p, e>>}
        PROVE  QuietAlone'
    <2>1. relations' = [relations EXCEPT ![p] = @ \cup {<<d, e>>}]
      BY Zenon, <1>3 DEF Enable
    <2> SUFFICES ASSUME NEW q \in Pids, NEW f \in Devs, <<q, f>> \in quiet', NEW r \in relations'[q]
                 PROVE  r[1] # f /\ r[2] # f
      BY Zenon DEF QuietAlone
    <2>2. <<q, f>> \in quiet /\ (q = p => f # d /\ f # e)
      BY Zenon, <1>3
    <2>3. r \in relations[q] \/ (q = p /\ r = <<d, e>>)
      BY Zenon, <2>1 DEF TypeOK
    <2> QED
      BY SMTT(30), <2>2, <2>3 DEF QuietAlone
  <1>4. ASSUME NEW p \in Pids, NEW d \in Devs, Reset(p, d), quiet' = quiet \cup {<<p, d>>}
        PROVE  QuietAlone'
    <2>1. relations' = [relations EXCEPT ![p] = Untied(@, d)]
      BY Zenon, <1>4 DEF Reset
    <2> SUFFICES ASSUME NEW q \in Pids, NEW f \in Devs, <<q, f>> \in quiet', NEW r \in relations'[q]
                 PROVE  r[1] # f /\ r[2] # f
      BY Zenon DEF QuietAlone
    <2>2. r \in relations[q] /\ (q = p => r[1] # d /\ r[2] # d)
      BY Zenon, <2>1 DEF TypeOK, Untied
    <2>3. <<q, f>> \in quiet \/ (q = p /\ f = d)
      BY Zenon, <1>4
    <2> QED
      BY Zenon, <2>2, <2>3 DEF QuietAlone
  <1>5. CASE Clear
    BY Zenon, <1>5 DEF QuietAlone, Clear
  <1>6. CASE /\ \/ \E s \in Sanitizers : Create(s) \/ Destroy(s)
                \/ \E s \in Sanitizers, p \in Pids \cup {NoPid}, d \in Devs, ready \in BOOLEAN :
                      SetDeviceInfo(s, p, d, ready)
                \/ \E s \in Sanitizers, new \in SUBSET Addrs : HostRecord(s, new)
                \/ \E s \in Sanitizers, access \in SUBSET Addrs : CheckRemote(s, access)
             /\ UNCHANGED quiet
    <2>1. UNCHANGED relations
      BY ZenonT(30), <1>6 DEF Create, Destroy, SetDeviceInfo, HostRecord, CheckRemote
    <2> QED
      BY Zenon, <2>1, <1>1, <1>6
  <1> QED
    BY Zenon, <1>1, <1>2, <1>3, <1>4, <1>5, <1>6 DEF PeerNext

(* A step of a job is a step of PeerAccessManager or leaves it alone.      *)
LEMMA PeerIsNext ==
  ASSUME [MCNext]_<<peerVars, syncVars, kernel, phase, regVars>>
  PROVE  [Next]_vars /\ (PeerNext \/ UNCHANGED <<relations, quiet>>)
  <1>1. CASE PeerNext
    BY Zenon, <1>1 DEF PeerNext, Next
  <1>2. CASE UNCHANGED peerVars
    BY Zenon, <1>2 DEF peerVars, vars
  <1> QED
    BY Zenon, <1>1, <1>2 DEF MCNext

(* What a job does to PeerAccessManager is a behaviour of it, so that the  *)
(* theorems about Spec hold in every job.                                  *)
THEOREM JobsArePeerAccess == MCSpec => Spec
  <1>1. MCInit => Init
    BY Zenon DEF MCInit
  <1>2. [MCNext]_<<peerVars, syncVars, kernel, phase, regVars>> => [Next]_vars
    BY Zenon, PeerIsNext
  <1> QED
    BY <1>1, <1>2, PTL DEF MCSpec, Spec

(* Devices in no relation neither access others nor are accessed.          *)
LEMMA QuietExact == TypeOK /\ QuietAlone => ResetCutsBoth
  <1> SUFFICES ASSUME TypeOK, QuietAlone, NEW p \in Pids, NEW d \in Devs, <<p, d>> \in quiet,
                      NEW s \in alive, NEW access \in SUBSET Addrs, Grants(s, access)
               PROVE  /\ sources[s] # <<p, d>>
                      /\ sources[s][1] = p =>
                           \E e \in Devs \ {d} : <<sources[s][2], e>> \in relations[p]
                              /\ devices[p][e] # Nobody /\ access \subseteq covers[devices[p][e]]
    BY SMTT(30) DEF ResetCutsBoth
  <1>1. sources[s] \in Pids \X Devs
    BY Zenon DEF TypeOK, Grants
  <1>2. PICK r \in relations[sources[s][1]] :
          /\ r[1] = sources[s][2] /\ devices[sources[s][1]][r[2]] # Nobody
          /\ access \subseteq covers[devices[sources[s][1]][r[2]]]
    BY Zenon DEF Grants
  <1>3. r \in Devs \X Devs
    BY Zenon, <1>1 DEF TypeOK
  <1>4. r = <<r[1], r[2]>> /\ r[2] \in Devs
    BY <1>3
  <1>5. sources[s][1] = p => r[1] # d /\ r[2] # d
    BY Zenon, <1>2 DEF QuietAlone
  <1> QED
    BY SMTT(30), <1>2, <1>4, <1>5

-----------------------------------------------------------------------------
(* What holds in every state of every job.                                 *)
JobInv == RegInv /\ TypeOK /\ QuietAlone

(* The jobs keep the invariants of their tools.                            *)
THEOREM JobsKeepInv == MCSpec => []JobInv
  <1>1. MCInit => JobInv
    <2> SUFFICES ASSUME MCInit PROVE JobInv
      BY Zenon
    <2>1. RegInv
      <3>1. kernel = 0 /\ phase = "idle" /\ next = 0 /\ regValActual_ = Reg!Default /\ written = {}
        BY Zenon DEF MCInit, Reg!Init
      <3> QED
        BY <3>1, DefaultFiled DEF RegInv, RegTypes, Placed, WritesInOrder, Filed, Reported
    <2>2. TypeOK /\ QuietAlone
      BY Zenon DEF MCInit, Init, TypeOK, QuietAlone
    <2> QED
      BY Zenon, <2>1, <2>2 DEF JobInv
  <1>2. JobInv /\ [MCNext]_<<peerVars, syncVars, kernel, phase, regVars>> => JobInv'
    <2> SUFFICES ASSUME JobInv, [MCNext]_<<peerVars, syncVars, kernel, phase, regVars>> PROVE JobInv'
      BY Zenon
    <2>1. RegInv'
      BY Zenon, RegStep DEF JobInv
    <2>2. TypeOK'
      BY Zenon, PeerIsNext, TypeStep DEF JobInv
    <2>3. QuietAlone'
      <3>1. CASE UNCHANGED <<relations, quiet>>
        BY Zenon, <3>1 DEF JobInv, QuietAlone
      <3>2. CASE PeerNext
        BY Zenon, <3>2, QuietStep DEF JobInv
      <3> QED
        BY Zenon, <3>1, <3>2, PeerIsNext
    <2> QED
      BY Zenon, <2>1, <2>2, <2>3 DEF JobInv
  <1> QED
    BY <1>1, <1>2, PTL DEF MCSpec

(* RegisterSanitizer reports exactly the registers that the last block of  *)
(* the kernel to write them on their core left changed, for any cores,     *)
(* blocks, registers and values.                                           *)
THEOREM LeftoversAreReported == MCSpec => []ReportsLeftovers
  BY JobsKeepInv, RegInvExact, PTL DEF JobInv

(* After a RESET no access from or to the device is granted until an       *)
(* ENABLE names it again, for any processes, devices and sanitizers.       *)
THEOREM ResetsCut == MCSpec => []ResetCutsBoth
  BY JobsKeepInv, QuietExact, PTL DEF JobInv

-----------------------------------------------------------------------------
(* The synchronisation check.                                              *)

FlagEvents == {f \in Sync!Flags : f.src # f.dst}

(* How many instructions of the synchronisation id of f wait for a partner. *)
Waiting(kind, f) == Len(syncEvents_[Sync!SyncID(kind, f)])

SyncTypes ==
  /\ seen \in Seq(Sync!Events)
  /\ syncEvents_ \in [Sync!SyncIDs -> Seq(Sync!Events)]
  /\ pipeRedundancyEvents_ \in [Pipes -> Sync!Events \cup {Sync!None}]
  /\ redundancyInfo_ \in Seq(Sync!Events)

(* The cores follow each other. *)
CoresInOrder == \A i, j \in Positions : i < j => seen[i].core <= seen[j].core

(* What waits under an id and its partner's is the surplus of one kind. *)
Balanced ==
  \A f \in FlagEvents :
    /\ Waiting("SET_FLAG", f) - Waiting("WAIT_FLAG", f) = CountOf("SET_FLAG", f) - CountOf("WAIT_FLAG", f)
    /\ Waiting("SET_FLAG", f) = 0 \/ Waiting("WAIT_FLAG", f) = 0

(* e is an instruction that pipe p remembers or forgets its last one for. *)
Marks(e, p) == /\ IsChecked(e) /\ ~e.generated /\ e.op # "PIPE_BARRIER"
               /\ Sync!GetPipeType(e) = p

(* The memory of a pipe is its last such instruction, if that is a flag. *)
RemembersLast ==
  \A p \in Pipes :
    \/ /\ \A i \in Positions : ~Marks(seen[i], p)
       /\ pipeRedundancyEvents_[p] = Sync!None
    \/ \E i \in Positions :
         /\ Marks(seen[i], p) /\ \A k \in Positions : k > i => ~Marks(seen[k], p)
         /\ pipeRedundancyEvents_[p] = IF Sync!IsFlag(seen[i]) THEN seen[i] ELSE Sync!None

(* The pairs noted so far are the repetitions so far, in their order. *)
NotedPairs ==
  /\ Len(redundancyInfo_) = 2 * Cardinality(Repeated)
  /\ \A j \in Repeated : /\ redundancyInfo_[2 * Rank(j) - 1] = seen[j]
                         /\ redundancyInfo_[2 * Rank(j)] = seen[j]

ReportFits ==
  /\ job.tool # "sync" \/ phase = "run" => report = Sync!NoReport
  /\ report # Sync!NoReport => /\ report.unpaired = Sync!ReportUnpairedInfo
                               /\ report.redundant = redundancyInfo_

SyncInv == SyncTypes /\ CoresInOrder /\ Balanced /\ RemembersLast /\ NotedPairs /\ ReportFits

(* The fields of an event, and which events are flags.                     *)
LEMMA EventFacts ==
  ASSUME NEW e \in Sync!Events
  PROVE  /\ e.core \in Cores /\ e.core \in Int /\ e.src \in Pipes /\ e.dst \in Pipes
         /\ e.generated \in BOOLEAN /\ e # Sync!None
         /\ Sync!GetPipeType(e) \in Pipes
         /\ e.op \in {"SET_FLAG", "WAIT_FLAG", "MEM", "PIPE_BARRIER"}
         /\ Sync!IsFlag(e) => e \in FlagEvents
  <1>1. CASE e \in Sync!Flags /\ e.src # e.dst
    <2>1. e \in FlagEvents
      BY Zenon, <1>1 DEF FlagEvents
    <2>2. e.op \in {"SET_FLAG", "WAIT_FLAG"} /\ e.core \in Cores /\ e.src \in Pipes /\ e.dst \in Pipes
          /\ e.generated \in BOOLEAN
      BY Zenon, <1>1 DEF Sync!Flags
    <2>3. e # Sync!None
      BY <2>2 DEF Sync!None
    <2> QED
      BY Zenon, <2>1, <2>2, <2>3, ToolsAssumption DEF Sync!GetPipeType
  <1>2. CASE e \in Sync!Others
    <2>1. PICK kind \in {"MEM", "PIPE_BARRIER"}, c \in Cores, p \in Pipes : e = Sync!Other(kind, c, p)
      BY <1>2 DEF Sync!Others
    <2>2. e.op = kind /\ e.core = c /\ e.src = p /\ e.dst = p /\ e.generated = FALSE
      BY Zenon, <2>1 DEF Sync!Other
    <2>3. e # Sync!None
      BY <2>2 DEF Sync!None
    <2> QED
      BY Zenon, <2>2, <2>3, ToolsAssumption DEF Sync!GetPipeType, Sync!IsFlag
  <1> QED
    BY Zenon, <1>1, <1>2 DEF Sync!Events

(* Two synchronisation ids are equal when their fields are.                *)
LEMMA SyncIDFacts ==
  ASSUME NEW e, NEW f, NEW kind, NEW q
  PROVE  Sync!SyncID(kind, e) = Sync!SyncID(q, f) <=>
           kind = q /\ e.core = f.core /\ e.src = f.src /\ e.dst = f.dst /\ e.id = f.id
  BY Zenon DEF Sync!SyncID

(* The ids of a flag and of its partner are ids of the map.                *)
LEMMA FlagIDs ==
  ASSUME NEW f \in FlagEvents
  PROVE  Sync!SyncID("SET_FLAG", f) \in Sync!SyncIDs /\ Sync!SyncID("WAIT_FLAG", f) \in Sync!SyncIDs
  BY DEF Sync!SyncIDs, FlagEvents

(* The length and the elements of the events seen after one more.          *)
LEMMA SeenAppend ==
  ASSUME NEW S, NEW s \in Seq(S), NEW e \in S
  PROVE  /\ Append(s, e) \in Seq(S) /\ Len(s) \in Nat
         /\ DOMAIN s = 1..Len(s)
         /\ DOMAIN Append(s, e) = DOMAIN s \cup {Len(s) + 1}
         /\ \A i \in DOMAIN s : Append(s, e)[i] = s[i]
         /\ Append(s, e)[Len(s) + 1] = e
         /\ Len(Append(s, e)) = Len(s) + 1
  OBVIOUS

(* Taking the youngest away shortens a list by one.                        *)
LEMMA FrontFacts ==
  ASSUME NEW S, NEW s \in Seq(S), s # <<>>
  PROVE  Sync!PopBack(s) \in Seq(S) /\ Len(Sync!PopBack(s)) = Len(s) - 1 /\ Len(s) > 0
  <1>1. Len(s) \in Nat /\ Len(s) > 0
    OBVIOUS
  <1>2. Sync!PopBack(s) = [i \in 1..(Len(s) - 1) |-> s[i]]
    BY <1>1 DEF Sync!PopBack
  <1> QED
    BY SMTT(30), <1>1, <1>2

(* One more event adds one to the count of its own synchronisation id.     *)
LEMMA CountStep ==
  ASSUME seen \in Seq(Sync!Events), NEW e \in Sync!Events, seen' = Append(seen, e), job' = job,
         NEW CONSTANT kind, NEW CONSTANT f
  PROVE  /\ CountOf(kind, f) \in Nat
         /\ CountOf(kind, f)' = CountOf(kind, f) +
              IF IsChecked(e) /\ Sync!SyncID(e.op, e) = Sync!SyncID(kind, f) THEN 1 ELSE 0
  <1> DEFINE n == Len(seen) + 1
             Hit(x) == IsChecked(x) /\ Sync!SyncID(x.op, x) = Sync!SyncID(kind, f)
             M == {i \in DOMAIN seen : Hit(seen[i])}
             N == {i \in DOMAIN seen' : Hit(seen'[i])}
  <1>1. /\ Len(seen) \in Nat /\ DOMAIN seen = 1..Len(seen)
        /\ DOMAIN seen' = DOMAIN seen \cup {n}
        /\ \A i \in DOMAIN seen : seen'[i] = seen[i]
        /\ seen'[n] = e
    BY SeenAppend
  <1>2. CountOf(kind, f) = Cardinality(M) /\ CountOf(kind, f)' = Cardinality(N)
    BY Zenon DEF CountOf, Positions, IsChecked
  <1>3. IsFiniteSet(DOMAIN seen)
    BY SMTT(30), <1>1, FS_Interval
  <1>4. IsFiniteSet(M) /\ Cardinality(M) \in Nat
    BY Zenon, <1>3, FS_Subset, FS_CardinalityType
  <1>5. n \notin M
    BY <1>1
  <1>6. N = IF Hit(e) THEN M \cup {n} ELSE M
    <2> HIDE DEF Hit
    <2> QED
      BY Zenon, <1>1, <1>5
  <1> HIDE DEF M, N, Hit
  <1>7. Cardinality(N) = Cardinality(M) + IF Hit(e) THEN 1 ELSE 0
    <2>1. CASE Hit(e)
      <3>1. Cardinality(M \cup {n}) = Cardinality(M) + 1
        BY Zenon, <1>4, <1>5, FS_AddElement
      <3> QED
        BY Zenon, <3>1, <2>1, <1>6
    <2>2. CASE ~Hit(e)
      BY SMTT(30), <2>2, <1>4, <1>6
    <2> QED
      BY Zenon, <2>1, <2>2
  <1> QED
    BY Zenon, <1>2, <1>4, <1>7 DEF Hit

(* DoMatchCheck: a flag takes a waiting partner away or waits itself.      *)
LEMMA MatchCheckFacts ==
  ASSUME SyncTypes, NEW e \in FlagEvents, e \in Sync!Events
  PROVE  LET self == Sync!SyncID(e.op, e)
             peer == Sync!SyncID(Sync!Partner(e.op), e)
             new  == Sync!DoMatchCheck(e)
         IN  /\ self \in Sync!SyncIDs /\ peer \in Sync!SyncIDs /\ self # peer
             /\ new \in [Sync!SyncIDs -> Seq(Sync!Events)]
             /\ \A i \in Sync!SyncIDs \ {self, peer} : new[i] = syncEvents_[i]
             /\ Len(syncEvents_[peer]) > 0 => /\ Len(new[peer]) = Len(syncEvents_[peer]) - 1
                                              /\ new[self] = syncEvents_[self]
             /\ Len(syncEvents_[peer]) = 0 => /\ Len(new[self]) = Len(syncEvents_[self]) + 1
                                              /\ new[peer] = syncEvents_[peer]
  <1> DEFINE self == Sync!SyncID(e.op, e)
             peer == Sync!SyncID(Sync!Partner(e.op), e)
             new  == Sync!DoMatchCheck(e)
  <1>1. e.op \in {"SET_FLAG", "WAIT_FLAG"} /\ Sync!IsFlag(e)
    BY Zenon DEF FlagEvents, Sync!Flags, Sync!IsFlag
  <1>2. self \in Sync!SyncIDs /\ peer \in Sync!SyncIDs
    BY Zenon, <1>1, FlagIDs DEF Sync!Partner
  <1>3. self # peer
    BY SMTT(30), <1>1, SyncIDFacts DEF Sync!Partner
  <1>4. new = IF syncEvents_[peer] # <<>> THEN [syncEvents_ EXCEPT ![peer] = Sync!PopBack(@)]
              ELSE [syncEvents_ EXCEPT ![self] = Append(@, e)]
    BY Zenon, <1>1 DEF Sync!DoMatchCheck
  <1> HIDE DEF self, peer, new
  <1>5. /\ syncEvents_ \in [Sync!SyncIDs -> Seq(Sync!Events)]
        /\ syncEvents_[peer] \in Seq(Sync!Events) /\ syncEvents_[self] \in Seq(Sync!Events)
    BY Zenon, <1>2 DEF SyncTypes
  <1>6. CASE syncEvents_[peer] # <<>>
    <2>1. /\ Sync!PopBack(syncEvents_[peer]) \in Seq(Sync!Events)
          /\ Len(Sync!PopBack(syncEvents_[peer])) = Len(syncEvents_[peer]) - 1 /\ Len(syncEvents_[peer]) > 0
      BY Zenon, <1>5, <1>6, FrontFacts
    <2>2. new = [syncEvents_ EXCEPT ![peer] = Sync!PopBack(syncEvents_[peer])]
      BY Zenon, <1>4, <1>6
    <2>3. new \in [Sync!SyncIDs -> Seq(Sync!Events)] /\ new[peer] = Sync!PopBack(syncEvents_[peer])
          /\ \A i \in Sync!SyncIDs \ {peer} : new[i] = syncEvents_[i]
      BY ZenonT(30), <2>1, <2>2, <1>2, <1>5
    <2> QED
      BY SMTT(30), <2>1, <2>3, <1>2, <1>3, <1>5 DEF self, peer, new
  <1>7. CASE syncEvents_[peer] = <<>>
    <2>1. /\ Append(syncEvents_[self], e) \in Seq(Sync!Events)
          /\ Len(Append(syncEvents_[self], e)) = Len(syncEvents_[self]) + 1
      BY SMTT(30), <1>5, SeenAppend
    <2>2. new = [syncEvents_ EXCEPT ![self] = Append(syncEvents_[self], e)]
      BY Zenon, <1>4, <1>7
    <2>3. new \in [Sync!SyncIDs -> Seq(Sync!Events)] /\ new[self] = Append(syncEvents_[self], e)
          /\ \A i \in Sync!SyncIDs \ {self} : new[i] = syncEvents_[i]
      BY ZenonT(30), <2>1, <2>2, <1>2, <1>5
    <2>4. Len(syncEvents_[peer]) = 0
      BY <1>7
    <2> QED
      BY SMTT(30), <2>1, <2>3, <2>4, <1>2, <1>3, <1>5 DEF self, peer, new
  <1> QED
    BY Zenon, <1>6, <1>7

(* The lists of waiting instructions stay the surplus of their kind.       *)
LEMMA BalanceStep ==
  ASSUME SyncTypes, Balanced, NEW e \in Sync!Events, seen' = Append(seen, e), job' = job,
         syncEvents_' = IF IsChecked(e) THEN Sync!DoMatchCheck(e) ELSE syncEvents_
  PROVE  syncEvents_' \in [Sync!SyncIDs -> Seq(Sync!Events)] /\ Balanced'
  <1>1. /\ syncEvents_ \in [Sync!SyncIDs -> Seq(Sync!Events)] /\ seen \in Seq(Sync!Events)
    BY Zenon DEF SyncTypes
  <1>2. ASSUME NEW f \in FlagEvents
        PROVE  /\ Waiting("SET_FLAG", f) \in Nat /\ Waiting("WAIT_FLAG", f) \in Nat
               /\ CountOf("SET_FLAG", f) \in Nat /\ CountOf("WAIT_FLAG", f) \in Nat
    BY SMTT(30), <1>1, FlagIDs, CountStep DEF Waiting
  <1>3. CASE ~(IsChecked(e) /\ Sync!IsFlag(e))
    <2>1. syncEvents_' = syncEvents_
      BY Zenon, <1>3 DEF Sync!DoMatchCheck
    <2>2. ASSUME NEW f \in FlagEvents, NEW kind \in {"SET_FLAG", "WAIT_FLAG"}
          PROVE  CountOf(kind, f)' = CountOf(kind, f)
      <3>1. ~(IsChecked(e) /\ Sync!SyncID(e.op, e) = Sync!SyncID(kind, f))
        BY SMTT(30), <1>3, SyncIDFacts DEF Sync!IsFlag
      <3> QED
        BY SMTT(30), <3>1, <1>1, CountStep
    <2>3. ASSUME NEW f \in FlagEvents, NEW kind \in {"SET_FLAG", "WAIT_FLAG"}
          PROVE  Waiting(kind, f)' = Waiting(kind, f)
      BY Zenon, <2>1 DEF Waiting, Sync!SyncID
    <2> QED
      BY SMTT(30), <2>1, <2>2, <2>3, <1>1 DEF Balanced
  <1>4. CASE IsChecked(e) /\ Sync!IsFlag(e)
    <2> DEFINE self == Sync!SyncID(e.op, e)
               peer == Sync!SyncID(Sync!Partner(e.op), e)
    <2>1. e \in FlagEvents /\ e.op \in {"SET_FLAG", "WAIT_FLAG"}
      BY Zenon, <1>4, EventFacts DEF Sync!IsFlag
    <2>2. /\ self \in Sync!SyncIDs /\ peer \in Sync!SyncIDs /\ self # peer
          /\ syncEvents_' \in [Sync!SyncIDs -> Seq(Sync!Events)]
          /\ \A i \in Sync!SyncIDs \ {self, peer} : syncEvents_'[i] = syncEvents_[i]
          /\ Len(syncEvents_[peer]) > 0 => /\ Len(syncEvents_'[peer]) = Len(syncEvents_[peer]) - 1
                                           /\ syncEvents_'[self] = syncEvents_[self]
          /\ Len(syncEvents_[peer]) = 0 => /\ Len(syncEvents_'[self]) = Len(syncEvents_[self]) + 1
                                           /\ syncEvents_'[peer] = syncEvents_[peer]
      BY ZenonT(30), <1>4, <2>1, MatchCheckFacts
    <2>3. ASSUME NEW f \in FlagEvents
          PROVE  /\ Waiting("SET_FLAG", f)' - Waiting("WAIT_FLAG", f)'
                      = CountOf("SET_FLAG", f)' - CountOf("WAIT_FLAG", f)'
                 /\ Waiting("SET_FLAG", f)' = 0 \/ Waiting("WAIT_FLAG", f)' = 0
      <3> DEFINE set == Sync!SyncID("SET_FLAG", f)
                 wait == Sync!SyncID("WAIT_FLAG", f)
      <3>1. /\ Waiting("SET_FLAG", f) = Len(syncEvents_[set]) /\ Waiting("SET_FLAG", f)' = Len(syncEvents_'[set])
            /\ Waiting("WAIT_FLAG", f) = Len(syncEvents_[wait]) /\ Waiting("WAIT_FLAG", f)' = Len(syncEvents_'[wait])
        BY Zenon DEF Waiting, Sync!SyncID
      <3>2. set \in Sync!SyncIDs /\ wait \in Sync!SyncIDs
        BY Zenon, FlagIDs
      <3>3. /\ CountOf("SET_FLAG", f)' = CountOf("SET_FLAG", f) + IF self = set THEN 1 ELSE 0
            /\ CountOf("WAIT_FLAG", f)' = CountOf("WAIT_FLAG", f) + IF self = wait THEN 1 ELSE 0
        BY SMTT(30), <1>1, <1>4, CountStep
      <3>4. /\ Waiting("SET_FLAG", f) - Waiting("WAIT_FLAG", f) = CountOf("SET_FLAG", f) - CountOf("WAIT_FLAG", f)
            /\ Waiting("SET_FLAG", f) = 0 \/ Waiting("WAIT_FLAG", f) = 0
        BY Zenon DEF Balanced
      <3>5. /\ (self = set /\ peer = wait) \/ (self = wait /\ peer = set) \/ {self, peer} \cap {set, wait} = {}
            /\ set # wait
        BY SMTT(30), <2>1, SyncIDFacts DEF Sync!Partner
      <3> HIDE DEF set, wait, self, peer
      <3>6. CASE self = set /\ peer = wait
        <4>1. /\ CountOf("WAIT_FLAG", f)' = CountOf("WAIT_FLAG", f)
              /\ CountOf("SET_FLAG", f)' = CountOf("SET_FLAG", f) + 1
          BY SMTT(30), <3>3, <3>5, <3>6, <1>2
        <4>2. CASE Waiting("WAIT_FLAG", f) > 0
          <5>1. /\ Waiting("WAIT_FLAG", f)' = Waiting("WAIT_FLAG", f) - 1
                /\ Waiting("SET_FLAG", f)' = Waiting("SET_FLAG", f)
            BY ZenonT(30), <3>1, <3>6, <4>2, <2>2
          <5> QED
            BY SMTT(30), <5>1, <4>1, <4>2, <3>4, <1>2
        <4>3. CASE Waiting("WAIT_FLAG", f) = 0
          <5>1. /\ Waiting("SET_FLAG", f)' = Waiting("SET_FLAG", f) + 1
                /\ Waiting("WAIT_FLAG", f)' = Waiting("WAIT_FLAG", f)
            BY ZenonT(30), <3>1, <3>6, <4>3, <2>2
          <5> QED
            BY SMTT(30), <5>1, <4>1, <4>3, <3>4, <1>2
        <4> QED
          BY SMTT(30), <4>2, <4>3, <1>2
      <3>7. CASE self = wait /\ peer = set
        <4>1. /\ CountOf("SET_FLAG", f)' = CountOf("SET_FLAG", f)
              /\ CountOf("WAIT_FLAG", f)' = CountOf("WAIT_FLAG", f) + 1
          BY SMTT(30), <3>3, <3>5, <3>7, <1>2
        <4>2. CASE Waiting("SET_FLAG", f) > 0
          <5>1. /\ Waiting("SET_FLAG", f)' = Waiting("SET_FLAG", f) - 1
                /\ Waiting("WAIT_FLAG", f)' = Waiting("WAIT_FLAG", f)
            BY ZenonT(30), <3>1, <3>7, <4>2, <2>2
          <5> QED
            BY SMTT(30), <5>1, <4>1, <4>2, <3>4, <1>2
        <4>3. CASE Waiting("SET_FLAG", f) = 0
          <5>1. /\ Waiting("WAIT_FLAG", f)' = Waiting("WAIT_FLAG", f) + 1
                /\ Waiting("SET_FLAG", f)' = Waiting("SET_FLAG", f)
            BY ZenonT(30), <3>1, <3>7, <4>3, <2>2
          <5> QED
            BY SMTT(30), <5>1, <4>1, <4>3, <3>4, <1>2
        <4> QED
          BY SMTT(30), <4>2, <4>3, <1>2
      <3>8. CASE {self, peer} \cap {set, wait} = {}
        <4>1. syncEvents_'[set] = syncEvents_[set] /\ syncEvents_'[wait] = syncEvents_[wait]
          BY Zenon, <3>2, <3>8, <2>2
        <4>2. self # set /\ self # wait
          BY Zenon, <3>8
        <4>3. /\ CountOf("SET_FLAG", f)' = CountOf("SET_FLAG", f)
              /\ CountOf("WAIT_FLAG", f)' = CountOf("WAIT_FLAG", f)
          BY SMTT(30), <4>2, <3>3, <1>2
        <4> QED
          BY SMTT(30), <4>1, <4>3, <3>1, <3>4
      <3> QED
        BY SMTT(30), <3>5, <3>6, <3>7, <3>8
    <2> QED
      BY Zenon, <2>2, <2>3 DEF Balanced
  <1> QED
    BY Zenon, <1>3, <1>4

(* The step of an event notes a repetition. *)
Noted(e) == /\ IsChecked(e) /\ ~e.generated
            /\ Sync!Repeats(e, pipeRedundancyEvents_[Sync!GetPipeType(e)])

(* The events still come core by core after one more.                      *)
LEMMA CoresStep ==
  ASSUME SyncTypes, CoresInOrder, NEW e \in Sync!Events, seen' = Append(seen, e),
         seen # <<>> => seen[Len(seen)].core <= e.core
  PROVE  CoresInOrder'
  <1>1. /\ seen \in Seq(Sync!Events) /\ Len(seen) \in Nat /\ DOMAIN seen = 1..Len(seen)
        /\ DOMAIN seen' = DOMAIN seen \cup {Len(seen) + 1}
        /\ \A i \in DOMAIN seen : seen'[i] = seen[i]
        /\ seen'[Len(seen) + 1] = e
    BY SMTT(30), SeenAppend DEF SyncTypes
  <1>2. \A i \in DOMAIN seen : seen[i].core \in Int /\ e.core \in Int
    BY SMTT(30), <1>1, EventFacts
  <1>3. ASSUME NEW i \in DOMAIN seen PROVE seen[i].core <= e.core
    <2>1. Len(seen) \in DOMAIN seen /\ seen # <<>>
      BY SMTT(30), <1>1
    <2>2. i = Len(seen) \/ i < Len(seen)
      BY SMTT(30), <1>1
    <2>3. seen[i].core <= seen[Len(seen)].core
      BY SMTT(30), <2>1, <2>2, <1>2 DEF CoresInOrder, Positions
    <2> QED
      BY SMTT(30), <2>1, <2>3, <1>2
  <1>4. SUFFICES ASSUME NEW i \in DOMAIN seen', NEW j \in DOMAIN seen', i < j
                 PROVE  seen'[i].core <= seen'[j].core
    BY Zenon DEF CoresInOrder, Positions
  <1>5. i \in DOMAIN seen
    BY SMTT(30), <1>1, <1>4
  <1>6. CASE j = Len(seen) + 1
    BY ZenonT(30), <1>1, <1>3, <1>5, <1>6
  <1>7. CASE j \in DOMAIN seen
    BY SMTT(30), <1>1, <1>4, <1>5, <1>7 DEF CoresInOrder, Positions
  <1> QED
    BY ZenonT(30), <1>1, <1>6, <1>7

(* The new event repeats an earlier one exactly when it is noted.          *)
LEMMA RepeatStep ==
  ASSUME SyncTypes, CoresInOrder, RemembersLast, NEW e \in Sync!Events, seen' = Append(seen, e), job' = job,
         \A i \in DOMAIN seen : seen[i].core <= e.core
  PROVE  Repeated' = IF Noted(e) THEN Repeated \cup {Len(seen) + 1} ELSE Repeated
  <1> DEFINE n == Len(seen) + 1
             p == Sync!GetPipeType(e)
             last == pipeRedundancyEvents_[p]
             Skips(x, y) == x.generated \/ x.op = "PIPE_BARRIER" \/ Sync!GetPipeType(x) # Sync!GetPipeType(y)
             Same(i, j) == /\ i < j /\ seen[i] = seen[j] /\ Sync!IsFlag(seen[j]) /\ ~seen[j].generated
                           /\ IsChecked(seen[j])
                           /\ \A k \in i+1..j-1 : Skips(seen[k], seen[j])
             SameNew(i, j) == /\ i < j /\ seen'[i] = seen'[j] /\ Sync!IsFlag(seen'[j]) /\ ~seen'[j].generated
                              /\ IsChecked(seen'[j])
                              /\ \A k \in i+1..j-1 : Skips(seen'[k], seen'[j])
  <1>1. /\ seen \in Seq(Sync!Events) /\ Len(seen) \in Nat /\ DOMAIN seen = 1..Len(seen)
        /\ DOMAIN seen' = DOMAIN seen \cup {n}
        /\ \A i \in DOMAIN seen : seen'[i] = seen[i] /\ seen[i] \in Sync!Events
        /\ seen'[n] = e
    BY SMTT(30), SeenAppend DEF SyncTypes
  <1>2. /\ Repeated = {j \in DOMAIN seen : \E i \in DOMAIN seen : Same(i, j)}
        /\ Repeated' = {j \in DOMAIN seen' : \E i \in DOMAIN seen' : SameNew(i, j)}
    BY DEF Repeated, Positions, RepeatAt, IsChecked, Sync!IsFlag, Sync!GetPipeType
  <1>3. p \in Pipes /\ e.generated \in BOOLEAN /\ e # Sync!None /\ e.core \in Int
    BY Zenon, EventFacts
  <1>4. ASSUME NEW i \in DOMAIN seen, NEW j \in DOMAIN seen PROVE SameNew(i, j) <=> Same(i, j)
    <2>1. \A k \in i+1..j-1 : k \in DOMAIN seen
      BY SMTT(30), <1>1
    <2> HIDE DEF Skips
    <2> QED
      BY Zenon, <2>1, <1>1
  <1>5. ~SameNew(n, n) /\ \A i \in DOMAIN seen : ~SameNew(n, i)
    BY <1>1
  <1>6. ASSUME NEW i \in DOMAIN seen
        PROVE  SameNew(i, n) <=> /\ seen[i] = e /\ Sync!IsFlag(e) /\ ~e.generated /\ IsChecked(e)
                                 /\ \A k \in DOMAIN seen : k > i => Skips(seen[k], e)
    <2>1. \A k \in i+1..n-1 : k \in DOMAIN seen /\ k > i
      BY SMTT(30), <1>1
    <2>2. \A k \in DOMAIN seen : k > i => k \in i+1..n-1
      BY SMTT(30), <1>1
    <2>3. i < n /\ seen'[i] = seen[i] /\ seen'[n] = e
      BY <1>1
    <2> HIDE DEF Skips
    <2> QED
      BY ZenonT(30), <2>1, <2>2, <2>3, <1>1
  <1>7. ASSUME NEW i \in DOMAIN seen, SameNew(i, n) PROVE Noted(e)
    <2>1. /\ seen[i] = e /\ Sync!IsFlag(e) /\ ~e.generated /\ IsChecked(e)
          /\ \A k \in DOMAIN seen : k > i => Skips(seen[k], e)
      BY Zenon, <1>6, <1>7
    <2>2. Marks(seen[i], p) /\ \A k \in DOMAIN seen : k > i => ~Marks(seen[k], p)
      BY Zenon, <2>1 DEF Marks, Sync!IsFlag
    <2>3. PICK m \in DOMAIN seen :
            /\ Marks(seen[m], p) /\ \A k \in DOMAIN seen : k > m => ~Marks(seen[k], p)
            /\ last = IF Sync!IsFlag(seen[m]) THEN seen[m] ELSE Sync!None
      BY ZenonT(30), <2>2, <1>3 DEF RemembersLast, Positions
    <2>4. m = i
      BY SMTT(30), <2>2, <2>3, <1>1
    <2> QED
      BY ZenonT(30), <2>1, <2>3, <2>4 DEF Noted, Sync!Repeats
  <1>8. ASSUME Noted(e) PROVE \E i \in DOMAIN seen : SameNew(i, n)
    <2>1. IsChecked(e) /\ ~e.generated /\ Sync!IsFlag(e) /\ last = e
      BY Zenon, <1>8 DEF Noted, Sync!Repeats
    <2>2. PICK i \in DOMAIN seen :
            /\ Marks(seen[i], p) /\ \A k \in DOMAIN seen : k > i => ~Marks(seen[k], p)
            /\ last = IF Sync!IsFlag(seen[i]) THEN seen[i] ELSE Sync!None
      BY Zenon, <2>1, <1>3 DEF RemembersLast, Positions
    <2>3. seen[i] = e
      BY ZenonT(30), <2>1, <2>2, <1>3
    <2>4. ASSUME NEW k \in DOMAIN seen, k > i PROVE Skips(seen[k], e)
      <3>1. seen[i].core <= seen[k].core /\ seen[k].core <= e.core /\ seen[k].core \in Int
        BY ZenonT(30), <2>4, <1>1, EventFacts DEF CoresInOrder, Positions
      <3>2. seen[k].core = e.core
        BY SMTT(30), <3>1, <2>3, <1>3
      <3>3. IsChecked(seen[k])
        BY Zenon, <3>2, <2>1 DEF IsChecked
      <3> QED
        BY Zenon, <3>3, <2>2, <2>4 DEF Marks
    <2> QED
      BY SMTT(30), <2>1, <2>3, <2>4, <1>6
  <1> HIDE DEF Same, SameNew
  <1>9. ASSUME NEW j \in DOMAIN seen PROVE j \in Repeated' <=> j \in Repeated
    BY ZenonT(30), <1>1, <1>2, <1>4, <1>5
  <1>10. n \in Repeated' <=> Noted(e)
    BY SMTT(30), <1>1, <1>2, <1>5, <1>7, <1>8
  <1>11. /\ Repeated \subseteq DOMAIN seen /\ Repeated' \subseteq DOMAIN seen \cup {n}
         /\ n \notin DOMAIN seen
    BY SMTT(30), <1>1, <1>2
  <1>12. CASE Noted(e)
    BY SMTT(30), <1>9, <1>10, <1>11, <1>12
  <1>13. CASE ~Noted(e)
    <2>1. Repeated' \subseteq Repeated /\ Repeated \subseteq Repeated'
      BY SMTT(30), <1>9, <1>10, <1>11, <1>13
    <2> QED
      BY ZenonT(30), <2>1, <1>13
  <1> QED
    BY ZenonT(30), <1>12, <1>13

(* A pipe remembers its last instruction also after one more.              *)
LEMMA RememberStep ==
  ASSUME SyncTypes, RemembersLast, NEW e \in Sync!Events, seen' = Append(seen, e), job' = job,
         pipeRedundancyEvents_' =
           IF IsChecked(e)
           THEN [pipeRedundancyEvents_ EXCEPT ![Sync!GetPipeType(e)] =
                   Sync!LastAfter(e, pipeRedundancyEvents_[Sync!GetPipeType(e)])]
           ELSE pipeRedundancyEvents_
  PROVE  /\ pipeRedundancyEvents_' \in [Pipes -> Sync!Events \cup {Sync!None}]
         /\ RemembersLast'
  <1> DEFINE n == Len(seen) + 1
             pipe == Sync!GetPipeType(e)
             MarksNew(x, p) == Marks(x, p)'
  <1>1. /\ seen \in Seq(Sync!Events) /\ Len(seen) \in Nat /\ DOMAIN seen = 1..Len(seen)
        /\ DOMAIN seen' = DOMAIN seen \cup {n}
        /\ \A i \in DOMAIN seen : seen'[i] = seen[i]
        /\ seen'[n] = e
    BY SeenAppend DEF SyncTypes
  <1>2. pipe \in Pipes /\ e.generated \in BOOLEAN
    BY Zenon, EventFacts
  <1>3. Sync!LastAfter(e, pipeRedundancyEvents_[pipe]) \in Sync!Events \cup {Sync!None}
    BY Zenon, <1>2 DEF Sync!LastAfter, SyncTypes
  <1>4. pipeRedundancyEvents_' \in [Pipes -> Sync!Events \cup {Sync!None}]
    BY ZenonT(30), <1>2, <1>3 DEF SyncTypes
  <1>5. RemembersLast' <=>
          \A p \in Pipes :
            \/ /\ \A i \in DOMAIN seen' : ~Marks(seen'[i], p)
               /\ pipeRedundancyEvents_'[p] = Sync!None
            \/ \E i \in DOMAIN seen' :
                 /\ Marks(seen'[i], p) /\ \A k \in DOMAIN seen' : k > i => ~Marks(seen'[k], p)
                 /\ pipeRedundancyEvents_'[p] = IF Sync!IsFlag(seen'[i]) THEN seen'[i] ELSE Sync!None
    BY SMTT(30) DEF RemembersLast, Positions, Marks, IsChecked, Sync!GetPipeType, Sync!IsFlag,
       Sync!None
  <1>6. ASSUME NEW p \in Pipes, Marks(e, p)
        PROVE  \E i \in DOMAIN seen' :
                 /\ Marks(seen'[i], p) /\ \A k \in DOMAIN seen' : k > i => ~Marks(seen'[k], p)
                 /\ pipeRedundancyEvents_'[p] = IF Sync!IsFlag(seen'[i]) THEN seen'[i] ELSE Sync!None
    <2>1. pipeRedundancyEvents_'[p] = IF Sync!IsFlag(e) THEN e ELSE Sync!None
      BY ZenonT(30), <1>2, <1>6 DEF Marks, Sync!LastAfter, SyncTypes
    <2> WITNESS n \in DOMAIN seen'
    <2> QED
      BY SMTT(30), <2>1, <1>1, <1>6
  <1>7. ASSUME NEW p \in Pipes, ~Marks(e, p)
        PROVE  \/ /\ \A i \in DOMAIN seen' : ~Marks(seen'[i], p)
                  /\ pipeRedundancyEvents_'[p] = Sync!None
               \/ \E i \in DOMAIN seen' :
                    /\ Marks(seen'[i], p) /\ \A k \in DOMAIN seen' : k > i => ~Marks(seen'[k], p)
                    /\ pipeRedundancyEvents_'[p] = IF Sync!IsFlag(seen'[i]) THEN seen'[i] ELSE Sync!None
    <2>1. pipeRedundancyEvents_'[p] = pipeRedundancyEvents_[p]
      BY Zenon, <1>2, <1>7 DEF Marks, Sync!LastAfter, SyncTypes
    <2>2. CASE (\A i \in DOMAIN seen : ~Marks(seen[i], p)) /\ pipeRedundancyEvents_[p] = Sync!None
      BY ZenonT(30), <2>1, <2>2, <1>1, <1>7
    <2>3. ASSUME NEW i \in DOMAIN seen,
                 Marks(seen[i], p) /\ \A k \in DOMAIN seen : k > i => ~Marks(seen[k], p),
                 pipeRedundancyEvents_[p] = IF Sync!IsFlag(seen[i]) THEN seen[i] ELSE Sync!None
          PROVE  \E m \in DOMAIN seen' :
                    /\ Marks(seen'[m], p) /\ \A k \in DOMAIN seen' : k > m => ~Marks(seen'[k], p)
                    /\ pipeRedundancyEvents_'[p] = IF Sync!IsFlag(seen'[m]) THEN seen'[m] ELSE Sync!None
      <3>1. i \in DOMAIN seen' /\ seen'[i] = seen[i]
        BY Zenon, <1>1
      <3>2. \A k \in DOMAIN seen' : k > i => ~Marks(seen'[k], p)
        BY ZenonT(30), <2>3, <1>1, <1>7
      <3> QED
        BY ZenonT(30), <3>1, <3>2, <2>1, <2>3
    <2> QED
      BY Zenon, <2>2, <2>3 DEF RemembersLast, Positions
  <1> QED
    BY ZenonT(30), <1>4, <1>5, <1>6, <1>7

(* The repetitions are finitely many, and a repetition's rank is one of the *)
(* places of the report.                                                   *)
LEMMA RankFacts ==
  ASSUME SyncTypes
  PROVE  /\ IsFiniteSet(Repeated) /\ Cardinality(Repeated) \in Nat
         /\ Repeated \subseteq 1..Len(seen)
         /\ \A j \in Repeated : Rank(j) \in 1..Cardinality(Repeated)
  <1>1. Len(seen) \in Nat /\ DOMAIN seen = 1..Len(seen)
    BY DEF SyncTypes
  <1>2. Repeated \subseteq 1..Len(seen)
    BY Zenon, <1>1 DEF Repeated, Positions
  <1>3. IsFiniteSet(1..Len(seen))
    BY SMTT(30), <1>1, FS_Interval
  <1>4. IsFiniteSet(Repeated) /\ Cardinality(Repeated) \in Nat
    BY Zenon, <1>2, <1>3, FS_Subset, FS_CardinalityType
  <1>5. ASSUME NEW j \in Repeated PROVE Rank(j) \in 1..Cardinality(Repeated)
    <2> DEFINE K == {k \in Repeated : k <= j}
    <2>1. K \subseteq Repeated /\ j \in K
      BY <1>2
    <2> HIDE DEF K
    <2>2. IsFiniteSet(K) /\ Cardinality(K) <= Cardinality(Repeated) /\ Cardinality(K) \in Nat
      BY Zenon, <2>1, <1>4, FS_Subset, FS_CardinalityType
    <2>3. Cardinality(K) # 0
      BY Zenon, <2>1, <2>2, FS_EmptySet
    <2>4. Rank(j) = Cardinality(K)
      BY Zenon DEF Rank, K
    <2> QED
      BY SMTT(30), <2>2, <2>3, <2>4, <1>4
  <1> QED
    BY ZenonT(30), <1>2, <1>4, <1>5

(* The elements of a list after two more.                                  *)
LEMMA TwoMore ==
  ASSUME NEW S, NEW s \in Seq(S), NEW e \in S, NEW n \in Nat, Len(s) = n
  PROVE  /\ s \o <<e, e>> \in Seq(S) /\ Len(s \o <<e, e>>) = n + 2
         /\ (s \o <<e, e>>)[n + 1] = e /\ (s \o <<e, e>>)[n + 2] = e
         /\ \A i \in 1..n : (s \o <<e, e>>)[i] = s[i]
  OBVIOUS

(* The pairs noted are the repetitions, also after one more event.         *)
LEMMA PairsStep ==
  ASSUME SyncTypes, NotedPairs, NEW e \in Sync!Events, seen' = Append(seen, e),
         Repeated' = IF Noted(e) THEN Repeated \cup {Len(seen) + 1} ELSE Repeated,
         redundancyInfo_' = IF Noted(e) THEN redundancyInfo_ \o <<e, e>> ELSE redundancyInfo_
  PROVE  redundancyInfo_' \in Seq(Sync!Events) /\ NotedPairs'
  <1> DEFINE n == Len(seen) + 1
             c == Cardinality(Repeated)
             NewRank(j) == Cardinality({k \in Repeated' : k <= j})
             Noted2 == /\ Len(redundancyInfo_') = 2 * Cardinality(Repeated')
                       /\ \A j \in Repeated' : /\ redundancyInfo_'[2 * NewRank(j) - 1] = seen'[j]
                                               /\ redundancyInfo_'[2 * NewRank(j)] = seen'[j]
  <1>1. /\ Len(seen) \in Nat /\ DOMAIN seen = 1..Len(seen)
        /\ \A i \in DOMAIN seen : seen'[i] = seen[i]
        /\ seen'[n] = e
    BY SeenAppend DEF SyncTypes
  <1>2. /\ IsFiniteSet(Repeated) /\ c \in Nat /\ Repeated \subseteq 1..Len(seen)
        /\ \A j \in Repeated : Rank(j) \in 1..c
    BY Zenon, RankFacts
  <1>3. redundancyInfo_ \in Seq(Sync!Events) /\ Len(redundancyInfo_) = 2 * c
    BY Zenon DEF NotedPairs, SyncTypes
  <1>4. SUFFICES redundancyInfo_' \in Seq(Sync!Events) /\ Noted2
    BY Zenon DEF NotedPairs, Rank
  <1>5. ASSUME NEW j \in Repeated PROVE NewRank(j) = Rank(j)
    <2>1. {k \in Repeated' : k <= j} = {k \in Repeated : k <= j}
      BY SMTT(30), <1>1, <1>2
    <2> QED
      BY Zenon, <2>1 DEF Rank
  <1>6. \A j \in Repeated : /\ redundancyInfo_[2 * Rank(j) - 1] = seen[j]
                            /\ redundancyInfo_[2 * Rank(j)] = seen[j]
    BY Zenon DEF NotedPairs
  <1> HIDE DEF NewRank
  <1>7. CASE ~Noted(e)
    <2>1. redundancyInfo_' = redundancyInfo_ /\ Repeated' = Repeated
      BY Zenon, <1>7
    <2> QED
      BY ZenonT(30), <2>1, <1>1, <1>2, <1>3, <1>5, <1>6
  <1>8. CASE Noted(e)
    <2>1. redundancyInfo_' = redundancyInfo_ \o <<e, e>> /\ Repeated' = Repeated \cup {n}
      BY Zenon, <1>8
    <2>2. n \notin Repeated
      BY SMTT(30), <1>1, <1>2
    <2>3. Cardinality(Repeated') = c + 1
      BY ZenonT(30), <2>1, <2>2, <1>2, FS_AddElement
    <2>4. {k \in Repeated' : k <= n} = Repeated'
      BY SMTT(30), <2>1, <1>1, <1>2
    <2>5. NewRank(n) = c + 1
      BY Zenon, <2>3, <2>4 DEF NewRank
    <2>6. /\ redundancyInfo_' \in Seq(Sync!Events) /\ Len(redundancyInfo_') = 2 * c + 2
          /\ redundancyInfo_'[2 * c + 1] = e /\ redundancyInfo_'[2 * c + 2] = e
          /\ \A i \in 1..2 * c : redundancyInfo_'[i] = redundancyInfo_[i]
      <3> DEFINE m == 2 * c
      <3>1. m \in Nat /\ Len(redundancyInfo_) = m
        BY SMTT(30), <1>2, <1>3
      <3> HIDE DEF m
      <3>2. /\ redundancyInfo_' \in Seq(Sync!Events) /\ Len(redundancyInfo_') = m + 2
            /\ redundancyInfo_'[m + 1] = e /\ redundancyInfo_'[m + 2] = e
            /\ \A i \in 1..m : redundancyInfo_'[i] = redundancyInfo_[i]
        BY SMTT(30), <3>1, <2>1, <1>3, TwoMore
      <3> QED
        BY Zenon, <3>2 DEF m
    <2>7. Len(redundancyInfo_') = 2 * Cardinality(Repeated')
      BY SMTT(30), <2>3, <2>6, <1>2
    <2>8. ASSUME NEW j \in Repeated
          PROVE  redundancyInfo_'[2 * NewRank(j) - 1] = seen'[j] /\ redundancyInfo_'[2 * NewRank(j)] = seen'[j]
      <3>1. NewRank(j) = Rank(j) /\ Rank(j) \in 1..c /\ seen'[j] = seen[j]
        BY SMTT(30), <1>1, <1>2, <1>5
      <3>2. 2 * Rank(j) - 1 \in 1..2 * c /\ 2 * Rank(j) \in 1..2 * c
        BY SMTT(30), <3>1, <1>2
      <3> QED
        BY ZenonT(30), <3>1, <3>2, <2>6, <1>6
    <2>9. redundancyInfo_'[2 * NewRank(n) - 1] = seen'[n] /\ redundancyInfo_'[2 * NewRank(n)] = seen'[n]
      <3>1. 2 * NewRank(n) - 1 = 2 * c + 1 /\ 2 * NewRank(n) = 2 * c + 2
        BY SMTT(30), <2>5, <1>2
      <3> QED
        BY SMTT(30), <3>1, <2>6, <1>1
    <2> QED
      BY ZenonT(30), <2>1, <2>6, <2>7, <2>8, <2>9
  <1> QED
    BY ZenonT(30), <1>7, <1>8

(* What the check keeps when a kernel begins. *)
SyncFresh ==
  /\ seen = <<>> /\ report = Sync!NoReport
  /\ syncEvents_ = [i \in Sync!SyncIDs |-> <<>>]
  /\ pipeRedundancyEvents_ = [p \in Pipes |-> Sync!None]
  /\ redundancyInfo_ = <<>>

(* The invariant holds when a kernel begins.                               *)
LEMMA SyncFreshHolds == SyncFresh => SyncInv
  <1> SUFFICES ASSUME SyncFresh PROVE SyncInv
    BY Zenon
  <1>1. Positions = {} /\ DOMAIN seen = {}
    BY DEF SyncFresh, Positions
  <1>2. Repeated = {} /\ Cardinality(Repeated) = 0
    BY Zenon, <1>1, FS_EmptySet DEF Repeated
  <1>3. SyncTypes
    <2>1. \A S : <<>> \in Seq(S)
      BY SMTT(30)
    <2> QED
      BY Zenon, <2>1 DEF SyncTypes, SyncFresh
  <1>4. CoresInOrder /\ NotedPairs
    BY SMTT(30), <1>1, <1>2 DEF CoresInOrder, NotedPairs, SyncFresh
  <1>5. RemembersLast
    BY Zenon, <1>1 DEF RemembersLast, SyncFresh
  <1>6. Balanced
    <2>1. \A kind, f : CountOf(kind, f) = 0
      BY Zenon, <1>1, FS_EmptySet DEF CountOf
    <2>2. \A f \in FlagEvents : Waiting("SET_FLAG", f) = 0 /\ Waiting("WAIT_FLAG", f) = 0
      BY Zenon, FlagIDs DEF Waiting, SyncFresh
    <2> QED
      BY Zenon, <2>1, <2>2 DEF Balanced
  <1>7. ReportFits
    BY Zenon DEF ReportFits, SyncFresh
  <1> QED
    BY SMTT(30), <1>3, <1>4, <1>5, <1>6, <1>7 DEF SyncInv

(* What the synchronisation check keeps of the events, and its report.     *)
syncKept == <<seen, syncEvents_, pipeRedundancyEvents_, redundancyInfo_>>

(* All but the report depends on the events alone.                         *)
LEMMA SyncFrame ==
  ASSUME SyncTypes, CoresInOrder, Balanced, RemembersLast, NotedPairs, job' = job, UNCHANGED syncKept
  PROVE  SyncTypes' /\ CoresInOrder' /\ Balanced' /\ RemembersLast' /\ NotedPairs'
  <1>1. SyncTypes' /\ CoresInOrder'
    BY Zenon DEF syncKept, SyncTypes, CoresInOrder, Positions
  <1>2. Balanced'
    <2>1. ASSUME NEW CONSTANT kind, NEW CONSTANT f PROVE CountOf(kind, f)' = CountOf(kind, f)
      BY Zenon DEF syncKept, CountOf, Positions, IsChecked
    <2>2. ASSUME NEW CONSTANT kind, NEW CONSTANT f PROVE Waiting(kind, f)' = Waiting(kind, f)
      BY ZenonT(30) DEF syncKept, Waiting
    <2> QED
      BY Zenon, <2>1, <2>2 DEF Balanced
  <1>3. RemembersLast'
    BY DEF syncKept, RemembersLast, Positions, Marks, IsChecked
  <1>4. NotedPairs'
    <2>1. Repeated' = Repeated
      BY DEF syncKept, Repeated, Positions, RepeatAt, IsChecked
    <2>2. ASSUME NEW CONSTANT j PROVE Rank(j)' = Rank(j)
      BY Zenon, <2>1 DEF Rank
    <2> QED
      BY ZenonT(30), <2>1, <2>2 DEF NotedPairs, syncKept
  <1> QED
    BY ZenonT(30), <1>1, <1>2, <1>3, <1>4

(* An event is entered in the lists and in the memory of its pipe.         *)
LEMMA SyncEvent ==
  ASSUME SyncInv, NEW e \in Sync!Events, Sync!DoEvent(e), job' = job
  PROVE  SyncInv'
  <1> DEFINE last == pipeRedundancyEvents_[Sync!GetPipeType(e)]
  <1>1. /\ phase = "run" /\ seen' = Append(seen, e) /\ (seen # <<>> => seen[Len(seen)].core <= e.core)
        /\ kernel' = kernel /\ phase' = phase /\ report' = report
        /\ Sync!IsTargetBlockId(e.core) <=> IsChecked(e)
    BY Zenon DEF Sync!DoEvent, Sync!IsTargetBlockId, IsChecked
  <1>2. SyncTypes /\ CoresInOrder /\ Balanced /\ RemembersLast /\ NotedPairs /\ ReportFits
    BY Zenon DEF SyncInv
  <1>3. syncEvents_' = IF IsChecked(e) THEN Sync!DoMatchCheck(e) ELSE syncEvents_
    BY Zenon, <1>1 DEF Sync!DoEvent
  <1>4. pipeRedundancyEvents_' = IF IsChecked(e)
          THEN [pipeRedundancyEvents_ EXCEPT ![Sync!GetPipeType(e)] = Sync!LastAfter(e, last)]
          ELSE pipeRedundancyEvents_
    BY Zenon, <1>1 DEF Sync!DoEvent
  <1>5. redundancyInfo_' = IF Noted(e) THEN redundancyInfo_ \o <<e, e>> ELSE redundancyInfo_
    BY Zenon, <1>1 DEF Sync!DoEvent, Noted, Sync!Repeats
  <1>6. CoresInOrder'
    BY ZenonT(30), <1>1, <1>2, CoresStep
  <1>7. \A i \in DOMAIN seen : seen[i].core <= e.core
    <2>1. /\ Len(seen) \in Nat /\ DOMAIN seen = 1..Len(seen) /\ DOMAIN seen' = DOMAIN seen \cup {Len(seen) + 1}
          /\ \A i \in DOMAIN seen : seen'[i] = seen[i]
          /\ seen'[Len(seen) + 1] = e
      BY SMTT(30), <1>1, <1>2, SeenAppend DEF SyncTypes
    <2>2. \A i \in DOMAIN seen : i \in DOMAIN seen' /\ Len(seen) + 1 \in DOMAIN seen' /\ i < Len(seen) + 1
      BY <2>1
    <2> QED
      BY ZenonT(30), <2>1, <2>2, <1>6 DEF CoresInOrder, Positions
  <1>8. Repeated' = IF Noted(e) THEN Repeated \cup {Len(seen) + 1} ELSE Repeated
    BY ZenonT(30), <1>1, <1>2, <1>7, RepeatStep
  <1>9. redundancyInfo_' \in Seq(Sync!Events) /\ NotedPairs'
    BY ZenonT(30), <1>1, <1>2, <1>5, <1>8, PairsStep
  <1>10. pipeRedundancyEvents_' \in [Pipes -> Sync!Events \cup {Sync!None}] /\ RemembersLast'
    BY ZenonT(30), <1>1, <1>2, <1>4, RememberStep
  <1>11. syncEvents_' \in [Sync!SyncIDs -> Seq(Sync!Events)] /\ Balanced'
    BY ZenonT(30), <1>1, <1>2, <1>3, BalanceStep
  <1>12. SyncTypes'
    BY ZenonT(30), <1>1, <1>2, <1>9, <1>10, <1>11, SeenAppend DEF SyncTypes
  <1>13. ReportFits'
    BY Zenon, <1>1, <1>2 DEF ReportFits
  <1> QED
    BY SMTT(30), <1>6, <1>9, <1>10, <1>11, <1>12, <1>13 DEF SyncInv

(* Every step of a job keeps the invariant.                                *)
LEMMA SyncStep ==
  ASSUME SyncInv, [MCNext]_<<peerVars, syncVars, kernel, phase, regVars>>
  PROVE  SyncInv'
  <1>1. SyncTypes /\ CoresInOrder /\ Balanced /\ RemembersLast /\ NotedPairs /\ ReportFits
    BY Zenon DEF SyncInv
  <1>2. CASE job.tool = "sync" /\ Sync!Next
    <2>1. job' = job
      BY Zenon, <1>2 DEF Sync!Next
    <2>2. CASE Sync!SetKernelInfo
      <3>1. SyncFresh'
        BY ZenonT(30), <2>2 DEF Sync!SetKernelInfo, SyncFresh
      <3> QED
        BY <3>1, SyncFreshHolds, PTL
    <2>3. ASSUME NEW e \in Sync!Events, Sync!DoEvent(e) PROVE SyncInv'
      BY Zenon, <2>1, <2>3, SyncEvent
    <2>4. CASE Sync!ParseOnlineError
      <3>1. UNCHANGED syncKept /\ phase' = phase /\ report' = report
        BY Zenon, <2>4 DEF Sync!ParseOnlineError, syncKept
      <3>2. SyncTypes' /\ CoresInOrder' /\ Balanced' /\ RemembersLast' /\ NotedPairs'
        BY ZenonT(30), <3>1, <2>1, <1>1, SyncFrame
      <3>3. ReportFits'
        BY ZenonT(30), <3>1, <2>1, <1>1 DEF ReportFits, syncKept, Sync!ReportUnpairedInfo,
           Sync!NoReport
      <3> QED
        BY Zenon, <3>2, <3>3 DEF SyncInv
    <2>5. ASSUME NEW stuck, Sync!KernelFinish(stuck) PROVE SyncInv'
      <3>1. UNCHANGED syncKept /\ phase' = "idle" /\ report'.unpaired = Sync!ReportUnpairedInfo
            /\ report'.redundant = redundancyInfo_
        BY Zenon, <2>5 DEF Sync!KernelFinish, syncKept
      <3>2. SyncTypes' /\ CoresInOrder' /\ Balanced' /\ RemembersLast' /\ NotedPairs'
        BY SMTT(30), <3>1, <2>1, <1>1, SyncFrame
      <3>3. ReportFits'
        BY ZenonT(30), <3>1, <2>1, <1>1, <1>2 DEF ReportFits, syncKept,
           Sync!ReportUnpairedInfo, Sync!NoReport
      <3> QED
        BY Zenon, <3>2, <3>3 DEF SyncInv
    <2> QED
      BY ZenonT(30), <1>2, <2>2, <2>3, <2>4, <2>5 DEF Sync!Next
  <1>3. CASE UNCHANGED syncVars /\ (job.tool # "sync" \/ UNCHANGED phase)
    <2>1. UNCHANGED syncKept /\ report' = report /\ job' = job
      BY Zenon, <1>3 DEF syncVars, syncKept
    <2>2. SyncTypes' /\ CoresInOrder' /\ Balanced' /\ RemembersLast' /\ NotedPairs'
      BY ZenonT(30), <2>1, <1>1, SyncFrame
    <2>3. ReportFits'
      BY ZenonT(30), <2>1, <1>1, <1>3 DEF ReportFits, syncKept, Sync!ReportUnpairedInfo,
         Sync!NoReport
    <2> QED
      BY Zenon, <2>2, <2>3 DEF SyncInv
  <1> QED
    BY Zenon, <1>2, <1>3 DEF MCNext

(* What is kept makes the report what it is to be.                         *)
LEMMA SyncInvExact == SyncInv => SyncReportExact
  <1> SUFFICES ASSUME SyncInv, report # Sync!NoReport PROVE SyncReportExact
    BY Zenon DEF SyncReportExact, UnpairedExact, RedundantExact
  <1>1. report.unpaired = Sync!ReportUnpairedInfo /\ report.redundant = redundancyInfo_
    BY Zenon DEF SyncInv, ReportFits
  <1>2. RedundantExact
    BY Zenon, <1>1 DEF RedundantExact, SyncInv, NotedPairs
  <1>3. ASSUME NEW i \in DOMAIN report.unpaired,
               NEW e, e = [core |-> i[2], src |-> i[3], dst |-> i[4], id |-> i[5]]
        PROVE  LET surplus == CountOf("SET_FLAG", e) - CountOf("WAIT_FLAG", e)
               IN  Len(report.unpaired[i]) = IF surplus > 0 THEN surplus ELSE 0
    <2>1. i \in Sync!SyncIDs /\ i[1] = "SET_FLAG" /\ report.unpaired[i] = syncEvents_[i]
      BY Zenon, <1>1, <1>3 DEF Sync!ReportUnpairedInfo
    <2>2. PICK kind \in {"SET_FLAG", "WAIT_FLAG"}, f \in FlagEvents : i = Sync!SyncID(kind, f)
      BY SMTT(30), <2>1 DEF Sync!SyncIDs, FlagEvents
    <2>3. kind = "SET_FLAG" /\ e.core = f.core /\ e.src = f.src /\ e.dst = f.dst /\ e.id = f.id
      BY SMTT(30), <2>1, <2>2, <1>3 DEF Sync!SyncID
    <2>4. Sync!SyncID("SET_FLAG", e) = Sync!SyncID("SET_FLAG", f)
          /\ Sync!SyncID("WAIT_FLAG", e) = Sync!SyncID("WAIT_FLAG", f)
      BY SMTT(30), <2>3, SyncIDFacts
    <2>5. CountOf("SET_FLAG", e) = CountOf("SET_FLAG", f) /\ CountOf("WAIT_FLAG", e) = CountOf("WAIT_FLAG", f)
      BY Zenon, <2>4 DEF CountOf
    <2>6. Len(report.unpaired[i]) = Waiting("SET_FLAG", f)
      BY ZenonT(30), <2>1, <2>2, <2>3 DEF Waiting
    <2>7. Waiting("SET_FLAG", f) \in Nat /\ Waiting("WAIT_FLAG", f) \in Nat
      BY FlagIDs DEF Waiting, SyncInv, SyncTypes
    <2>8. /\ Waiting("SET_FLAG", f) - Waiting("WAIT_FLAG", f) = CountOf("SET_FLAG", f) - CountOf("WAIT_FLAG", f)
          /\ Waiting("SET_FLAG", f) = 0 \/ Waiting("WAIT_FLAG", f) = 0
      BY Zenon DEF SyncInv, Balanced
    <2> QED
      BY SMTT(30), <2>5, <2>6, <2>7, <2>8
  <1>4. UnpairedExact
    BY ZenonT(30), <1>3 DEF UnpairedExact
  <1> QED
    BY Zenon, <1>2, <1>4 DEF SyncReportExact


(* SyncSanitizer keeps its invariant in every job.                         *)
THEOREM SyncInvariance == MCSpec => []SyncInv
  <1>1. MCInit => SyncInv
    BY ZenonT(30), SyncFreshHolds DEF MCInit, Sync!Init, SyncFresh
  <1>2. SyncInv /\ [MCNext]_<<peerVars, syncVars, kernel, phase, regVars>> => SyncInv'
    BY Zenon, SyncStep
  <1> QED
    BY <1>1, <1>2, PTL DEF MCSpec

(* The report of SyncSanitizer at the end of a kernel is exact, for any    *)
(* cores, pipes, flags and number of events and kernels: the unpaired      *)
(* set_flags are the surplus, the redundant pairs are the repetitions, and *)
(* nothing of another core or kernel is among them.                        *)
THEOREM SyncReportIsExact == MCSpec => []SyncReportExact
  BY SyncInvariance, SyncInvExact, PTL
=============================================================================
