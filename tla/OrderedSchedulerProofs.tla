----------------------- MODULE OrderedSchedulerProofs -----------------------
(***************************************************************************)
(* Proofs about OrderedScheduler, for any set of devices and any number of *)
(* packets.                                                                *)
(*                                                                         *)
(* The argument.  Every access (update) in the queue of a device is        *)
(* followed there by the mark lastAccess (lastUpdate) points to, so that a *)
(* ready mark means that no such work is left (AccessMarked,               *)
(* UpdateMarked).  The waits of Execute then keep work that looks at a     *)
(* table apart from work that changes it (NoConflictInFlight), and the     *)
(* grants of a device are not touched while it has accesses in flight.     *)
(* Hence the view an access was dispatched with is still the view its      *)
(* check meets (ViewsHold).  A dispatch that throws leaves work without a  *)
(* mark behind; the argument is about executions in which none has.        *)
(***************************************************************************)
EXTENDS OrderedScheduler, TLAPS

(* The data part of the type invariant. *)
DataTypes == /\ relations_ \in [Devices -> SUBSET Devices]
             /\ granted \in [Devices -> SUBSET Devices]
             /\ lastAccess \in [Devices -> 0..MaxId]
             /\ lastUpdate \in [Devices -> 0..MaxId]
             /\ lastWork \in [Devices -> 0..MaxId]
             /\ fifo \in [Devices -> Seq(Items \cup Marks)]
             /\ applied \in [Devices -> SUBSET Ids]
             /\ issued \in [Devices -> SUBSET Ids]
             /\ misjudged \subseteq Ids

(* While no dispatch has thrown, no check has been misjudged. *)
Types == /\ relations_ \in [Devices -> SUBSET Devices]
         /\ granted \in [Devices -> SUBSET Devices]
         /\ lastAccess \in [Devices -> 0..MaxId]
         /\ lastUpdate \in [Devices -> 0..MaxId]
         /\ lastWork \in [Devices -> 0..MaxId]
         /\ fifo \in [Devices -> Seq(Items \cup Marks)]
         /\ applied \in [Devices -> SUBSET Ids]
         /\ issued \in [Devices -> SUBSET Ids]
         /\ misjudged = {}

(* The control part of the type invariant. *)
ControlInv == /\ accepted \subseteq Ids
              /\ nextOrderId_ \in 1..MaxId + 1
              /\ pendingJobMap_ = accepted \ 1..(nextOrderId_ - 1)
              /\ 1..(nextOrderId_ - 1) \subseteq accepted
              /\ closing_ \in BOOLEAN
              /\ dpc \in {"loop", "sleep", "execute", "complete", "drain", "ended"}
              /\ djob \in Packets \cup {NoJob} /\ did \in 0..MaxId
              /\ dpc \in {"execute", "complete"} => djob \in Packets /\ did \in Ids
              /\ failures \subseteq {"thrown", "missing"}

(* How the dispatch thread ends. *)
EndInv == /\ dpc \in {"drain", "ended"} => closing_
          /\ dpc = "ended" => /\ NoneThrown => \A d \in Devices : fifo[d] = <<>>
                              /\ pendingJobMap_ = {} \/ "missing" \in failures

(* The packet in hand while it is executed. *)
JobInv == /\ dpc \in {"execute", "complete"} => djob \in Packets /\ did \in Ids
          /\ dpc = "complete" => ~Refused(djob)

(* No device is granted to itself; PeerAccessManager runs ahead of the     *)
(* scheduler's relations only between dispatch_ and the code behind it.    *)
RelInv == /\ granted = IF dpc = "complete" THEN ApplyPeer(relations_, djob) ELSE relations_
          /\ \A d \in Devices : d \notin relations_[d]

Followed(d, i, n) == \E j \in DOMAIN fifo[d] : j >= i /\ fifo[d][j] = Mark(n)

AccessMarked == \A d \in Devices : \A i \in DOMAIN fifo[d] : IsAccess(fifo[d][i]) =>
    \/ Followed(d, i, lastAccess[d])
    \/ dpc = "complete" /\ Accesses(djob) /\ d = djob.dev

UpdateMarked == \A d \in Devices : \A i \in DOMAIN fifo[d] : IsUpdate(fifo[d][i]) =>
    \/ Followed(d, i, lastUpdate[d])
    \/ dpc = "complete" /\ MarkedUpdate(djob, d)

WorkMarked == \A d \in Devices : \A i \in DOMAIN fifo[d] :
    \/ Followed(d, i, lastWork[d])
    \/ dpc = "complete" /\ MarkedWork(djob, d)

(* What was dispatched to a device has been carried out or is queued. *)
IssuedInv == \A p \in Devices : \A n \in Ids :
    n \in issued[p] <=> \/ n \in applied[p]
                        \/ \E i \in DOMAIN fifo[p] : IsUpdate(fifo[p][i]) /\ fifo[p][i].id = n

ViewsHold == \A d \in Devices : \A i \in DOMAIN fifo[d] :
    IsAccess(fifo[d][i]) => fifo[d][i].view = View(d)

IndInv == /\ Types /\ JobInv /\ RelInv
          /\ AccessMarked /\ UpdateMarked /\ WorkMarked
          /\ ConflictFree /\ IssuedInv /\ ViewsHold

----------------------------------------------------------------------------
(* What Append and Tail do to the entries of a queue. *)
LEMMA AppendEntries ==
  ASSUME NEW S, NEW q \in Seq(S), NEW x \in S
  PROVE  /\ Append(q, x) \in Seq(S)
         /\ DOMAIN Append(q, x) = 1..(Len(q) + 1)
         /\ DOMAIN q = 1..Len(q) /\ Len(q) \in Nat
         /\ \A i \in DOMAIN q : i \in DOMAIN Append(q, x) /\ Append(q, x)[i] = q[i]
         /\ Append(q, x)[Len(q) + 1] = x
OBVIOUS

(* Taking the head of a queue moves its entries one place down. *)
LEMMA TailEntries ==
  ASSUME NEW S, NEW q \in Seq(S), q # <<>>
  PROVE  /\ Tail(q) \in Seq(S)
         /\ Len(q) \in Nat \ {0} /\ DOMAIN q = 1..Len(q) /\ DOMAIN Tail(q) = 1..(Len(q) - 1)
         /\ \A i \in DOMAIN Tail(q) : i + 1 \in DOMAIN q /\ Tail(q)[i] = q[i + 1]
         /\ Head(q) = q[1] /\ 1 \in DOMAIN q /\ Head(q) \in S
OBVIOUS

(* An entry is exactly one of a mark and work; only marks are marks. *)
LEMMA EntryKinds ==
  /\ \A n \in Nat : ~IsAccess(Mark(n)) /\ ~IsUpdate(Mark(n)) /\ Mark(n).what = "mark" /\ Mark(n).id = n
  /\ \A it \in Items : it.what # "mark"
BY Zenon DEF IsAccess, IsUpdate, Mark, Item, Items

(* With no packet in dispatch, a ready mark means the work is done. *)
LEMMA ReadyMeansDone ==
  ASSUME IndInv, dpc # "complete", NEW d \in Devices
  PROVE  /\ Ready(d, lastAccess[d]) => ~HasAccess(d)
         /\ Ready(d, lastUpdate[d]) => ~HasUpdate(d)
         /\ Ready(d, lastWork[d]) => fifo[d] = <<>>
<1>1. Ready(d, lastAccess[d]) => ~HasAccess(d)
  BY Zenon DEF IndInv, AccessMarked, Followed, Ready, HasAccess
<1>2. Ready(d, lastUpdate[d]) => ~HasUpdate(d)
  BY Zenon DEF IndInv, UpdateMarked, Followed, Ready, HasUpdate
<1>3. ASSUME Ready(d, lastWork[d]), fifo[d] # <<>> PROVE FALSE
  <2>1. fifo[d] \in Seq(Items \cup Marks)
    BY Zenon DEF IndInv, Types
  <2>2. 1 \in DOMAIN fifo[d]
    BY <2>1, <1>3
  <2>3. Followed(d, 1, lastWork[d])
    BY Zenon, <2>2 DEF IndInv, WorkMarked
  <2> QED BY Zenon, <2>3, <1>3 DEF Followed, Ready
<1> QED BY Zenon, <1>1, <1>2, <1>3

----------------------------------------------------------------------------
(* Actions that leave the queues, the grants, the wait points and the      *)
(* tables alone, and do not enter or leave the window behind dispatch_.    *)
DataSame == UNCHANGED <<relations_, granted, points, fifo, tables, issued>>

(* Such an action keeps the invariant. *)
LEMMA QuietStep ==
  ASSUME IndInv, DataSame, dpc # "complete", dpc' # "complete", JobInv'
  PROVE  IndInv'
<1> USE DEF IndInv, DataSame, points, tables
<1>1. Types' /\ RelInv'
  BY Zenon DEF Types, RelInv
<1>2. AccessMarked' /\ UpdateMarked' /\ WorkMarked'
  BY Zenon DEF AccessMarked, UpdateMarked, WorkMarked, Followed
<1>3. ConflictFree' /\ IssuedInv' /\ ViewsHold'
  BY DEF ConflictFree, HasAccess, HasUpdate, IssuedInv, ViewsHold, View
<1> QED BY Zenon, <1>1, <1>2, <1>3

(* The consumer takes the head of its queue: what follows it stays marked. *)
LEMMA ConsumeStep ==
  ASSUME IndInv, NEW d \in Devices, Consume(d)
  PROVE  IndInv'
<1> DEFINE q == fifo[d]
           it == Head(q)
<1>1. q \in Seq(Items \cup Marks) /\ q # <<>>
  BY Zenon DEF IndInv, Types, Consume
<1>2. /\ Tail(q) \in Seq(Items \cup Marks)
      /\ Len(q) \in Nat \ {0} /\ DOMAIN q = 1..Len(q) /\ DOMAIN Tail(q) = 1..(Len(q) - 1)
      /\ \A i \in DOMAIN Tail(q) : i + 1 \in DOMAIN q /\ Tail(q)[i] = q[i + 1]
      /\ it = q[1] /\ 1 \in DOMAIN q /\ it \in Items \cup Marks
  <2> HIDE DEF q
  <2> QED BY Zenon, <1>1, TailEntries
<1>3. /\ fifo' = [fifo EXCEPT ![d] = Tail(q)]
      /\ UNCHANGED <<dpc, djob, did, relations_, granted, lastAccess, lastUpdate, lastWork, issued>>
  BY Zenon DEF Consume, dispatch, points
<1>4. /\ fifo'[d] = Tail(q)
      /\ \A e \in Devices : e # d => fifo'[e] = fifo[e]
  BY Zenon, <1>3 DEF IndInv, Types
<1>5. misjudged' = {}
  <2>1. IsAccess(it) => it.view = View(d)
    BY <1>2 DEF IndInv, ViewsHold
  <2> QED BY Zenon, <2>1 DEF Consume, IndInv, Types
<1>6. /\ applied' \in [Devices -> SUBSET Ids]
      /\ \A e \in Devices : e # d => applied'[e] = applied[e]
      /\ applied'[d] = IF IsUpdate(it) THEN applied[d] \cup {it.id} ELSE applied[d]
  <2>1. it.id \in Ids
    BY <1>2 DEF Items, Marks, Mark, Item
  <2> QED BY Zenon, <2>1 DEF Consume, IndInv, Types
<1>7. Types'
  <2>1. fifo' \in [Devices -> Seq(Items \cup Marks)]
    BY Zenon, <1>2, <1>3 DEF IndInv, Types
  <2> QED BY Zenon, <2>1, <1>3, <1>5, <1>6 DEF IndInv, Types
<1>8. JobInv' /\ RelInv'
  BY Zenon, <1>3 DEF IndInv, JobInv, RelInv
<1>9. ASSUME NEW e \in Devices, NEW i \in DOMAIN fifo'[e], NEW n \in 0..MaxId,
             Followed(e, IF e = d THEN i + 1 ELSE i, n)
      PROVE  Followed(e, i, n)'
  <2>1. CASE e # d
    BY Zenon, <2>1, <1>4, <1>9 DEF Followed
  <2>2. CASE e = d
    <3>1. i \in 1..(Len(q) - 1)
      BY Zenon, <2>2, <1>2, <1>4
    <3>2. PICK j \in DOMAIN q : j >= i + 1 /\ q[j] = Mark(n)
      BY Zenon, <2>2, <1>9 DEF Followed
    <3>3. j - 1 \in DOMAIN Tail(q) /\ j - 1 >= i /\ (j - 1) + 1 = j
      BY <3>1, <3>2, <1>2
    <3>4. Tail(q)[j - 1] = Mark(n)
      BY Zenon, <3>2, <3>3, <1>2
    <3> QED BY Zenon, <2>2, <3>3, <3>4, <1>4 DEF Followed
  <2> QED BY Zenon, <2>1, <2>2
<1>10. \A e \in Devices : \A i \in DOMAIN fifo'[e] :
          LET k == IF e = d THEN i + 1 ELSE i
          IN  k \in DOMAIN fifo[e] /\ fifo'[e][i] = fifo[e][k]
  BY ZenonT(60), <1>2, <1>4
<1>11. lastAccess \in [Devices -> 0..MaxId] /\ lastUpdate \in [Devices -> 0..MaxId]
       /\ lastWork \in [Devices -> 0..MaxId]
  BY Zenon DEF IndInv, Types
<1>12. AccessMarked'
  BY <1>3, <1>9, <1>10, <1>11 DEF IndInv, AccessMarked, Accesses
<1>13. UpdateMarked'
  BY <1>3, <1>9, <1>10, <1>11 DEF IndInv, UpdateMarked, MarkedUpdate, Updates
<1>14. WorkMarked'
  BY Zenon, <1>3, <1>9, <1>10, <1>11 DEF IndInv, WorkMarked, MarkedWork
<1>15. \A e \in Devices : (HasAccess(e)' => HasAccess(e)) /\ (HasUpdate(e)' => HasUpdate(e))
  BY Zenon, <1>10 DEF HasAccess, HasUpdate
<1>16. ConflictFree'
  <2>1. granted \in [Devices -> SUBSET Devices]
    BY Zenon DEF IndInv, Types
  <2> QED BY Zenon, <2>1, <1>3, <1>15 DEF IndInv, ConflictFree
<1>17. IssuedInv'
  <2> SUFFICES ASSUME NEW p \in Devices, NEW n \in Ids
               PROVE  (n \in issued[p] <=>
                        \/ n \in applied[p]
                        \/ \E i \in DOMAIN fifo[p] : IsUpdate(fifo[p][i]) /\ fifo[p][i].id = n)'
    BY Zenon DEF IssuedInv
  <2>1. n \in issued[p] <=>
           \/ n \in applied[p]
           \/ \E i \in DOMAIN fifo[p] : IsUpdate(fifo[p][i]) /\ fifo[p][i].id = n
    BY Zenon DEF IndInv, IssuedInv
  <2>2. CASE p # d
    BY Zenon, <2>1, <2>2, <1>3, <1>4, <1>6
  <2>3. CASE p = d
    <3>1. ASSUME NEW k \in DOMAIN q, k # 1 PROVE k - 1 \in DOMAIN Tail(q) /\ Tail(q)[k - 1] = q[k]
      <4>1. k - 1 \in DOMAIN Tail(q) /\ (k - 1) + 1 = k
        BY <3>1, <1>2
      <4> QED BY Zenon, <4>1, <1>2
    <3>2. (\E i \in DOMAIN q : IsUpdate(q[i]) /\ q[i].id = n) <=>
             \/ IsUpdate(it) /\ it.id = n
             \/ \E i \in DOMAIN Tail(q) : IsUpdate(Tail(q)[i]) /\ Tail(q)[i].id = n
      <4> HIDE DEF q, it
      <4> QED BY ZenonT(60), <3>1, <1>2
    <3> QED BY <2>1, <2>3, <3>2, <1>3, <1>4, <1>6
  <2> QED BY Zenon, <2>2, <2>3
<1>18. ViewsHold'
  <2> SUFFICES ASSUME NEW e \in Devices, NEW i \in DOMAIN fifo'[e], IsAccess(fifo'[e][i])
               PROVE  fifo'[e][i].view = View(e)'
    BY Zenon DEF ViewsHold, IsAccess
  <2>1. PICK k \in DOMAIN fifo[e] : fifo'[e][i] = fifo[e][k]
    BY Zenon, <1>10
  <2>2. fifo'[e][i].view = View(e)
    BY Zenon, <2>1 DEF IndInv, ViewsHold
  <2>3. HasAccess(e)
    BY Zenon, <2>1 DEF HasAccess
  <2>4. \A p \in granted[e] : ~HasUpdate(p)
    BY Zenon, <2>3 DEF IndInv, ConflictFree
  <2>5. \A p \in granted[e] : applied'[p] = applied[p]
    <3>1. IsUpdate(it) => HasUpdate(d)
      BY Zenon, <1>2 DEF HasUpdate
    <3>2. granted[e] \subseteq Devices
      BY Zenon DEF IndInv, Types
    <3> QED BY Zenon, <2>4, <3>1, <3>2, <1>6
  <2>6. View(e)' = View(e)
    BY Zenon, <2>5, <1>3 DEF View
  <2> QED BY Zenon, <2>2, <2>6
<1> QED BY Zenon, <1>7, <1>8, <1>12, <1>13, <1>14, <1>16, <1>17, <1>18 DEF IndInv

(* dispatch_: one entry is appended to the queues of the receivers. *)
LEMMA DispatchStep1 ==
  ASSUME IndInv, Dispatch
  PROVE  IndInv'
<1> DEFINE what == IF djob.kind = "destroy" THEN "update" ELSE djob.kind
           view == IF Accesses(djob) THEN [p \in relations_[djob.dev] |-> issued[p]] ELSE NoView
           new  == Item(what, did, view)
<1>1. /\ dpc = "execute" /\ dpc' = "complete" /\ ~Refused(djob) /\ MayDispatch(djob)
      /\ fifo' = [d \in Devices |-> IF Receives(djob, d) THEN Append(fifo[d], new) ELSE fifo[d]]
      /\ issued' = [d \in Devices |-> IF Receives(djob, d) /\ djob.kind # "access"
                                       THEN issued[d] \cup {did} ELSE issued[d]]
      /\ granted' = ApplyPeer(granted, djob)
      /\ UNCHANGED <<djob, did, relations_, lastAccess, lastUpdate, lastWork, applied, misjudged>>
  BY Zenon DEF Dispatch, Deliver, Receivers, points, tables
<1>2. djob \in Packets /\ did \in Ids /\ granted = relations_
  BY Zenon, <1>1 DEF IndInv, JobInv, RelInv
<1>3. /\ djob.dev \in Devices /\ djob.targets \subseteq Devices
      /\ djob.kind \in {"access", "update", "both", "other", "reset", "invalid", "enable",
                        "disable", "destroy"}
      /\ djob.kind \in {"enable", "disable"} => djob.dev \notin djob.targets
  BY <1>1, <1>2 DEF Packets, Packet, Refused
<1>4. ASSUME NEW d \in Devices, Receives(djob, d)
      PROVE  new \in Items \cup Marks
  <2>1. what \in {"access", "update", "both"}
    BY Zenon, <1>4 DEF Receives
  <2>2. relations_[djob.dev] \subseteq Devices /\ \A p \in Devices : issued[p] \in SUBSET Ids
    BY Zenon, <1>3 DEF IndInv, Types
  <2>3. view \in Views
    <3>1. CASE Accesses(djob)
      <4>1. view \in [relations_[djob.dev] -> SUBSET Ids]
        BY Zenon, <3>1, <2>2
      <4> QED BY Zenon, <4>1, <2>2 DEF Views
    <3>2. CASE ~Accesses(djob)
      <4>1. NoView \in [{} -> SUBSET Ids]
        BY Zenon DEF NoView
      <4> QED BY Zenon, <3>2, <4>1 DEF Views
    <3> QED BY Zenon, <3>1, <3>2
  <2> QED BY Zenon, <2>1, <2>3, <1>2 DEF Item, Items
<1> HIDE DEF what, view, new
<1>5. ASSUME NEW d \in Devices
      PROVE  /\ fifo[d] \in Seq(Items \cup Marks) /\ DOMAIN fifo[d] = 1..Len(fifo[d])
             /\ Len(fifo[d]) \in Nat
             /\ Receives(djob, d) =>
                  /\ fifo'[d] \in Seq(Items \cup Marks)
                  /\ DOMAIN fifo'[d] = 1..(Len(fifo[d]) + 1)
                  /\ \A i \in DOMAIN fifo[d] : i \in DOMAIN fifo'[d] /\ fifo'[d][i] = fifo[d][i]
                  /\ fifo'[d][Len(fifo[d]) + 1] = new
             /\ ~Receives(djob, d) => fifo'[d] = fifo[d]
  <2>1. fifo[d] \in Seq(Items \cup Marks)
    BY Zenon DEF IndInv, Types
  <2>2. CASE Receives(djob, d)
    <3>1. fifo'[d] = Append(fifo[d], new)
      BY Zenon, <1>1, <2>2
    <3>2. new \in Items \cup Marks
      BY Zenon, <1>4, <2>2
    <3> QED BY SMTT(30), <2>1, <2>2, <3>1, <3>2, AppendEntries
  <2>3. CASE ~Receives(djob, d)
    BY <1>1, <2>1, <2>3
  <2> QED BY Zenon, <2>2, <2>3
<1>6. Types'
  <2>1. fifo' \in [Devices -> Seq(Items \cup Marks)]
    <3>1. \A d \in Devices : fifo'[d] \in Seq(Items \cup Marks)
      BY Zenon, <1>5
    <3> QED BY Zenon, <3>1, <1>1
  <2>2. issued' \in [Devices -> SUBSET Ids]
    BY Zenon, <1>1, <1>2 DEF IndInv, Types
  <2>3. granted' \in [Devices -> SUBSET Devices]
    BY <1>1, <1>2, <1>3 DEF IndInv, Types, ApplyPeer
  <2> QED BY Zenon, <2>1, <2>2, <2>3, <1>1 DEF IndInv, Types
<1>7. JobInv' /\ RelInv'
  BY Zenon, <1>1, <1>2 DEF IndInv, JobInv, RelInv, Refused, ApplyPeer
<1>8. ASSUME NEW d \in Devices, NEW i \in DOMAIN fifo'[d]
      PROVE  \/ i \in DOMAIN fifo[d] /\ fifo'[d][i] = fifo[d][i]
             \/ Receives(djob, d) /\ fifo'[d][i] = new
  BY <1>5
<1>9. ASSUME NEW d \in Devices, NEW i \in DOMAIN fifo[d], NEW n, Followed(d, i, n)
      PROVE  Followed(d, i, n)'
  BY Zenon, <1>5, <1>9 DEF Followed
<1>10. /\ IsAccess(new) <=> Accesses(djob)
       /\ \A d \in Devices : Receives(djob, d) => (IsUpdate(new) <=> djob.kind # "access")
       /\ new.id = did /\ new.view = view
  BY Zenon DEF new, what, Item, IsAccess, IsUpdate, Accesses, Receives
<1>11. AccessMarked'
  <2> SUFFICES ASSUME NEW d \in Devices, NEW i \in DOMAIN fifo'[d], IsAccess(fifo'[d][i])
               PROVE  (\/ Followed(d, i, lastAccess[d])
                       \/ dpc = "complete" /\ Accesses(djob) /\ d = djob.dev)'
    BY Zenon DEF AccessMarked, IsAccess
  <2>1. CASE i \in DOMAIN fifo[d] /\ fifo'[d][i] = fifo[d][i]
    <3>1. Followed(d, i, lastAccess[d])
      BY Zenon, <2>1, <1>1 DEF IndInv, AccessMarked
    <3> QED BY Zenon, <3>1, <2>1, <1>9, <1>1
  <2>2. CASE Receives(djob, d) /\ fifo'[d][i] = new
    BY Zenon, <2>2, <1>10, <1>1 DEF Receives, Accesses
  <2> QED BY Zenon, <2>1, <2>2, <1>8
<1>12. UpdateMarked'
  <2> SUFFICES ASSUME NEW d \in Devices, NEW i \in DOMAIN fifo'[d], IsUpdate(fifo'[d][i])
               PROVE  (\/ Followed(d, i, lastUpdate[d])
                       \/ dpc = "complete" /\ MarkedUpdate(djob, d))'
    BY Zenon DEF UpdateMarked, IsUpdate
  <2>1. CASE i \in DOMAIN fifo[d] /\ fifo'[d][i] = fifo[d][i]
    <3>1. Followed(d, i, lastUpdate[d])
      BY Zenon, <2>1, <1>1 DEF IndInv, UpdateMarked
    <3> QED BY Zenon, <3>1, <2>1, <1>9, <1>1
  <2>2. CASE Receives(djob, d) /\ fifo'[d][i] = new
    BY Zenon, <2>2, <1>10, <1>1 DEF Receives, MarkedUpdate, Updates
  <2> QED BY Zenon, <2>1, <2>2, <1>8
<1>13. WorkMarked'
  <2> SUFFICES ASSUME NEW d \in Devices, NEW i \in DOMAIN fifo'[d]
               PROVE  (\/ Followed(d, i, lastWork[d])
                       \/ dpc = "complete" /\ MarkedWork(djob, d))'
    BY Zenon DEF WorkMarked
  <2>1. CASE i \in DOMAIN fifo[d] /\ fifo'[d][i] = fifo[d][i]
    <3>1. Followed(d, i, lastWork[d])
      BY Zenon, <2>1, <1>1 DEF IndInv, WorkMarked
    <3> QED BY Zenon, <3>1, <2>1, <1>9, <1>1
  <2>2. CASE Receives(djob, d) /\ fifo'[d][i] = new
    BY Zenon, <2>2, <1>1 DEF Receives, MarkedWork
  <2> QED BY Zenon, <2>1, <2>2, <1>8
<1>14. \A d \in Devices :
          /\ HasAccess(d)' => HasAccess(d) \/ (Accesses(djob) /\ d = djob.dev)
          /\ HasUpdate(d)' => HasUpdate(d) \/ (Receives(djob, d) /\ djob.kind # "access")
  BY SMTT(30), <1>8, <1>10 DEF HasAccess, HasUpdate, Receives, Accesses
<1>15. \A d \in Devices : /\ Ready(d, lastAccess[d]) => ~HasAccess(d)
                          /\ Ready(d, lastUpdate[d]) => ~HasUpdate(d)
  BY Zenon, <1>1, ReadyMeansDone
(* Grants are not touched under accesses in flight. *)
<1>16. \A d \in Devices : HasAccess(d) => granted'[d] = granted[d]
  <2> SUFFICES ASSUME NEW d \in Devices, HasAccess(d) PROVE granted'[d] = granted[d]
    BY Zenon
  <2>0. relations_ \in [Devices -> SUBSET Devices] /\ ~Ready(d, lastAccess[d])
    BY Zenon, <1>15 DEF IndInv, Types
  <2>1. CASE djob.kind = "enable" \/ djob.kind = "disable"
    <3>1. PeerChange(djob) => d # djob.dev
      BY Zenon, <1>1, <2>0 DEF MayDispatch
    <3>2. d = djob.dev => ApplyPeer(relations_, djob)[d] = relations_[d]
      BY Zenon, <3>1, <2>0, <2>1, <1>3 DEF PeerChange, ApplyPeer
    <3>3. d # djob.dev => ApplyPeer(relations_, djob)[d] = relations_[d]
      BY Zenon, <2>0, <2>1, <1>3 DEF ApplyPeer
    <3> QED BY Zenon, <3>2, <3>3, <1>1, <1>2
  <2>2. CASE djob.kind = "reset"
    <3>1. /\ d = djob.dev => relations_[d] = {}
          /\ djob.dev \notin relations_[d]
      BY Zenon, <1>1, <1>3, <2>0, <2>2 DEF MayDispatch, ReadersDone, IndInv, RelInv
    <3>2. ApplyPeer(relations_, djob)[d] = relations_[d]
      BY Zenon, <3>1, <2>0, <2>2 DEF ApplyPeer
    <3> QED BY Zenon, <3>2, <1>1, <1>2
  <2>3. CASE djob.kind \notin {"enable", "disable", "reset"}
    BY Zenon, <2>3, <1>1 DEF ApplyPeer
  <2> QED BY Zenon, <2>1, <2>2, <2>3
<1>17. Accesses(djob) => /\ granted' = granted
                          /\ \A p \in granted[djob.dev] : ~HasUpdate(p) /\ p # djob.dev
  <2> SUFFICES ASSUME Accesses(djob)
               PROVE  /\ granted' = granted
                      /\ \A p \in granted[djob.dev] : ~HasUpdate(p) /\ p # djob.dev
    BY Zenon
  <2>1. granted' = granted
    BY Zenon, <1>1 DEF Accesses, ApplyPeer
  <2>2. \A p \in relations_[djob.dev] : p \in Devices /\ p # djob.dev /\ Ready(p, lastUpdate[p])
    BY Zenon, <1>1, <1>3 DEF MayDispatch, IndInv, RelInv, Types
  <2> QED BY Zenon, <2>1, <2>2, <1>2, <1>15
(* An update only goes to devices nobody with accesses in flight may see. *)
<1>18. \A d, p \in Devices : (Receives(djob, p) /\ djob.kind # "access" /\ p \in granted[d]) => ~HasAccess(d)
  <2> SUFFICES ASSUME NEW d \in Devices, NEW p \in Devices, Receives(djob, p),
                      djob.kind # "access", p \in granted[d]
               PROVE  ~HasAccess(d)
    BY Zenon
  <2>1. ReadersDone(p)
    BY Zenon, <1>1 DEF MayDispatch, Receives, Updates
  <2> QED BY Zenon, <2>1, <1>2, <1>15 DEF ReadersDone
<1>19. ConflictFree'
  <2> SUFFICES ASSUME NEW d \in Devices, HasAccess(d)', NEW p \in granted'[d]
               PROVE  ~HasUpdate(p)'
    BY Zenon DEF ConflictFree
  <2>1. granted'[d] = granted[d] /\ p \in granted[d] /\ p \in Devices
    <3>1. granted'[d] = granted[d]
      BY Zenon, <1>14, <1>16, <1>17
    <3> QED BY Zenon, <3>1 DEF IndInv, Types
  <2>2. CASE HasAccess(d)
    <3>1. ~HasUpdate(p)
      BY Zenon, <2>1, <2>2 DEF IndInv, ConflictFree
    <3>2. ~(Receives(djob, p) /\ djob.kind # "access")
      BY Zenon, <2>1, <2>2, <1>18
    <3> QED BY Zenon, <3>1, <3>2, <2>1, <1>14
  <2>3. CASE Accesses(djob) /\ d = djob.dev
    <3>1. ~HasUpdate(p) /\ p # djob.dev
      BY Zenon, <2>1, <2>3, <1>17
    <3>2. ~Receives(djob, p)
      BY Zenon, <3>1, <2>3 DEF Receives, Accesses
    <3> QED BY Zenon, <3>1, <3>2, <2>1, <1>14
  <2> QED BY Zenon, <2>2, <2>3, <1>14
<1>20. IssuedInv'
  <2> SUFFICES ASSUME NEW p \in Devices, NEW n \in Ids
               PROVE  (n \in issued[p] <=>
                        \/ n \in applied[p]
                        \/ \E i \in DOMAIN fifo[p] : IsUpdate(fifo[p][i]) /\ fifo[p][i].id = n)'
    BY Zenon DEF IssuedInv
  <2>1. n \in issued[p] <=>
           \/ n \in applied[p]
           \/ \E i \in DOMAIN fifo[p] : IsUpdate(fifo[p][i]) /\ fifo[p][i].id = n
    BY Zenon DEF IndInv, IssuedInv
  <2>2. CASE ~Receives(djob, p)
    <3>1. fifo'[p] = fifo[p] /\ issued'[p] = issued[p] /\ applied' = applied
      BY Zenon, <2>2, <1>1, <1>5
    <3> QED BY Zenon, <3>1, <2>1
  <2>3. CASE Receives(djob, p)
    <3>1. issued'[p] = (IF djob.kind # "access" THEN issued[p] \cup {did} ELSE issued[p]) /\ applied' = applied
      BY Zenon, <2>3, <1>1
    <3>2. (\E i \in DOMAIN fifo'[p] : IsUpdate(fifo'[p][i]) /\ fifo'[p][i].id = n) <=>
             \/ \E i \in DOMAIN fifo[p] : IsUpdate(fifo[p][i]) /\ fifo[p][i].id = n
             \/ IsUpdate(new) /\ new.id = n
      <4>1. Len(fifo[p]) + 1 \in DOMAIN fifo'[p] /\ fifo'[p][Len(fifo[p]) + 1] = new
        BY <2>3, <1>5
      <4>2. \A i \in DOMAIN fifo[p] : i \in DOMAIN fifo'[p] /\ fifo'[p][i] = fifo[p][i]
        BY Zenon, <2>3, <1>5
      <4> QED BY Zenon, <4>1, <4>2, <1>8
    <3>3. (IsUpdate(new) <=> djob.kind # "access") /\ new.id = did
      BY Zenon, <2>3, <1>10
    <3> QED BY Zenon, <3>1, <3>2, <3>3, <2>1
  <2> QED BY Zenon, <2>2, <2>3
<1>21. ViewsHold'
  <2> SUFFICES ASSUME NEW d \in Devices, NEW i \in DOMAIN fifo'[d], IsAccess(fifo'[d][i])
               PROVE  fifo'[d][i].view = View(d)'
    BY Zenon DEF ViewsHold, IsAccess
  <2>1. CASE i \in DOMAIN fifo[d] /\ fifo'[d][i] = fifo[d][i]
    <3>1. HasAccess(d) /\ fifo[d][i].view = View(d)
      BY Zenon, <2>1 DEF HasAccess, IndInv, ViewsHold
    <3>2. View(d)' = View(d)
      BY Zenon, <3>1, <1>16, <1>1 DEF View
    <3> QED BY Zenon, <3>1, <3>2, <2>1
  <2>2. CASE Receives(djob, d) /\ fifo'[d][i] = new
    <3>1. Accesses(djob) /\ d = djob.dev
      BY Zenon, <2>2, <1>10 DEF Accesses, Receives
    <3>2. view = [p \in granted[d] |-> issued[p]]
      BY Zenon, <3>1, <1>2 DEF view
    <3>3. \A p \in granted[d] : issued[p] = applied[p]
      <4> SUFFICES ASSUME NEW p \in granted[d] PROVE issued[p] = applied[p]
        BY Zenon
      <4>1. p \in Devices /\ issued[p] \subseteq Ids /\ applied[p] \subseteq Ids
        BY Zenon DEF IndInv, Types
      <4>2. ~HasUpdate(p)
        BY Zenon, <3>1, <1>17
      <4>3. \A n \in Ids : n \in issued[p] <=> n \in applied[p]
        BY Zenon, <4>1, <4>2 DEF IndInv, IssuedInv, HasUpdate
      <4> QED BY Zenon, <4>1, <4>3
    <3>4. View(d)' = [p \in granted[d] |-> applied[p]]
      BY Zenon, <3>1, <1>1, <1>17 DEF View
    <3> QED BY Zenon, <2>2, <3>2, <3>3, <3>4, <1>10
  <2> QED BY Zenon, <2>1, <2>2, <1>8
<1> QED BY Zenon, <1>6, <1>7, <1>11, <1>12, <1>13, <1>19, <1>20, <1>21 DEF IndInv

(* The code behind dispatch_: marks are appended, wait points moved. *)
LEMMA CompleteStep ==
  ASSUME IndInv, Complete
  PROVE  IndInv'
<1>1. /\ dpc = "complete" /\ dpc' = "loop"
      /\ relations_' = ApplyPeer(relations_, djob)
      /\ fifo' = [d \in Devices |-> IF MarkedWork(djob, d) THEN Append(fifo[d], Mark(did)) ELSE fifo[d]]
      /\ lastWork' = [d \in Devices |-> IF MarkedWork(djob, d) THEN did ELSE lastWork[d]]
      /\ lastAccess' = [d \in Devices |-> IF Accesses(djob) /\ d = djob.dev THEN did ELSE lastAccess[d]]
      /\ lastUpdate' = [d \in Devices |-> IF MarkedUpdate(djob, d) THEN did ELSE lastUpdate[d]]
      /\ UNCHANGED <<granted, applied, misjudged, issued>>
  BY Zenon DEF Complete, tables
<1>2. djob \in Packets /\ did \in Ids /\ granted = ApplyPeer(relations_, djob)
  BY Zenon, <1>1 DEF IndInv, JobInv, RelInv
<1>3. /\ djob.dev \in Devices /\ djob.targets \subseteq Devices
      /\ djob.kind \in {"enable", "disable"} => djob.dev \notin djob.targets
  BY <1>1, <1>2 DEF IndInv, JobInv, Packets, Packet, Refused
<1>4. did \in 0..MaxId /\ Mark(did) \in Items \cup Marks
  BY SMTT(30), <1>2, SchedulerAssumption DEF Ids, Marks
<1>5. ASSUME NEW d \in Devices
      PROVE  /\ fifo[d] \in Seq(Items \cup Marks) /\ DOMAIN fifo[d] = 1..Len(fifo[d])
             /\ Len(fifo[d]) \in Nat
             /\ MarkedWork(djob, d) =>
                  /\ fifo'[d] \in Seq(Items \cup Marks)
                  /\ DOMAIN fifo'[d] = 1..(Len(fifo[d]) + 1)
                  /\ \A i \in DOMAIN fifo[d] : i \in DOMAIN fifo'[d] /\ fifo'[d][i] = fifo[d][i]
                  /\ fifo'[d][Len(fifo[d]) + 1] = Mark(did)
             /\ ~MarkedWork(djob, d) => fifo'[d] = fifo[d]
  <2>1. fifo[d] \in Seq(Items \cup Marks)
    BY Zenon DEF IndInv, Types
  <2>2. CASE MarkedWork(djob, d)
    <3>1. fifo'[d] = Append(fifo[d], Mark(did))
      BY Zenon, <1>1, <2>2
    <3> QED BY SMTT(30), <2>1, <2>2, <3>1, <1>4, AppendEntries
  <2>3. CASE ~MarkedWork(djob, d)
    BY <1>1, <2>1, <2>3
  <2> QED BY Zenon, <2>2, <2>3
<1>6. Types'
  <2>1. fifo' \in [Devices -> Seq(Items \cup Marks)]
    <3>1. \A d \in Devices : fifo'[d] \in Seq(Items \cup Marks)
      BY Zenon, <1>5
    <3> QED BY Zenon, <3>1, <1>1
  <2>2. relations_' \in [Devices -> SUBSET Devices]
    BY Zenon, <1>1, <1>2 DEF IndInv, Types
  <2>3. /\ lastAccess' \in [Devices -> 0..MaxId] /\ lastUpdate' \in [Devices -> 0..MaxId]
        /\ lastWork' \in [Devices -> 0..MaxId]
    BY Zenon, <1>1, <1>4 DEF IndInv, Types
  <2> QED BY Zenon, <2>1, <2>2, <2>3, <1>1 DEF IndInv, Types
<1>7. JobInv' /\ RelInv'
  <2>1. \A d \in Devices : d \notin ApplyPeer(relations_, djob)[d]
    BY ZenonT(60), <1>3 DEF IndInv, RelInv, Types, ApplyPeer
  <2> QED BY Zenon, <2>1, <1>1, <1>2 DEF JobInv, RelInv
<1>8. ASSUME NEW d \in Devices, NEW i \in DOMAIN fifo'[d]
      PROVE  \/ i \in DOMAIN fifo[d] /\ fifo'[d][i] = fifo[d][i]
             \/ MarkedWork(djob, d) /\ fifo'[d][i] = Mark(did)
  BY <1>5
<1>9. ASSUME NEW d \in Devices, NEW i \in DOMAIN fifo[d], NEW n, Followed(d, i, n)
      PROVE  Followed(d, i, n)'
  BY Zenon, <1>5, <1>9 DEF Followed
<1>10. ASSUME NEW d \in Devices, MarkedWork(djob, d), NEW i \in DOMAIN fifo'[d]
       PROVE  \E j \in DOMAIN fifo'[d] : j >= i /\ fifo'[d][j] = Mark(did)
  <2>1. /\ i \in 1..(Len(fifo[d]) + 1) /\ Len(fifo[d]) \in Nat
        /\ Len(fifo[d]) + 1 \in DOMAIN fifo'[d] /\ fifo'[d][Len(fifo[d]) + 1] = Mark(did)
    BY <1>5, <1>10
  <2>2. Len(fifo[d]) + 1 >= i
    BY <2>1
  <2> QED BY Zenon, <2>1, <2>2
<1>11. ~IsAccess(Mark(did)) /\ ~IsUpdate(Mark(did))
  BY <1>4, EntryKinds
<1>12. AccessMarked'
  <2> SUFFICES ASSUME NEW d \in Devices, NEW i \in DOMAIN fifo'[d], IsAccess(fifo'[d][i])
               PROVE  \E j \in DOMAIN fifo'[d] : j >= i /\ fifo'[d][j] = Mark(lastAccess'[d])
    BY ZenonT(60) DEF AccessMarked, Followed, IsAccess, Mark, Item, NoView
  <2>1. i \in DOMAIN fifo[d] /\ fifo'[d][i] = fifo[d][i] /\ IsAccess(fifo[d][i])
    BY Zenon, <1>8, <1>11
  <2>2. CASE Accesses(djob) /\ d = djob.dev
    <3>1. lastAccess'[d] = did /\ MarkedWork(djob, d)
      BY Zenon, <2>2, <1>1 DEF MarkedWork
    <3> QED BY Zenon, <3>1, <1>10
  <2>3. CASE ~(Accesses(djob) /\ d = djob.dev)
    <3>1. lastAccess'[d] = lastAccess[d] /\ Followed(d, i, lastAccess[d])
      BY Zenon, <2>1, <2>3, <1>1 DEF IndInv, AccessMarked
    <3>2. Followed(d, i, lastAccess[d]) => \E j \in DOMAIN fifo'[d] : j >= i /\ fifo'[d][j] = Mark(lastAccess[d])
      BY Zenon, <2>1, <1>5 DEF Followed
    <3> QED BY Zenon, <3>1, <3>2
  <2> QED BY Zenon, <2>2, <2>3
<1>13. UpdateMarked'
  <2> SUFFICES ASSUME NEW d \in Devices, NEW i \in DOMAIN fifo'[d], IsUpdate(fifo'[d][i])
               PROVE  \E j \in DOMAIN fifo'[d] : j >= i /\ fifo'[d][j] = Mark(lastUpdate'[d])
    BY ZenonT(60) DEF UpdateMarked, Followed, IsUpdate, Mark, Item, NoView
  <2>1. i \in DOMAIN fifo[d] /\ fifo'[d][i] = fifo[d][i] /\ IsUpdate(fifo[d][i])
    BY Zenon, <1>8, <1>11
  <2>2. CASE MarkedUpdate(djob, d)
    <3>1. lastUpdate'[d] = did /\ MarkedWork(djob, d)
      BY Zenon, <2>2, <1>1 DEF MarkedWork, MarkedUpdate
    <3> QED BY Zenon, <3>1, <1>10
  <2>3. CASE ~MarkedUpdate(djob, d)
    <3>1. lastUpdate'[d] = lastUpdate[d] /\ Followed(d, i, lastUpdate[d])
      BY Zenon, <2>1, <2>3, <1>1 DEF IndInv, UpdateMarked
    <3>2. Followed(d, i, lastUpdate[d]) => \E j \in DOMAIN fifo'[d] : j >= i /\ fifo'[d][j] = Mark(lastUpdate[d])
      BY Zenon, <2>1, <1>5 DEF Followed
    <3> QED BY Zenon, <3>1, <3>2
  <2> QED BY Zenon, <2>2, <2>3
<1>14. WorkMarked'
  <2> SUFFICES ASSUME NEW d \in Devices, NEW i \in DOMAIN fifo'[d]
               PROVE  \E j \in DOMAIN fifo'[d] : j >= i /\ fifo'[d][j] = Mark(lastWork'[d])
    BY Zenon DEF WorkMarked, Followed, Mark, Item, NoView
  <2>1. CASE MarkedWork(djob, d)
    <3>1. lastWork'[d] = did
      BY Zenon, <2>1, <1>1
    <3> QED BY Zenon, <3>1, <2>1, <1>10
  <2>2. CASE ~MarkedWork(djob, d)
    <3>1. lastWork'[d] = lastWork[d] /\ fifo'[d] = fifo[d]
      BY Zenon, <2>2, <1>1
    <3>2. Followed(d, i, lastWork[d])
      <4>1. WorkMarked
        BY Zenon DEF IndInv
      <4> QED BY Zenon, <3>1, <2>2, <4>1 DEF WorkMarked
    <3> QED BY Zenon, <3>1, <3>2 DEF Followed
  <2> QED BY Zenon, <2>1, <2>2
<1>15. \A d \in Devices : (HasAccess(d)' => HasAccess(d)) /\ (HasUpdate(d)' => HasUpdate(d))
  BY Zenon, <1>8, <1>11 DEF HasAccess, HasUpdate
<1>16. ConflictFree'
  <2>1. granted \in [Devices -> SUBSET Devices] /\ ConflictFree
    BY Zenon DEF IndInv, Types
  <2>2. granted' = granted
    BY Zenon, <1>1
  <2> QED BY Zenon, <2>1, <2>2, <1>15 DEF ConflictFree
<1>17. IssuedInv'
  <2>a. IssuedInv /\ UNCHANGED <<applied, issued>>
    BY Zenon, <1>1 DEF IndInv
  <2> SUFFICES ASSUME NEW p \in Devices, NEW n \in Ids
               PROVE  (\E i \in DOMAIN fifo'[p] : IsUpdate(fifo'[p][i]) /\ fifo'[p][i].id = n) <=>
                      (\E i \in DOMAIN fifo[p] : IsUpdate(fifo[p][i]) /\ fifo[p][i].id = n)
    BY <2>a DEF IssuedInv, IsUpdate
  <2>1. \A i \in DOMAIN fifo[p] : i \in DOMAIN fifo'[p] /\ fifo'[p][i] = fifo[p][i]
    BY Zenon, <1>5
  <2> QED BY Zenon, <2>1, <1>8, <1>11
<1>18. ViewsHold'
  <2> SUFFICES ASSUME NEW d \in Devices, NEW i \in DOMAIN fifo'[d], IsAccess(fifo'[d][i])
               PROVE  fifo'[d][i].view = View(d)'
    BY Zenon DEF ViewsHold, IsAccess
  <2>1. i \in DOMAIN fifo[d] /\ fifo'[d][i] = fifo[d][i]
    BY Zenon, <1>8, <1>11
  <2>2. fifo[d][i].view = View(d)
    BY Zenon, <2>1 DEF IndInv, ViewsHold
  <2>3. View(d)' = View(d)
    BY Zenon, <1>1 DEF View
  <2> QED BY Zenon, <2>1, <2>2, <2>3
<1> QED BY Zenon, <1>6, <1>7, <1>12, <1>13, <1>14, <1>16, <1>17, <1>18 DEF IndInv

----------------------------------------------------------------------------
(* The initial state of a ProcessQueue. *)
LEMMA InitStep == Init => IndInv /\ DataTypes /\ ControlInv /\ EndInv
<1> SUFFICES ASSUME Init PROVE IndInv /\ DataTypes /\ ControlInv /\ EndInv
  BY Zenon
<1>1. \A d \in Devices : fifo[d] = <<>> /\ DOMAIN fifo[d] = {}
  <2>1. Len(<<>>) = 0 /\ DOMAIN <<>> = 1..Len(<<>>)
    OBVIOUS
  <2>2. 1..0 = {}
    OBVIOUS
  <2> QED BY Zenon, <2>1, <2>2 DEF Init
<1>2. Types /\ JobInv /\ RelInv
  <2>1. 0 \in 0..MaxId
    BY SchedulerAssumption
  <2>2. fifo \in [Devices -> Seq(Items \cup Marks)]
    BY SMTT(30) DEF Init
  <2> QED BY Zenon, <2>1, <2>2 DEF Init, Types, JobInv, RelInv
<1>3. AccessMarked /\ UpdateMarked /\ WorkMarked
  BY Zenon, <1>1 DEF AccessMarked, UpdateMarked, WorkMarked
<1>4. ConflictFree /\ ViewsHold
  BY Zenon, <1>1 DEF ConflictFree, HasAccess, ViewsHold
<1>5. IssuedInv
  <2>1. \A p \in Devices : issued[p] = {} /\ applied[p] = {}
    BY Zenon DEF Init
  <2> QED BY Zenon, <1>1, <2>1 DEF IssuedInv
<1>6. ControlInv /\ EndInv
  <2>1. nextOrderId_ - 1 = 0 /\ nextOrderId_ \in 1..MaxId + 1 /\ did \in 0..MaxId
    BY SchedulerAssumption DEF Init
  <2>2. 1..(nextOrderId_ - 1) = {}
    BY <2>1
  <2> QED BY ZenonT(60), <2>1, <2>2 DEF Init, ControlInv, EndInv
<1>7. DataTypes
  BY Zenon, <1>2 DEF Types, DataTypes
<1> QED BY Zenon, <1>2, <1>3, <1>4, <1>5, <1>6, <1>7 DEF IndInv

(* The numbers taken are the accepted ones below nextOrderId_, in order. *)
LEMMA ControlStep ==
  ASSUME ControlInv, [Next]_vars
  PROVE  ControlInv'
<1> USE SchedulerAssumption DEF ControlInv
<1>1. CASE \E n \in 0..MaxId : Submit(n)
  <2>1. PICK n \in 0..MaxId : Submit(n)
    BY Zenon, <1>1
  <2>2. UNCHANGED <<nextOrderId_, closing_, djob, did>> /\ dpc' \in {dpc, "loop"}
    BY Zenon, <2>1 DEF Submit, NotifySubmitted, NotifyDispatcher
  <2>3. CASE n = 0 \/ n < nextOrderId_ \/ n \in pendingJobMap_
    BY Zenon, <2>1, <2>2, <2>3 DEF Submit
  <2>4. CASE ~(n = 0 \/ n < nextOrderId_ \/ n \in pendingJobMap_)
    <3>1. /\ pendingJobMap_' = pendingJobMap_ \cup {n} /\ accepted' = accepted \cup {n}
          /\ failures' = failures /\ n \in Ids /\ n \notin 1..(nextOrderId_ - 1)
      BY <2>1, <2>4 DEF Submit, Ids
    <3> QED BY Zenon, <2>2, <3>1
  <2> QED BY Zenon, <2>3, <2>4
<1>2. CASE Finish
  BY Zenon, <1>2 DEF Finish, NotifyDispatcher
<1>3. CASE TakeJob
  <2>1. PICK n \in Expected, job \in Packets :
           /\ dpc' = "execute" /\ djob' = job /\ did' = n
           /\ pendingJobMap_' = pendingJobMap_ \ {n} /\ nextOrderId_' = nextOrderId_ + 1
           /\ UNCHANGED <<closing_, accepted, failures>>
    BY Zenon, <1>3 DEF TakeJob
  <2>2. n = nextOrderId_ /\ n \in Ids /\ n \in accepted
    BY Zenon DEF Expected
  <2>3. nextOrderId_' - 1 = nextOrderId_ /\ nextOrderId_' \in 1..MaxId + 1
    BY <2>1, <2>2 DEF Ids
  <2>4. \A k : k \in 1..(nextOrderId_' - 1) <=> k \in 1..(nextOrderId_ - 1) \/ k = n
    <3>1. n \in Nat /\ n >= 1
      BY <2>2 DEF Ids
    <3>2. nextOrderId_' - 1 = n /\ nextOrderId_ - 1 = n - 1
      BY ZenonT(60), <2>2, <2>3
    <3>3. \A k : k \in 1..n <=> k \in 1..(n - 1) \/ k = n
      <4> HIDE DEF ControlInv
      <4> QED BY <3>1
    <3> QED BY Zenon, <3>2, <3>3
  <2>5. /\ pendingJobMap_' = accepted' \ 1..(nextOrderId_' - 1)
        /\ 1..(nextOrderId_' - 1) \subseteq accepted'
    BY Zenon, <2>1, <2>2, <2>4
  <2>6. did' \in 0..MaxId /\ djob' \in Packets
    BY <2>1, <2>2 DEF Ids
  <2> QED BY <2>1, <2>3, <2>5, <2>6
<1>4. CASE Refuse
  BY <1>4 DEF Refuse, input
<1>5. CASE Dispatch \/ DispatchThrows
  <2>1. CASE Dispatch
    BY Zenon, <2>1 DEF Dispatch, input
  <2>2. CASE DispatchThrows
    <3>1. /\ UNCHANGED <<accepted, pendingJobMap_, nextOrderId_, closing_>>
          /\ dpc' = "loop" /\ djob' = NoJob /\ did' = 0 /\ failures' = failures \cup {"thrown"}
      BY Zenon, <2>2 DEF DispatchThrows, input
    <3> QED BY <3>1
  <2> QED BY Zenon, <1>5, <2>1, <2>2
<1>6. CASE Complete
  BY SMTT(30), <1>6 DEF Complete, input
<1>7. CASE Sleep \/ LeaveLoop \/ End
  BY Zenon, <1>7 DEF Sleep, LeaveLoop, End, AfterDrain, input
<1>8. CASE (\E d \in Devices : Consume(d)) \/ Ended \/ UNCHANGED vars
  BY ZenonT(60), <1>8 DEF Consume, Ended, vars, input, dispatch
<1> QED BY Zenon, <1>1, <1>2, <1>3, <1>4, <1>5, <1>6, <1>7, <1>8 DEF Next, DispatchStep

(* Every step is quiet or one of the three that move data. *)
LEMMA NextCases ==
  ASSUME IndInv, ControlInv, [Next]_vars
  PROVE  \/ DataSame /\ dpc # "complete" /\ dpc' # "complete" /\ JobInv'
         \/ Dispatch \/ DispatchThrows \/ Complete \/ (\E d \in Devices : Consume(d))
         \/ DataSame /\ UNCHANGED <<dpc, djob, did>>
<1> USE DEF DataSame, points, tables, input
<1>1. CASE \E n \in 0..MaxId : Submit(n)
  BY Zenon, <1>1 DEF Submit, NotifySubmitted, NotifyDispatcher, IndInv, JobInv
<1>2. CASE Finish
  BY Zenon, <1>2 DEF Finish, NotifyDispatcher, IndInv, JobInv
<1>3. CASE Sleep \/ LeaveLoop \/ End
  BY Zenon, <1>3 DEF Sleep, LeaveLoop, End, AfterDrain, JobInv
<1>4. CASE TakeJob
  <2>1. dpc' = "execute" /\ djob' \in Packets /\ did' \in Expected /\ dpc = "loop" /\ DataSame
    BY Zenon, <1>4 DEF TakeJob
  <2>2. did' \in Ids
    BY Zenon, <2>1 DEF Expected, ControlInv
  <2> QED BY Zenon, <2>1, <2>2 DEF JobInv
<1>5. CASE Refuse
  BY Zenon, <1>5 DEF Refuse, JobInv
<1>6. CASE Ended \/ UNCHANGED vars
  BY Zenon, <1>6 DEF Ended, vars, dispatch
<1> QED BY Zenon, <1>1, <1>2, <1>3, <1>4, <1>5, <1>6 DEF Next, DispatchStep

(* A step that changes none of the variables of IndInv. *)
LEMMA SameStep ==
  ASSUME IndInv, DataSame, UNCHANGED <<dpc, djob, did>>
  PROVE  IndInv'
<1> USE DEF IndInv, DataSame, points, tables
<1>1. Types' /\ RelInv' /\ JobInv'
  BY Zenon DEF Types, RelInv, JobInv
<1>2. AccessMarked' /\ UpdateMarked' /\ WorkMarked'
  BY ZenonT(60) DEF AccessMarked, UpdateMarked, WorkMarked, Followed
<1>3. ConflictFree'
  BY Zenon DEF ConflictFree, HasAccess, HasUpdate
<1>4. IssuedInv'
  BY Zenon DEF IssuedInv
<1>5. ViewsHold'
  BY Zenon DEF ViewsHold, View
<1> QED BY Zenon, <1>1, <1>2, <1>3, <1>4, <1>5

(* Once closing_ is set it stays; the last wait leaves the queues empty    *)
(* and nothing is queued afterwards.                                       *)
LEMMA EndStep ==
  ASSUME NoneThrown => IndInv, ControlInv, EndInv, [Next]_vars
  PROVE  EndInv'
<1> USE DEF EndInv
<1>1. CASE \E n \in 0..MaxId : Submit(n)
  BY Zenon, <1>1 DEF Submit, NotifySubmitted, NotifyDispatcher, NoneThrown
<1>2. CASE Finish
  BY Zenon, <1>2 DEF Finish, NotifyDispatcher, NoneThrown
<1>3. CASE Sleep \/ TakeJob \/ Refuse \/ Dispatch \/ DispatchThrows \/ Complete
  BY Zenon, <1>3 DEF Sleep, TakeJob, Refuse, Dispatch, DispatchThrows, Complete
<1>4. CASE LeaveLoop
  BY Zenon, <1>4 DEF LeaveLoop, input
<1>5. CASE End
  <2>1. dpc = "drain" /\ WorkDrained /\ UNCHANGED <<pendingJobMap_, closing_, fifo>>
        /\ failures' = IF pendingJobMap_ = {} THEN failures ELSE failures \cup {"missing"}
    BY Zenon, <1>5 DEF End, AfterDrain, input
  <2>2. NoneThrown => \A d \in Devices : fifo[d] = <<>>
    BY Zenon, <2>1, ReadyMeansDone DEF WorkDrained
  <2>3. NoneThrown' => NoneThrown
    BY Zenon, <2>1 DEF NoneThrown
  <2> QED BY Zenon, <2>1, <2>2, <2>3
<1>6. CASE \E d \in Devices : Consume(d)
  BY SMTT(30), <1>6 DEF Consume, dispatch, input, NoneThrown
<1>7. CASE Ended \/ UNCHANGED vars
  BY Zenon, <1>7 DEF Ended, vars, dispatch, input, NoneThrown
<1> QED BY Zenon, <1>1, <1>2, <1>3, <1>4, <1>5, <1>6, <1>7 DEF Next, DispatchStep

(* The types of queues, grants and wait points, thrown or not. *)
LEMMA DataTypesStep ==
  ASSUME DataTypes, ControlInv, [Next]_vars
  PROVE  DataTypes'
<1> USE DEF DataTypes
<1>1. ASSUME NEW ds, Deliver(ds), dpc = "execute", ds \subseteq Receivers(djob)
      PROVE  fifo' \in [Devices -> Seq(Items \cup Marks)] /\ issued' \in [Devices -> SUBSET Ids]
  <2> DEFINE what == IF djob.kind = "destroy" THEN "update" ELSE djob.kind
             view == IF Accesses(djob) THEN [p \in relations_[djob.dev] |-> issued[p]] ELSE NoView
             new  == Item(what, did, view)
  <2>1. /\ fifo' = [d \in Devices |-> IF d \in ds THEN Append(fifo[d], new) ELSE fifo[d]]
        /\ issued' = [d \in Devices |-> IF d \in ds /\ djob.kind # "access"
                                          THEN issued[d] \cup {did} ELSE issued[d]]
    BY Zenon, <1>1 DEF Deliver
  <2>2. djob \in Packets /\ did \in Ids
    BY Zenon, <1>1 DEF ControlInv
  <2>3. djob.dev \in Devices
    BY SMTT(30), <2>2 DEF Packets, Packet
  <2>4. ASSUME ds # {} PROVE new \in Items
    <3>1. what \in {"access", "update", "both"}
      BY Zenon, <1>1, <2>4 DEF Receivers, Receives
    <3>2. relations_[djob.dev] \subseteq Devices /\ \A p \in Devices : issued[p] \in SUBSET Ids
      BY Zenon, <2>3
    <3>3. view \in Views
      <4>1. CASE Accesses(djob)
        <5>1. view \in [relations_[djob.dev] -> SUBSET Ids]
          BY Zenon, <4>1, <3>2
        <5> QED BY <5>1, <3>2 DEF Views
      <4>2. CASE ~Accesses(djob)
        <5>1. NoView \in [{} -> SUBSET Ids]
          BY Zenon DEF NoView
        <5> QED BY ZenonT(60), <4>2, <5>1 DEF Views
      <4> QED BY Zenon, <4>1, <4>2
    <3> QED BY Zenon, <3>1, <3>3, <2>2 DEF Item, Items
  <2> HIDE DEF what, view, new
  <2>5. ASSUME NEW d \in Devices PROVE fifo'[d] \in Seq(Items \cup Marks)
    <3>1. fifo[d] \in Seq(Items \cup Marks)
      BY Zenon
    <3>2. CASE d \in ds
      <4>1. fifo'[d] = Append(fifo[d], new)
        BY Zenon, <2>1, <3>2
      <4>2. new \in Items \cup Marks
        BY Zenon, <2>4, <3>2
      <4> QED BY <3>1, <4>1, <4>2, AppendEntries
    <3>3. CASE d \notin ds
      BY Zenon, <2>1, <3>1, <3>3
    <3> QED BY Zenon, <3>2, <3>3
  <2>6. fifo' \in [Devices -> Seq(Items \cup Marks)]
    BY Zenon, <2>1, <2>5
  <2> QED BY Zenon, <2>1, <2>2, <2>6
<1>2. \A job \in Packets, rel \in [Devices -> SUBSET Devices] :
         ApplyPeer(rel, job) \in [Devices -> SUBSET Devices]
  <2> SUFFICES ASSUME NEW job \in Packets, NEW rel \in [Devices -> SUBSET Devices]
               PROVE  ApplyPeer(rel, job) \in [Devices -> SUBSET Devices]
    BY Zenon
  <2>1. job.dev \in Devices /\ job.targets \subseteq Devices
    BY DEF Packets, Packet
  <2> QED BY Zenon, <2>1 DEF ApplyPeer
<1>3. CASE Dispatch
  <2>1. djob \in Packets
    BY Zenon, <1>3 DEF Dispatch, ControlInv
  <2>2. granted' \in [Devices -> SUBSET Devices]
    BY ZenonT(60), <1>2, <1>3, <2>1 DEF Dispatch
  <2>3. Deliver(Receivers(djob)) /\ dpc = "execute"
        /\ UNCHANGED <<relations_, lastAccess, lastUpdate, lastWork, applied, misjudged>>
    BY Zenon, <1>3 DEF Dispatch, points, tables
  <2> QED BY Zenon, <1>1, <2>2, <2>3
<1>4. CASE DispatchThrows
  <2>1. /\ dpc = "execute" /\ \E ds \in SUBSET Receivers(djob) : Deliver(ds)
        /\ UNCHANGED <<relations_, granted, lastAccess, lastUpdate, lastWork, applied, misjudged>>
    BY Zenon, <1>4 DEF DispatchThrows, points, tables
  <2> QED BY Zenon, <1>1, <2>1
<1>5. CASE Complete
  <2>1. djob \in Packets /\ did \in Ids
    BY Zenon, <1>5 DEF Complete, ControlInv
  <2>2. relations_' \in [Devices -> SUBSET Devices]
    BY Zenon, <1>2, <1>5, <2>1 DEF Complete
  <2>3. did \in 0..MaxId
    BY <2>1, SchedulerAssumption DEF Ids
  <2>4. /\ lastWork' \in [Devices -> 0..MaxId] /\ lastAccess' \in [Devices -> 0..MaxId]
        /\ lastUpdate' \in [Devices -> 0..MaxId]
    BY Zenon, <1>5, <2>3 DEF Complete
  <2>5. ASSUME NEW d \in Devices PROVE fifo'[d] \in Seq(Items \cup Marks)
    <3>1. Mark(did) \in Items \cup Marks
      BY Zenon, <2>1 DEF Marks
    <3>2. fifo[d] \in Seq(Items \cup Marks)
      BY Zenon
    <3>3. fifo'[d] = Append(fifo[d], Mark(did)) \/ fifo'[d] = fifo[d]
      BY Zenon, <1>5 DEF Complete
    <3>4. Append(fifo[d], Mark(did)) \in Seq(Items \cup Marks)
      <4> HIDE DEF DataTypes
      <4> QED BY <3>1, <3>2
    <3> QED BY ZenonT(60), <3>2, <3>3, <3>4
  <2>6. fifo' \in [Devices -> Seq(Items \cup Marks)]
    BY Zenon, <1>5, <2>5 DEF Complete
  <2>7. UNCHANGED <<granted, applied, issued, misjudged>>
    BY Zenon, <1>5 DEF Complete, tables
  <2> QED BY Zenon, <2>2, <2>4, <2>6, <2>7
<1>6. ASSUME NEW d \in Devices, Consume(d) PROVE DataTypes'
  <2>1. fifo[d] \in Seq(Items \cup Marks) /\ fifo[d] # <<>>
    BY Zenon, <1>6 DEF Consume
  <2>2. Tail(fifo[d]) \in Seq(Items \cup Marks) /\ Head(fifo[d]) \in Items \cup Marks
    BY Zenon, <2>1, TailEntries
  <2>3. Head(fifo[d]).id \in Ids
    BY SMTT(30), <2>2 DEF Items, Marks, Mark, Item
  <2>4. /\ fifo' = [fifo EXCEPT ![d] = Tail(fifo[d])]
        /\ misjudged' \in {misjudged, misjudged \cup {Head(fifo[d]).id}}
        /\ applied' \in {applied, [applied EXCEPT ![d] = applied[d] \cup {Head(fifo[d]).id}]}
        /\ UNCHANGED <<relations_, granted, lastAccess, lastUpdate, lastWork, issued>>
    BY Zenon, <1>6 DEF Consume, points
  <2>5. fifo' \in [Devices -> Seq(Items \cup Marks)]
    <3>1. fifo' = [fifo EXCEPT ![d] = Tail(fifo[d])] /\ Tail(fifo[d]) \in Seq(Items \cup Marks)
      BY Zenon, <2>2, <2>4
    <3> QED BY Zenon, <3>1
  <2>6. misjudged' \subseteq Ids
    BY Zenon, <2>3, <2>4
  <2>7. applied' \in [Devices -> SUBSET Ids]
    <3>1. [applied EXCEPT ![d] = applied[d] \cup {Head(fifo[d]).id}] \in [Devices -> SUBSET Ids]
      BY Zenon, <2>3
    <3> QED BY Zenon, <2>4, <3>1
  <2> QED BY Zenon, <2>4, <2>5, <2>6, <2>7
<1>7. CASE DataSame
  BY Zenon, <1>7 DEF DataSame, points, tables
<1>8. Dispatch \/ DispatchThrows \/ Complete \/ (\E d \in Devices : Consume(d)) \/ DataSame
  BY Zenon DEF Next, DispatchStep, Submit, Finish, Sleep, TakeJob, Refuse, LeaveLoop, End, Ended, vars,
         DataSame
<1> QED BY ZenonT(60), <1>3, <1>4, <1>5, <1>6, <1>7, <1>8

(* What a ProcessQueue keeps. *)
Inv == DataTypes /\ ControlInv /\ EndInv /\ (NoneThrown => IndInv)

(* The conjunction is inductive. *)
THEOREM Inductive == Spec => []Inv
<1>1. Init => Inv
  BY Zenon, InitStep DEF Inv
<1>2. Inv /\ [Next]_vars => Inv'
  <2> SUFFICES ASSUME Inv, [Next]_vars PROVE Inv'
    BY Zenon
  <2>1. ASSUME NoneThrown' PROVE IndInv'
    <3>1. NoneThrown /\ ~DispatchThrows
      BY Zenon, <2>1 DEF NoneThrown, DispatchThrows, Next, DispatchStep, Submit, Finish, Sleep, TakeJob, Refuse,
                  Dispatch, Complete, LeaveLoop, End, Consume, Ended, vars
    <3> QED BY Zenon, <3>1, NextCases, QuietStep, SameStep, DispatchStep1, CompleteStep, ConsumeStep DEF Inv
  <2> QED BY Zenon, <2>1, ControlStep, EndStep, DataTypesStep DEF Inv
<1> QED BY <1>1, <1>2, PTL DEF Spec

(* Type correctness: in particular the dispatch thread has taken exactly   *)
(* the accepted packets below nextOrderId_.                                *)
THEOREM TypeCorrect == Spec => []TypeOK
<1>1. Inv => TypeOK
  BY Zenon DEF Inv, DataTypes, ControlInv, TypeOK
<1> QED BY <1>1, Inductive, PTL

(* The waits of Execute make every access check see the state of the       *)
(* packets numbered below it, whatever the consumer threads do.            *)
THEOREM OrderedAccess == Spec => []AccessSeesOrderedState
<1>1. Inv => AccessSeesOrderedState
  BY Zenon DEF Inv, IndInv, Types, AccessSeesOrderedState
<1> QED BY <1>1, Inductive, PTL

(* Work that looks at a table and work that changes it are never in flight *)
(* together.                                                               *)
THEOREM NoConflict == Spec => []NoConflictInFlight
<1>1. Inv => NoConflictInFlight
  BY Zenon DEF Inv, IndInv, NoConflictInFlight
<1> QED BY <1>1, Inductive, PTL

(* When ProcessQueue::Finish has returned, every check has been made and   *)
(* an accepted packet that was not executed has been reported.             *)
THEOREM FinishChecks == Spec => []FinishedMeansChecked
<1>1. Inv => FinishedMeansChecked
  BY Zenon DEF Inv, ControlInv, EndInv, FinishedMeansChecked
<1> QED BY <1>1, Inductive, PTL
=============================================================================
