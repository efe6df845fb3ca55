-------------------------- MODULE OrderedScheduler --------------------------
(***************************************************************************)
(* OrderedPacketScheduler::ProcessQueue                                    *)
(* (core/framework/ordered_packet_scheduler.{h,cpp}) for one host process: *)
(* receiving threads hand in packets numbered by the host, one dispatch    *)
(* thread executes them in the order of their numbers.  Executing a packet *)
(* queues work for the memcheck consumer of a device; a packet waits,      *)
(* through completion marks, for the earlier work it depends on.           *)
(*                                                                         *)
(* A device has one connection and one Checker; the part of Checker that   *)
(* matters here is the FIFO queue of its memcheck consumer (Checker,       *)
(* property MarkAfterEarlierWork).  An access check of device d looks at   *)
(* the tables of the devices PeerAccessManager has granted to d.           *)
(***************************************************************************)
EXTENDS Naturals, Sequences

CONSTANTS Devices,
          MaxId,      \* bound on orderId
          Faults      \* which may happen: "repeat" (a zero or repeated orderId), "throw"

ASSUME SchedulerAssumption == MaxId \in Nat /\ Faults \subseteq {"repeat", "throw"}

Ids == 1..MaxId

(* What a packet is to the scheduler, as Classify and Execute see it.      *)
(*   access / update / both : may look at remote tables / changes the own  *)
(*     table (malloc, free, permission, IPC map) / a host access that may  *)
(*     also switch the Runtime/DFX table;                                  *)
(*   other : neither;  enable, disable, reset : peer access records;       *)
(*   destroy : IPC DESTROY, whose FREE goes to the devices in targets;     *)
(*   invalid : refused (device or peer record).                            *)
Packet(kind, d, targets) == [kind |-> kind, dev |-> d, targets |-> targets]
Packets ==
    {Packet(k, d, {}) : k \in {"access", "update", "both", "other", "reset", "invalid"}, d \in Devices}
    \cup {Packet(k, d, {p}) : k \in {"enable", "disable"}, d \in Devices, p \in Devices}
    \cup {Packet("destroy", d, ts) : d \in Devices, ts \in (SUBSET Devices) \ {{}}}

VARIABLES pendingJobMap_,   \* numbers of the packets handed in, not yet taken
          nextOrderId_, closing_,
          dpc, djob, did,   \* the dispatch thread: where it is, the packet, its number
          relations_,       \* the scheduler's copy of the grants
          granted,          \* PeerAccessManager: device -> devices it may access
          lastAccess, lastUpdate, lastWork,   \* per device: number of the last mark, 0 if none
          fifo,             \* per device: work and marks queued for memcheck
          applied,          \* per device: updates its consumer has carried out
          issued,           \* history: updates dispatched to the device, in order
          misjudged,        \* history: accesses checked against a state not their own
          accepted,         \* history: numbers Submit accepted
          failures          \* reasons given to Fail: a dispatch threw, a number is missing

input    == <<pendingJobMap_, closing_, accepted>>
dispatch == <<dpc, djob, did>>
points   == <<lastAccess, lastUpdate, lastWork>>
tables   == <<applied, misjudged>>
vars     == <<input, nextOrderId_, dispatch, relations_, granted, points, fifo, tables,
              issued, failures>>

NoJob == Packet("none", "none", {})

Init == /\ pendingJobMap_ = {} /\ nextOrderId_ = 1 /\ closing_ = FALSE
        /\ dpc = "loop" /\ djob = NoJob /\ did = 0
        /\ relations_ = [d \in Devices |-> {}] /\ granted = [d \in Devices |-> {}]
        /\ lastAccess = [d \in Devices |-> 0] /\ lastUpdate = [d \in Devices |-> 0]
        /\ lastWork = [d \in Devices |-> 0]
        /\ fifo = [d \in Devices |-> <<>>]
        /\ applied = [d \in Devices |-> {}] /\ issued = [d \in Devices |-> {}]
        /\ misjudged = {} /\ accepted = {} /\ failures = {}

----------------------------------------------------------------------------
(* Work items and marks.  An access item carries the view it should have:  *)
(* for every device granted when it was dispatched, the updates dispatched *)
(* to that device before it.                                               *)

Item(what, n, view) == [what |-> what, id |-> n, view |-> view]
NoView       == [p \in {} |-> {}]
Mark(n)      == Item("mark", n, NoView)
IsAccess(it) == it.what \in {"access", "both"}
IsUpdate(it) == it.what \in {"update", "both"}

(* A completion future is ready when the consumer has taken its mark out.  *)
Ready(d, n) == \A i \in DOMAIN fifo[d] : fifo[d][i] # Mark(n)

(* Classify *)
Accesses(job) == job.kind \in {"access", "both"}
Updates(job)  == job.kind \in {"update", "both"}

(* Devices whose consumers get a record: the packet's own, or the devices  *)
(* that had mapped the destroyed IPC memory.                               *)
Receives(job, d) == \/ job.kind \in {"access", "update", "both"} /\ d = job.dev
                    \/ job.kind = "destroy" /\ d \in job.targets
Receivers(job)   == {d \in Devices : Receives(job, d)}

(* relations_ and PeerAccessManager::Apply change a grant in the same way. *)
ApplyPeer(rel, job) ==
    CASE job.kind = "enable"  -> [rel EXCEPT ![job.dev] = @ \cup job.targets]
      [] job.kind = "disable" -> [rel EXCEPT ![job.dev] = @ \ job.targets]
      [] job.kind = "reset"   -> [d \in Devices |-> IF d = job.dev THEN {} ELSE rel[d] \ {job.dev}]
      [] OTHER -> rel

(* WaitForReaders: accesses of the devices that may look at d are done. *)
ReadersDone(d) == \A r \in Devices : d \in relations_[r] => Ready(r, lastAccess[r])

PeerChange_disable(job) ==
    job.kind = "disable" /\ job.targets \cap relations_[job.dev] # {}
PeerChange(job) ==
    \/ job.kind = "enable"  /\ ~(job.targets \subseteq relations_[job.dev])
    \/ job.kind = "disable" /\ job.targets \cap relations_[job.dev] # {}

(* The waits of Execute.  They are made one after the other, but a mark    *)
(* that is ready stays ready and nothing is dispatched meanwhile.          *)
MayDispatch(job) ==
    /\ PeerChange(job) => Ready(job.dev, lastAccess[job.dev])
    /\ job.kind = "reset" =>
          /\ relations_[job.dev] # {} => Ready(job.dev, lastAccess[job.dev])
          /\ ReadersDone(job.dev)
    /\ Accesses(job) => \A t \in relations_[job.dev] : Ready(t, lastUpdate[t])
    /\ Updates(job) => ReadersDone(job.dev)
    /\ job.kind = "destroy" => \A t \in job.targets : ReadersDone(t)

----------------------------------------------------------------------------
(* Receiving threads and Finish.                                           *)

NotifyDispatcher == dpc' = IF dpc = "sleep" THEN "loop" ELSE dpc

NotifySubmitted_lost == UNCHANGED dpc
NotifySubmitted == NotifyDispatcher

(* ProcessQueue::Submit: zero, past and repeated numbers are refused with  *)
(* a message and change nothing.                                           *)
Submit(n) ==
    /\ ~closing_
    /\ IF n = 0 \/ n < nextOrderId_ \/ n \in pendingJobMap_
       THEN "repeat" \in Faults /\ UNCHANGED <<pendingJobMap_, accepted, dpc>>
       ELSE /\ pendingJobMap_' = pendingJobMap_ \cup {n} /\ accepted' = accepted \cup {n}
            /\ NotifySubmitted
    /\ UNCHANGED <<nextOrderId_, closing_, djob, did, relations_, granted, points, fifo, tables,
                   issued, failures>>

Finish ==
    /\ ~closing_ /\ closing_' = TRUE
    /\ NotifyDispatcher
    /\ UNCHANGED <<pendingJobMap_, accepted, nextOrderId_, djob, did, relations_, granted, points,
                   fifo, tables, issued, failures>>

----------------------------------------------------------------------------
(* The dispatch thread (Run and Execute).                                  *)

Expected == pendingJobMap_ \cap {nextOrderId_}

Sleep ==
    /\ dpc = "loop" /\ ~closing_ /\ Expected = {}
    /\ dpc' = "sleep"
    /\ UNCHANGED <<input, nextOrderId_, djob, did, relations_, granted, points, fifo, tables,
                   issued, failures>>

(* Take the expected packet; only now does its content matter. *)
TakeJob ==
    \E n \in Expected, job \in Packets :
        /\ dpc = "loop" /\ dpc' = "execute"
        /\ djob' = job /\ did' = n
        /\ pendingJobMap_' = pendingJobMap_ \ {n} /\ nextOrderId_' = nextOrderId_ + 1
        /\ UNCHANGED <<closing_, accepted, relations_, granted, points, fifo, tables, issued,
                       failures>>

(* An enable or disable record that names the device itself is invalid;    *)
(* the packet is given up with a message.                                  *)
Refused(job) == \/ job.kind = "invalid"
                \/ job.kind \in {"enable", "disable"} /\ job.dev \in job.targets

Refuse ==
    /\ dpc = "execute" /\ Refused(djob)
    /\ dpc' = "loop" /\ djob' = NoJob /\ did' = 0
    /\ UNCHANGED <<input, nextOrderId_, relations_, granted, points, fifo, tables, issued,
                   failures>>

(* The records of the packet in hand reach the consumers of devices ds. *)
Deliver(ds) ==
    LET what == IF djob.kind = "destroy" THEN "update" ELSE djob.kind
        view == IF Accesses(djob) THEN [p \in relations_[djob.dev] |-> issued[p]] ELSE NoView
    IN  /\ fifo' = [d \in Devices |-> IF d \in ds THEN Append(fifo[d], Item(what, did, view))
                                      ELSE fifo[d]]
        /\ issued' = [d \in Devices |-> IF d \in ds /\ djob.kind # "access"
                                        THEN issued[d] \cup {did} ELSE issued[d]]

(* dispatch_: records go to the consumers, grants to PeerAccessManager. *)
Dispatch ==
    /\ dpc = "execute" /\ ~Refused(djob) /\ MayDispatch(djob)
    /\ Deliver(Receivers(djob))
    /\ granted' = ApplyPeer(granted, djob)
    /\ dpc' = "complete"
    /\ UNCHANGED <<input, nextOrderId_, djob, did, relations_, points, tables, failures>>

(* dispatch_ throws, when Checker finds its parse pipeline failed: before  *)
(* or behind the submission of a batch, or between two targets of a        *)
(* DESTROY.  Run reports it; no mark follows what was queued.              *)
DispatchThrows ==
    /\ "throw" \in Faults
    /\ dpc = "execute" /\ ~Refused(djob) /\ MayDispatch(djob)
    /\ djob.kind \notin {"enable", "disable", "reset"}
    /\ \E ds \in SUBSET Receivers(djob) : Deliver(ds)
    /\ failures' = failures \cup {"thrown"}
    /\ dpc' = "loop" /\ djob' = NoJob /\ did' = 0
    /\ UNCHANGED <<input, nextOrderId_, relations_, granted, points, tables>>

(* Behind dispatch_: the scheduler's own relations, a mark in the queue of *)
(* the packet's device and of every IPC target, and the new wait points.   *)
MarkedWork_own(job, d) == d = job.dev
MarkedWork(job, d) == d = job.dev \/ (job.kind = "destroy" /\ d \in job.targets)
MarkedUpdate_own(job, d) == Updates(job) /\ d = job.dev
MarkedUpdate(job, d) == \/ Updates(job) /\ d = job.dev
                        \/ job.kind = "destroy" /\ d \in job.targets

Complete ==
    /\ dpc = "complete"
    /\ relations_' = ApplyPeer(relations_, djob)
    /\ fifo' = [d \in Devices |-> IF MarkedWork(djob, d) THEN Append(fifo[d], Mark(did)) ELSE fifo[d]]
    /\ lastWork' = [d \in Devices |-> IF MarkedWork(djob, d) THEN did ELSE lastWork[d]]
    /\ lastAccess' = [d \in Devices |-> IF Accesses(djob) /\ d = djob.dev THEN did ELSE lastAccess[d]]
    /\ lastUpdate' = [d \in Devices |-> IF MarkedUpdate(djob, d) THEN did ELSE lastUpdate[d]]
    /\ dpc' = "loop" /\ djob' = NoJob /\ did' = 0
    /\ UNCHANGED <<input, nextOrderId_, granted, tables, issued, failures>>

(* Closing with the expected number missing: leave the loop, wait for the  *)
(* work of every device, report packets that could not be executed.        *)
LeaveLoop ==
    /\ dpc = "loop" /\ closing_ /\ Expected = {}
    /\ dpc' = "drain"
    /\ UNCHANGED <<input, nextOrderId_, djob, did, relations_, granted, points, fifo, tables,
                   issued, failures>>

WorkDrained == \A d \in Devices : Ready(d, lastWork[d])

AfterDrain_retry == IF pendingJobMap_ = {} THEN "ended" ELSE "loop"
AfterDrain == "ended"

End ==
    /\ dpc = "drain" /\ WorkDrained
    /\ dpc' = AfterDrain
    /\ failures' = IF pendingJobMap_ = {} THEN failures ELSE failures \cup {"missing"}
    /\ UNCHANGED <<input, nextOrderId_, djob, did, relations_, granted, points, fifo, tables, issued>>

----------------------------------------------------------------------------
(* The memcheck consumer of device d takes the next entry of its queue.    *)

(* PeerAccessManager::CheckRemote: the tables of the granted devices. *)
View(d) == [p \in granted[d] |-> applied[p]]

Consume(d) ==
    LET it == Head(fifo[d])
    IN  /\ fifo[d] # <<>>
        /\ fifo' = [fifo EXCEPT ![d] = Tail(@)]
        /\ misjudged' = IF IsAccess(it) /\ it.view # View(d) THEN misjudged \cup {it.id} ELSE misjudged
        /\ applied' = IF IsUpdate(it) THEN [applied EXCEPT ![d] = @ \cup {it.id}] ELSE applied
        /\ UNCHANGED <<input, nextOrderId_, dispatch, relations_, granted, points, issued, failures>>

DispatchStep == Sleep \/ TakeJob \/ Refuse \/ Dispatch \/ DispatchThrows \/ Complete
                \/ LeaveLoop \/ End

(* Finish returns; entries that no wait covered may still be taken out. *)
Ended == dpc = "ended" /\ (\A d \in Devices : fifo[d] = <<>>) /\ UNCHANGED vars

Next == \/ \E n \in 0..MaxId : Submit(n)
        \/ Finish
        \/ DispatchStep
        \/ \E d \in Devices : Consume(d)
        \/ Ended

Spec == Init /\ [][Next]_vars

(* The dispatch thread and the consumers keep running; nothing makes the   *)
(* host send a packet or close its connections.                            *)
FairSpec == /\ Spec /\ WF_vars(DispatchStep)
            /\ \A d \in Devices : WF_vars(Consume(d))

----------------------------------------------------------------------------
(* Properties.                                                             *)

Views == UNION {[ps -> SUBSET Ids] : ps \in SUBSET Devices}
Items == [what : {"access", "update", "both"}, id : Ids, view : Views]
Marks == {Mark(n) : n \in Ids}

(* The shape of the state: the dispatch thread has executed exactly the    *)
(* numbers below nextOrderId_, all of them accepted, and what is still     *)
(* waiting lies above.                                                     *)
TypeOK == /\ accepted \subseteq Ids
          /\ nextOrderId_ \in 1..MaxId + 1
          /\ pendingJobMap_ = accepted \ 1..(nextOrderId_ - 1)
          /\ 1..(nextOrderId_ - 1) \subseteq accepted
          /\ closing_ \in BOOLEAN
          /\ dpc \in {"loop", "sleep", "execute", "complete", "drain", "ended"}
          /\ djob \in Packets \cup {NoJob} /\ did \in 0..MaxId
          /\ {relations_, granted} \subseteq [Devices -> SUBSET Devices]
          /\ {lastAccess, lastUpdate, lastWork} \subseteq [Devices -> 0..MaxId]
          /\ fifo \in [Devices -> Seq(Items \cup Marks)]
          /\ {applied, issued} \subseteq [Devices -> SUBSET Ids]
          /\ misjudged \subseteq Ids
          /\ failures \subseteq {"thrown", "missing"}

NoneThrown == "thrown" \notin failures

(* Rules 1 to 6 above Execute: every access check of a device sees exactly *)
(* the grants and the table updates of the packets numbered below its own, *)
(* although checks of different devices run on different threads.  Once a  *)
(* dispatch has thrown, the detection is reported as incomplete.           *)
AccessSeesOrderedState == NoneThrown => misjudged = {}

(* Why: work that looks at a device's table and work that changes it are   *)
(* never in flight together.                                               *)
HasAccess(d) == \E i \in DOMAIN fifo[d] : IsAccess(fifo[d][i])
HasUpdate(d) == \E i \in DOMAIN fifo[d] : IsUpdate(fifo[d][i])
ConflictFree == \A d \in Devices : HasAccess(d) => \A p \in granted[d] : ~HasUpdate(p)
NoConflictInFlight == NoneThrown => ConflictFree

(* ProcessQueue::Finish: when it has returned, all checks have been made,  *)
(* and unless Fail was called every packet accepted was executed.          *)
FinishedMeansChecked ==
    dpc = "ended" => /\ NoneThrown => \A d \in Devices : fifo[d] = <<>>
                     /\ failures = {} => accepted = 1..(nextOrderId_ - 1)

(* The dispatch thread takes the expected packet up once it is there: it   *)
(* neither misses the wake-up of Submit nor is stuck in an earlier packet. *)
ExpectedIsExecuted == []<>(Expected = {} \/ dpc = "execute")

(* ProcessQueue::Finish returns. *)
FinishReturns == []<>(closing_ => dpc = "ended")
=============================================================================
