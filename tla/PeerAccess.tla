----------------------------- MODULE PeerAccess -----------------------------
(***************************************************************************)
(* PeerAccessManager: which device of a process may access which other,    *)
(* and the address sanitizers of the devices that can be asked.  It holds  *)
(* plain pointers to sanitizers that come and go by themselves; a new      *)
(* sanitizer may lie where a destroyed one was.                            *)
(*                                                                         *)
(* Every operation holds the manager's mutex from its first to its last    *)
(* access, so each is one step here.  A sanitizer changes its own ranges   *)
(* under the same mutex.                                                   *)
(***************************************************************************)
EXTENDS Integers, FiniteSets

CONSTANTS Pids, Devs, Sanitizers, Addrs,
          NoPid,           \* a process id below 0
          Nobody           \* no sanitizer, and no registration

ASSUME NobodyAssumption == /\ Nobody \notin Sanitizers /\ Nobody \notin Pids \X Devs
                           /\ NoPid \notin Pids

VARIABLES alive,           \* the sanitizers that exist
          pid,             \* pid_ of each
          covers,          \* the addresses its ranges in scope allow
          relations,       \* per process: <<device, peer>>
          devices,         \* per process and device: the sanitizer registered
          sources,         \* per sanitizer: what its two range tables are filed under
          op               \* the last operation, the sanitizer and the outcome

vars == <<alive, pid, covers, relations, devices, sources, op>>

Op(name, s, answer) == [name |-> name, sanitizer |-> s, answer |-> answer]

Init ==
  /\ alive = {} /\ pid = [s \in Sanitizers |-> NoPid] /\ covers = [s \in Sanitizers |-> {}]
  /\ relations = [p \in Pids |-> {}]
  /\ devices = [p \in Pids |-> [d \in Devs |-> Nobody]]
  /\ sources = [s \in Sanitizers |-> Nobody]
  /\ op = Op("Start", Nobody, FALSE)

Create(s) ==
  /\ s \in Sanitizers \ alive
  /\ alive' = alive \cup {s}
  /\ pid' = [pid EXCEPT ![s] = NoPid] /\ covers' = [covers EXCEPT ![s] = {}]
  /\ op' = Op("Create", s, FALSE)
  /\ UNCHANGED <<relations, devices, sources>>

(* UnregisterDevice: the table of a device is only touched where it names  *)
(* this very sanitizer.                                                    *)
Dropped_all(s) ==
  [p \in Pids |-> [d \in Devs |-> IF sources[s] = <<p, d>> THEN Nobody ELSE devices[p][d]]]

Dropped(s) ==
  [p \in Pids |-> [d \in Devs |-> IF devices[p][d] = s THEN Nobody ELSE devices[p][d]]]

Destroy_bare(s) ==
  /\ s \in alive
  /\ alive' = alive \ {s}
  /\ sources' = [sources EXCEPT ![s] = Nobody]
  /\ op' = Op("Destroy", s, FALSE)
  /\ UNCHANGED <<pid, covers, relations, devices>>

(* The destructor unregisters a sanitizer that knows its process.          *)
Destroy(s) ==
  /\ s \in alive
  /\ alive' = alive \ {s}
  /\ IF pid[s] = NoPid THEN UNCHANGED <<devices, sources>>
     ELSE devices' = Dropped(s) /\ sources' = [sources EXCEPT ![s] = Nobody]
  /\ op' = Op("Destroy", s, FALSE)
  /\ UNCHANGED <<pid, covers, relations>>

(* SetDeviceInfo by a thread that serves process p.  The process is taken  *)
(* over once; not ready stands for an unknown chip, shadow memory that     *)
(* cannot be made, or a device id below 0.                                 *)
SetDeviceInfo(s, p, d, ready) ==
  LET own == IF pid[s] = NoPid THEN p ELSE pid[s]
  IN /\ s \in alive
     /\ pid' = [pid EXCEPT ![s] = own]
     /\ IF own = NoPid THEN UNCHANGED <<devices, sources>>
        ELSE IF ready
        THEN /\ devices' = [Dropped(s) EXCEPT ![own] = [@ EXCEPT ![d] = s]]
             /\ sources' = [sources EXCEPT ![s] = <<own, d>>]
        ELSE /\ devices' = Dropped(s)
             /\ sources' = [sources EXCEPT ![s] = Nobody]
     /\ op' = Op("SetDeviceInfo", s, ready)
     /\ UNCHANGED <<alive, covers, relations>>

(* A host record of the sanitizer's device changes its ranges or scope.    *)
HostRecord(s, new) ==
  /\ s \in alive /\ covers[s] # new
  /\ covers' = [covers EXCEPT ![s] = new]
  /\ op' = Op("HostRecord", s, FALSE)
  /\ UNCHANGED <<alive, pid, relations, devices, sources>>

-----------------------------------------------------------------------------
Enable(p, d, e) ==
  /\ d # e
  /\ relations' = [relations EXCEPT ![p] = @ \cup {<<d, e>>}]
  /\ op' = Op("Apply", Nobody, TRUE)
  /\ UNCHANGED <<alive, pid, covers, devices, sources>>

Disable(p, d, e) ==
  /\ d # e
  /\ relations' = [relations EXCEPT ![p] = @ \ {<<d, e>>}]
  /\ op' = Op("Apply", Nobody, TRUE)
  /\ UNCHANGED <<alive, pid, covers, devices, sources>>

Untied_out(R, d) == {r \in R : r[1] # d}

(* A device that is reset neither accesses others nor is accessed.         *)
Untied(R, d) == {r \in R : r[1] # d /\ r[2] # d}

Reset(p, d) ==
  /\ relations' = [relations EXCEPT ![p] = Untied(@, d)]
  /\ op' = Op("Apply", Nobody, TRUE)
  /\ UNCHANGED <<alive, pid, covers, devices, sources>>

(* One device that may be accessed has to cover the whole access.          *)
Grants(s, access) ==
  /\ access # {} /\ sources[s] # Nobody
  /\ \E r \in relations[sources[s][1]] :
       /\ r[1] = sources[s][2]
       /\ devices[sources[s][1]][r[2]] # Nobody
       /\ access \subseteq covers[devices[sources[s][1]][r[2]]]

(* The sanitizer asks for an access that meets none of its own ranges.     *)
CheckRemote(s, access) ==
  /\ s \in alive /\ access \cap covers[s] = {}
  /\ op' = Op("CheckRemote", s, Grants(s, access))
  /\ UNCHANGED <<alive, pid, covers, relations, devices, sources>>

Clear ==
  /\ relations' = [p \in Pids |-> {}]
  /\ devices' = [p \in Pids |-> [d \in Devs |-> Nobody]]
  /\ sources' = [s \in Sanitizers |-> Nobody]
  /\ op' = Op("Clear", Nobody, FALSE)
  /\ UNCHANGED <<alive, pid, covers>>

Next ==
  \/ \E s \in Sanitizers : Create(s) \/ Destroy(s)
  \/ \E s \in Sanitizers, p \in Pids \cup {NoPid}, d \in Devs, ready \in BOOLEAN :
        SetDeviceInfo(s, p, d, ready)
  \/ \E s \in Sanitizers, new \in SUBSET Addrs : HostRecord(s, new)
  \/ \E p \in Pids, d, e \in Devs : Enable(p, d, e) \/ Disable(p, d, e)
  \/ \E p \in Pids, d \in Devs : Reset(p, d)
  \/ \E s \in Sanitizers, access \in SUBSET Addrs : CheckRemote(s, access)
  \/ Clear

Spec == Init /\ [][Next]_vars

-----------------------------------------------------------------------------
TypeOK ==
  /\ alive \subseteq Sanitizers
  /\ pid \in [Sanitizers -> Pids \cup {NoPid}]
  /\ covers \in [Sanitizers -> SUBSET Addrs]
  /\ relations \in [Pids -> SUBSET (Devs \X Devs)]
  /\ devices \in [Pids -> [Devs -> Sanitizers \cup {Nobody}]]
  /\ sources \in [Sanitizers -> (Pids \X Devs) \cup {Nobody}]

(* Nothing PeerAccessManager has on file outlives its sanitizer: a query   *)
(* never follows a dangling pointer, and a new sanitizer at the address of *)
(* an old one does not inherit its registration.                           *)
NoDangling ==
  /\ \A p \in Pids, d \in Devs : devices[p][d] # Nobody => devices[p][d] \in alive
  /\ \A s \in Sanitizers : sources[s] # Nobody => s \in alive

(* A sanitizer is registered for one device of its own process, the one    *)
(* its own accesses are judged by: processes are isolated from each other  *)
(* and a device that was renumbered leaves nothing behind.                 *)
RegisteredOnce ==
  \A p \in Pids, d \in Devs :
    devices[p][d] # Nobody => /\ sources[devices[p][d]] = <<p, d>>
                              /\ pid[devices[p][d]] = p

(* The registration of a sanitizer is only ended by itself, by the one     *)
(* that takes its device over, or by Clear: the destruction of a replaced  *)
(* sanitizer leaves its successor alone (UnregisterDevice).                *)
NewSurvivesOld ==
  [][\A p \in Pids, d \in Devs :
       devices'[p][d] # devices[p][d] =>
         \/ op'.name = "Clear"
         \/ op'.sanitizer \in {devices[p][d], devices'[p][d]} \ {Nobody}]_vars

(* An access is granted only by a live sanitizer of another device of the  *)
(* same process, and relations never tie a device to itself.               *)
GrantIsFromPeer ==
  /\ \A p \in Pids : \A r \in relations[p] : r[1] # r[2]
  /\ \A s \in alive, a \in Addrs : Grants(s, {a}) =>
       \E t \in alive \ {s} : pid[t] = pid[s] /\ a \in covers[t]
=============================================================================
