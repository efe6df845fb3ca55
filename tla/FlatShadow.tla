----------------------------- MODULE FlatShadow -----------------------------
(***************************************************************************)
(* What the shadow memory promises, byte by byte.  A byte of global memory *)
(* or of on-chip memory is UNDEFINED until it is written.  A byte of       *)
(* global memory belongs to the first core that writes it after it was     *)
(* allocated or handed to the host; a write by another core is a trample   *)
(* and is reported once, with the number of bytes, unless atomic writes    *)
(* are on.  A read reports how many of its bytes are UNDEFINED; of a range *)
(* with an Unseen byte it may report fewer.                                *)
(***************************************************************************)
EXTENDS Integers, FiniteSets

CONSTANTS GmSize, ChipSize, CoreIds, Host, NoOwner, OutOfBoundCheck,
          Unseen(_)        \* the bytes of global memory a read may overlook

VARIABLES job, gmStatus, owner, chipStatus, atomicEnabled, report

flatVars == <<job, gmStatus, owner, chipStatus, atomicEnabled, report>>

Bytes(lo, n, top) == {a \in 0..top-1 : lo <= a /\ a < lo + n}

Report(op, core, lo, n, bad) == [op |-> op, core |-> core, addr |-> lo, size |-> n, bad |-> bad]

(* The operation leaves a report of itself.                                *)
Reports(op, core, lo, n) ==
  /\ report'.op = op /\ report'.core = core /\ report'.addr = lo /\ report'.size = n
  /\ DOMAIN report' = {"op", "core", "addr", "size", "bad"}

FlatInit ==
  /\ gmStatus = [a \in 0..GmSize-1 |-> "UNDEFINED"]
  /\ owner = [a \in 0..GmSize-1 |-> NoOwner]
  /\ chipStatus = [a \in 0..ChipSize-1 |-> "UNDEFINED"]
  /\ atomicEnabled = FALSE
  /\ report = Report("none", Host, 0, 0, 0)

Trampled(a, core) ==
  /\ gmStatus[a] # "ERROR" /\ core # Host /\ owner[a] \notin {NoOwner, core}
  /\ ~atomicEnabled /\ OutOfBoundCheck

FlatStoreGm(core, lo, n) ==
  LET range == Bytes(lo, n, GmSize)
      hit   == {a \in range : Trampled(a, core)}
  IN /\ Reports("StoreGm", core, lo, n) /\ report'.bad = Cardinality(hit)
     /\ gmStatus' = [a \in DOMAIN gmStatus |->
                       IF a \in hit THEN "ERROR"
                       ELSE IF a \in range /\ gmStatus[a] = "UNDEFINED" THEN "DEFINED"
                       ELSE gmStatus[a]]
     /\ owner' = [a \in DOMAIN owner |->
                    IF a \notin range \/ gmStatus[a] = "ERROR" THEN owner[a]
                    ELSE IF core = Host THEN NoOwner
                    ELSE IF owner[a] = NoOwner THEN core
                    ELSE owner[a]]
     /\ UNCHANGED <<chipStatus, atomicEnabled>>

FlatStoreChip(core, lo, n) ==
  /\ Reports("StoreChip", core, lo, n) /\ report'.bad = 0
  /\ chipStatus' = [a \in DOMAIN chipStatus |->
                      IF a \in Bytes(lo, n, ChipSize) THEN "DEFINED" ELSE chipStatus[a]]
  /\ UNCHANGED <<gmStatus, owner, atomicEnabled>>

Undefined(status, range) == Cardinality({a \in range : status[a] = "UNDEFINED"})

FlatLoadGm(core, lo, n) ==
  /\ job.initCheck
  /\ Reports("LoadGm", core, lo, n)
  /\ LET range == Bytes(lo, n, GmSize)
         all   == Undefined(gmStatus, range)
     IN IF \E a \in range : Unseen(a) THEN report'.bad \in 0..all ELSE report'.bad = all
  /\ UNCHANGED <<gmStatus, owner, chipStatus, atomicEnabled>>

FlatLoadChip(core, lo, n) ==
  /\ job.initCheck
  /\ Reports("LoadChip", core, lo, n) /\ report'.bad = Undefined(chipStatus, Bytes(lo, n, ChipSize))
  /\ UNCHANGED <<gmStatus, owner, chipStatus, atomicEnabled>>

(* A block is freed: nothing of it is left behind.  The bytes that were    *)
(* never written are counted first.                                        *)
FlatFree(lo, n) ==
  LET range == Bytes(lo, n, GmSize)
  IN /\ Reports("Free", Host, lo, n) /\ report'.bad = Undefined(gmStatus, range)
     /\ gmStatus' = [a \in DOMAIN gmStatus |-> IF a \in range THEN "UNDEFINED" ELSE gmStatus[a]]
     /\ owner' = [a \in DOMAIN owner |-> IF a \in range THEN NoOwner ELSE owner[a]]
     /\ UNCHANGED <<chipStatus, atomicEnabled>>

(* A block known only from the operator's arguments is handed back: it     *)
(* keeps its contents and loses its owner.                                 *)
FlatHandBack(lo, n) ==
  LET range == Bytes(lo, n, GmSize)
  IN /\ Reports("HandBack", Host, lo, n) /\ report'.bad = Undefined(gmStatus, range)
     /\ owner' = [a \in DOMAIN owner |-> IF a \in range THEN NoOwner ELSE owner[a]]
     /\ UNCHANGED <<gmStatus, chipStatus, atomicEnabled>>

FlatBlockFinish ==
  /\ report' = Report("BlockFinish", Host, 0, 0, 0)
  /\ chipStatus' = [a \in DOMAIN chipStatus |-> "UNDEFINED"]
  /\ UNCHANGED <<gmStatus, owner, atomicEnabled>>

FlatSetAtomic(enabled) ==
  /\ report' = Report("SetAtomic", Host, 0, 0, 0)
  /\ atomicEnabled' = enabled
  /\ UNCHANGED <<gmStatus, owner, chipStatus>>

FlatNext ==
  \/ \E c \in CoreIds \cup {Host}, r \in job.ranges : FlatStoreGm(c, r[1], r[2])
  \/ \E c \in CoreIds, r \in job.ranges :
       \/ FlatStoreChip(c, r[1], r[2]) \/ FlatLoadGm(c, r[1], r[2]) \/ FlatLoadChip(c, r[1], r[2])
  \/ \E r \in job.ranges : FlatFree(r[1], r[2]) \/ FlatHandBack(r[1], r[2])
  \/ FlatBlockFinish
  \/ \E b \in BOOLEAN : FlatSetAtomic(b)

FlatSpec == FlatInit /\ [][FlatNext /\ UNCHANGED job]_flatVars
=============================================================================
