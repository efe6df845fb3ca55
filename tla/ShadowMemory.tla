---------------------------- MODULE ShadowMemory ----------------------------
(***************************************************************************)
(* ShadowMemory: status and owner of every byte of global memory (GmPM)    *)
(* and status of every byte of on-chip memory (one PM stands for those of  *)
(* L1, L0A, L0B, L0C, UB and the private memory).  Every operation walks   *)
(* its range in runs of equal bits, the ranges UnifiedRangeAfter returns.  *)
(*                                                                         *)
(* A shadow byte has two status bits and IdBits bits for the owner; the    *)
(* all-ones owner means none.  Core numbers are wider: 8 bits in the code, *)
(* all ones for the host.  Nothing has the status NOACCESS.                *)
(***************************************************************************)
EXTENDS PrimaryMap, Sequences

CONSTANTS IdBits,          \* 6 in the code
          CoreIds,         \* the cores that access memory
          Host,            \* 0xFF in the code
          ChipSize,        \* bytes of on-chip memory
          Jobs,            \* what is checked, in which memory
          OutOfBoundCheck

VARIABLES job,             \* space: "GM" or "CHIP"; initCheck; ranges: the <<addr, size>>
                           \* of an operation; maxOps: how many of them
          gm, chip, atomicEnabled, report, ops

vars == <<job, gm, chip, atomicEnabled, report, ops>>

DefaultCoreId == 2^IdBits - 1

Byte(status, id) == [status |-> status, id |-> id]

Blank == Byte("UNDEFINED", DefaultCoreId)

SetCoreId(bits, core) == Byte(bits.status, core % 2^IdBits)

GetBits(space, map, addr) ==
  IF space = "GM" THEN GmGetBits(map, addr) ELSE PMGetBits(map, addr)

SetBits(space, map, addr, size, bits) ==
  IF space = "GM" THEN GmSet(map, addr, size, bits) ELSE PMSet(map, addr, size, bits)

UnifiedSizeAfter(space, map, base, size, addr) ==
  IF space = "GM" THEN GmUnifiedSizeAfter(map, base, size, addr)
                  ELSE PMUnifiedSizeAfter(map, base, size, addr)

RangeHasStatus(space, map, addr, size, status) ==
  IF space = "GM" THEN GmRangeHasStatus(map, addr, size, status)
                  ELSE PMRangeHasStatus(map, addr, size, status)

(* The range cut down to the modelled addresses.                           *)
ValidateRange(space, addr, size) ==
  LET max == IF space = "GM" THEN GlobalMask ELSE ChipSize
      lo  == Least(max, addr)
  IN [addr |-> lo, size |-> Least(max, addr + size) - lo]

-----------------------------------------------------------------------------
(* One run of a store: the bits it leaves behind, whether they are written *)
(* to the tables, and whether the run counts as trampled.                  *)
StoreRun(space, bits, core) ==
  LET held == IF bits.status = "UNDEFINED" THEN Byte("DEFINED", bits.id) ELSE bits
      gmRun == space = "GM" /\ bits.status # "ERROR"
      trample == gmRun /\ core # Host /\ bits.id \notin {DefaultCoreId, core}
                 /\ ~atomicEnabled /\ OutOfBoundCheck
  IN [bits |-> IF gmRun /\ core = Host THEN Byte(held.status, DefaultCoreId)
               ELSE IF gmRun /\ bits.id = DefaultCoreId THEN SetCoreId(held, core)
               ELSE IF trample THEN Byte("ERROR", held.id)
               ELSE held,
      write |-> \/ bits.status = "UNDEFINED"
                \/ gmRun /\ (core = Host \/ bits.id = DefaultCoreId)
                \/ trample,
      bad |-> trample]

RECURSIVE StoreNBytesInRange(_, _, _, _, _, _, _)
StoreNBytesInRange(space, map, base, size, it, core, bad) ==
  IF it >= base + size THEN [map |-> map, bad |-> bad]
  ELSE LET n   == UnifiedSizeAfter(space, map, base, size, it)
           run == StoreRun(space, GetBits(space, map, it), core)
       IN StoreNBytesInRange(space,
             IF run.write THEN SetBits(space, map, it, n, run.bits) ELSE map,
             base, size, it + n, core, IF run.bad THEN bad + n ELSE bad)

(* The bytes of the range that are UNDEFINED, run by run.                  *)
RECURSIVE CountUndefined(_, _, _, _, _)
CountUndefined(space, map, base, size, it) ==
  IF it >= base + size THEN 0
  ELSE LET n == UnifiedSizeAfter(space, map, base, size, it)
       IN (IF GetBits(space, map, it).status = "UNDEFINED" THEN n ELSE 0)
            + CountUndefined(space, map, base, size, it + n)

RECURSIVE ClearBlockId(_, _, _, _)
ClearBlockId(map, base, size, it) ==
  IF it >= base + size THEN map
  ELSE LET n == UnifiedSizeAfter("GM", map, base, size, it)
       IN ClearBlockId(GmSet(map, it, n, SetCoreId(GmGetBits(map, it), DefaultCoreId)),
                       base, size, it + n)

-----------------------------------------------------------------------------
Report(op, core, addr, size, bad) ==
  [op |-> op, core |-> core, addr |-> addr, size |-> size, bad |-> bad]

Init ==
  /\ job \in Jobs
  /\ gm = MakeGm(Blank)
  /\ chip = MakePM(ChipSize, Blank)
  /\ atomicEnabled = FALSE
  /\ report = Report("none", Host, 0, 0, 0)
  /\ ops = 0

Count == ops < job.maxOps /\ ops' = ops + 1 /\ UNCHANGED job

StoreGm(core, addr, size) ==
  LET r == ValidateRange("GM", addr, size)
      s == StoreNBytesInRange("GM", gm, r.addr, r.size, r.addr, core, 0)
  IN /\ job.space = "GM" /\ Count
     /\ gm' = s.map
     /\ report' = Report("StoreGm", core, addr, size, s.bad)
     /\ UNCHANGED <<chip, atomicEnabled>>

StoreChip(core, addr, size) ==
  LET r == ValidateRange("CHIP", addr, size)
      s == StoreNBytesInRange("CHIP", chip, r.addr, r.size, r.addr, core, 0)
  IN /\ job.space = "CHIP" /\ Count
     /\ chip' = s.map
     /\ report' = Report("StoreChip", core, addr, size, s.bad)
     /\ UNCHANGED <<gm, atomicEnabled>>

(* The fast path first: no byte of the range is UNDEFINED.                 *)
LoadNBytes(space, map, addr, size) ==
  LET r == ValidateRange(space, addr, size)
  IN IF RangeHasStatus(space, map, r.addr, r.size, "UNDEFINED")
     THEN CountUndefined(space, map, r.addr, r.size, r.addr) ELSE 0

LoadGm(core, addr, size) ==
  /\ job.initCheck /\ job.space = "GM" /\ Count
  /\ report' = Report("LoadGm", core, addr, size, LoadNBytes("GM", gm, addr, size))
  /\ UNCHANGED <<gm, chip, atomicEnabled>>

LoadChip(core, addr, size) ==
  /\ job.initCheck /\ job.space = "CHIP" /\ Count
  /\ report' = Report("LoadChip", core, addr, size, LoadNBytes("CHIP", chip, addr, size))
  /\ UNCHANGED <<gm, chip, atomicEnabled>>

(* AsanFree on the shadow memory: CheckUnusedMem, then MakeMemUndefined.   *)
Free(addr, size) ==
  LET r == ValidateRange("GM", addr, size)
  IN /\ job.space = "GM" /\ addr + size <= GlobalMask /\ Count
     /\ gm' = GmSet(gm, r.addr, r.size, Blank)
     /\ report' = Report("Free", Host, addr, size, CountUndefined("GM", gm, addr, size, addr))
     /\ UNCHANGED <<chip, atomicEnabled>>

HandBack(addr, size) ==
  LET r == ValidateRange("GM", addr, size)
  IN /\ job.space = "GM" /\ addr + size <= GlobalMask /\ Count
     /\ gm' = ClearBlockId(gm, r.addr, r.size, r.addr)
     /\ report' = Report("HandBack", Host, addr, size, CountUndefined("GM", gm, addr, size, addr))
     /\ UNCHANGED <<chip, atomicEnabled>>

BlockFinish ==
  /\ job.space = "CHIP" /\ Count
  /\ chip' = MakePM(ChipSize, Blank)
  /\ report' = Report("BlockFinish", Host, 0, 0, 0)
  /\ UNCHANGED <<gm, atomicEnabled>>

SetAtomic(enabled) ==
  /\ job.space = "GM" /\ Count
  /\ atomicEnabled' = enabled
  /\ report' = Report("SetAtomic", Host, 0, 0, 0)
  /\ UNCHANGED <<gm, chip>>

Next ==
  \/ \E c \in CoreIds \cup {Host}, r \in job.ranges : StoreGm(c, r[1], r[2])
  \/ \E c \in CoreIds, r \in job.ranges :
       \/ StoreChip(c, r[1], r[2]) \/ LoadGm(c, r[1], r[2]) \/ LoadChip(c, r[1], r[2])
  \/ \E r \in job.ranges : Free(r[1], r[2]) \/ HandBack(r[1], r[2])
  \/ BlockFinish
  \/ \E b \in BOOLEAN : SetAtomic(b)

Spec == Init /\ [][Next]_vars
=============================================================================
