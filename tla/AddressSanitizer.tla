-------------------------- MODULE AddressSanitizer --------------------------
(***************************************************************************)
(* AddressSanitizer of one device: how the allocations the host reports    *)
(* turn into the bounds the accesses are checked against.                  *)
(*                                                                         *)
(* There are two sets of bounds, one for the memory of the runtime and one *)
(* for the memory the dump interface (DFX) names, and a scope that says    *)
(* which one counts.  Every host record first moves the scope to that of   *)
(* its source, then acts on the heap blocks and the bounds, then may move  *)
(* the scope again.  A kernel access is checked in the scope as it is.     *)
(***************************************************************************)
EXTENDS HeapBlocks

CONSTANT Top               \* addresses 0..Top-1

VARIABLES mgr,             \* heapBlockManager_
          bypass,          \* heapBlockManagerBypass_
          rtBounds,        \* boundsCheckRuntime_, its GM ranges
          dfxBounds,       \* boundsCheckDfx_
          scope,           \* boundsCheckScope_
          heapCache,       \* mstxHeapCacheMap_: how often a heap was announced
          report           \* the outcome of the last operation

vars == <<mgr, bypass, rtBounds, dfxBounds, scope, heapCache, report>>

Bounds == INSTANCE DiscreteBounds WITH
  ranges <- rtBounds

DefaultPermission == {"READ", "WRITE"}

AddBounds(s, addr, size) ==
  IF Bounds!CheckOverflow(addr, size) THEN s ELSE Bounds!AddTo(s, addr, size, DefaultPermission)

RemoveBounds(s, addr, size) ==
  IF Bounds!CheckOverflow(addr, size) THEN s ELSE Bounds!RemoveFrom(s, addr, size)

MemInfoToScope(src) ==
  CASE src \in {"EXTRA", "MANUAL"} -> "DFX" [] src = "BYPASS" -> "BYPASS" [] OTHER -> "RUNTIME"

UpdateHeapInfo(type, src, addr) ==
  IF src # "MSTX_HEAP" THEN heapCache
  ELSE IF type = "MALLOC"
       THEN With(heapCache, addr, IF addr \in DOMAIN heapCache THEN heapCache[addr] + 1 ELSE 1)
  ELSE IF type = "FREE" /\ addr \in DOMAIN heapCache
       THEN IF heapCache[addr] <= 1 THEN Without(heapCache, addr)
            ELSE With(heapCache, addr, heapCache[addr] - 1)
  ELSE heapCache

AfterScopeSwitch_stay(type, src, cache) == MemInfoToScope(src)

(* The scope after a record.  Announced heaps win over the dump interface, *)
(* a free of its memory ends its scope, and shared memory leaves the scope *)
(* as it was.                                                              *)
AfterScopeSwitch(type, src, cache) ==
  IF src = "BYPASS" THEN scope
  ELSE IF \/ src = "EXTRA" /\ cache # Nothing
          \/ src \in {"EXTRA", "MANUAL"} /\ type = "FREE"
       THEN "RUNTIME"
  ELSE MemInfoToScope(src)

Switch(type, src, addr) ==
  /\ heapCache' = UpdateHeapInfo(type, src, addr)
  /\ scope' = AfterScopeSwitch(type, src, heapCache')

Report(op, src, addr, size, bad) == [op |-> op, src |-> src, addr |-> addr, size |-> size, bad |-> bad]

-----------------------------------------------------------------------------
AddHeapBlock(src, addr, len, root) ==
  CASE src = "RT"          -> AddRtBlock(mgr, addr, len)
    [] src \in {"EXTRA", "MANUAL"} -> AddDfxBlock(mgr, addr, len)
    [] src = "MSTX_HEAP"   -> AddMstxHeapBlock(mgr, addr, len)
    [] src = "MSTX_REGION" -> AddMstxRegionBlock(mgr, addr, len, root)

FreeHeapBlock(src, addr) ==
  CASE src = "RT"          -> FreeRtBlock(mgr, addr)
    [] src \in {"EXTRA", "MANUAL"} -> FreeDfxBlock(mgr, addr)
    [] src = "MSTX_HEAP"   -> FreeMstxHeapBlock(mgr, addr)
    [] src = "MSTX_REGION" -> FreeMstxRegionBlock(mgr, addr)

(* An announced heap is out of bounds until its regions are handed out.    *)
MallocBounds(s, src, addr, len) ==
  IF src = "MSTX_HEAP" THEN RemoveBounds(s, addr, len) ELSE AddBounds(s, addr, len)

FreeBounds(s, src, addr, size) ==
  IF src = "MSTX_HEAP" THEN AddBounds(s, addr, size) ELSE RemoveBounds(s, addr, size)

Init ==
  /\ mgr = NoBlocks /\ bypass = NoBlocks
  /\ rtBounds = <<>> /\ dfxBounds = <<>>
  /\ scope = "RUNTIME" /\ heapCache = Nothing
  /\ report = Report("none", "RT", 0, 0, 0)

Malloc(src, addr, len, root) ==
  LET add == AddHeapBlock(src, addr, len, root)
      dfx == MemInfoToScope(src) = "DFX"
  IN /\ src # "BYPASS"
     /\ Switch("MALLOC", src, addr)
     /\ mgr' = add.h
     /\ rtBounds'  = IF add.ok /\ ~dfx THEN MallocBounds(rtBounds, src, addr, len) ELSE rtBounds
     /\ dfxBounds' = IF add.ok /\ dfx THEN MallocBounds(dfxBounds, src, addr, len) ELSE dfxBounds
     /\ report' = Report("MALLOC", src, addr, len, 0)
     /\ UNCHANGED bypass

Free(src, addr) ==
  LET free == FreeHeapBlock(src, addr)
      dfx  == MemInfoToScope(src) = "DFX"
  IN /\ src # "BYPASS"
     /\ Switch("FREE", src, addr)
     /\ mgr' = free.h
     /\ rtBounds'  = IF dfx THEN rtBounds ELSE FreeBounds(rtBounds, src, addr, free.size)
     /\ dfxBounds' = IF dfx THEN FreeBounds(dfxBounds, src, addr, free.size) ELSE dfxBounds
     /\ report' = Report("FREE", src, addr, free.size, IF free.illegal THEN 1 ELSE 0)
     /\ UNCHANGED bypass

(* Memory shared by another process counts in both scopes.                 *)
MallocBypass(addr, len) ==
  /\ Switch("MALLOC", "BYPASS", addr)
  /\ bypass' = AddByPassBlock(bypass, addr, len).h
  /\ rtBounds' = AddBounds(rtBounds, addr, len)
  /\ dfxBounds' = AddBounds(dfxBounds, addr, len)
  /\ report' = Report("MALLOC", "BYPASS", addr, len, 0)
  /\ UNCHANGED mgr

(* The first pass must not touch the blocks, or the second finds no size.  *)
FreeBypass(addr) ==
  LET free == FreeByPassBlock(bypass, addr)
  IN /\ Switch("FREE", "BYPASS", addr)
     /\ bypass' = free.h
     /\ dfxBounds' = RemoveBounds(dfxBounds, addr, SizeOf(bypass, addr))
     /\ rtBounds' = RemoveBounds(rtBounds, addr, free.size)
     /\ report' = Report("FREE", "BYPASS", addr, free.size, IF free.illegal THEN 1 ELSE 0)
     /\ UNCHANGED mgr

(* The host gives memory another permission: in the bounds that count.     *)
SetPermission(addr, size, perm) ==
  LET painted(s) == IF Bounds!CheckOverflow(addr, size) THEN s
                    ELSE Bounds!PaintIn(s, addr, size, perm)
  IN /\ rtBounds'  = IF scope = "RUNTIME" THEN painted(rtBounds) ELSE rtBounds
     /\ dfxBounds' = IF scope = "DFX" THEN painted(dfxBounds) ELSE dfxBounds
     /\ report' = Report("PERMISSION", "PERM", addr, size, 0)
     /\ UNCHANGED <<mgr, bypass, scope, heapCache>>

(* A copy or a memset by the host, through the runtime.                    *)
HostAccess(addr, size, access) ==
  /\ Switch("STORE", "RT", addr)
  /\ report' = Report("HOST", "RT", addr, size, Bounds!Check(rtBounds, addr, size, access))
  /\ UNCHANGED <<mgr, bypass, rtBounds, dfxBounds>>

KernelAccess(addr, size, access) ==
  /\ report' = Report("KERNEL", "RT", addr, size,
        Bounds!Check(IF scope = "DFX" THEN dfxBounds ELSE rtBounds, addr, size, access))
  /\ UNCHANGED <<mgr, bypass, rtBounds, dfxBounds, scope, heapCache>>
=============================================================================
