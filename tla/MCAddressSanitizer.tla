------------------------- MODULE MCAddressSanitizer -------------------------
(***************************************************************************)
(* AddressSanitizer driven by a host program and a memory pool.  Mallocs   *)
(* return free memory; a heap lies in a runtime block and apart from other *)
(* heaps; a region lies in its heap and apart from its other regions.      *)
(* Frees may name any address, and a runtime block may be freed under its  *)
(* heap.  One job calls the bounds themselves, with any overlap, and       *)
(* others the shadow memory, on small tables.                              *)
(***************************************************************************)
EXTENDS AddressSanitizer

CONSTANTS Jobs,            \* where the records of a run come from
          MaxCount,        \* announcements of a heap
          MaxRanges,       \* ranges of the bounds in the job that calls them
          SmBytes, LocalMask, GlobalMask, IdBits, CoreIds, Host, ChipSize, OutOfBoundCheck

VARIABLES job,             \* sources: those of its records; top: its addresses; and
                           \* what ShadowMemory says of it
          bytes,           \* what each byte allows by the calls so far, or NoRange
          gm, chip, atomicEnabled, shadowReport, ops

shadowVars == <<gm, chip, atomicEnabled, shadowReport, ops>>

MCvars == <<vars, job, bytes, shadowVars>>

Shadow == INSTANCE ShadowMemory WITH report <- shadowReport

Addr == 1..job.top-1

Lens == 1..job.top-1

Bytes(addr, len) == addr..(addr + len - 1)

BytesOf(map) == UNION {Bytes(a, map[a]) : a \in DOMAIN map}

Heaps == DOMAIN mgr.mstx

HeapBytes(m) == Bytes(m, mgr.mstx[m].len)

RegionBytes(m) ==
  IF m \notin DOMAIN mgr.regions THEN {}
  ELSE UNION {Bytes(mgr.regions[m][i].addr, mgr.regions[m][i].len) : i \in DOMAIN mgr.regions[m]}

Apart(addr, len, S) == Bytes(addr, len) \cap S = {}

PoolHeap(addr, len) ==
  \E b \in DOMAIN mgr.rt :
    /\ Bytes(addr, len) \subseteq Bytes(b, mgr.rt[b])
    /\ Heaps \cap Bytes(b, mgr.rt[b]) = {}

Mallocs(addr, len) ==
  \/ /\ Apart(addr, len, BytesOf(mgr.rt) \cup BytesOf(bypass.rt)) /\ Malloc("RT", addr, len, 0)
  \/ \E src \in {"EXTRA", "MANUAL"} :
        /\ Apart(addr, len, BytesOf(mgr.dfx) \cup BytesOf(bypass.rt)) /\ Malloc(src, addr, len, 0)
  \/ /\ Apart(addr, len, BytesOf(mgr.rt) \cup BytesOf(bypass.rt) \cup BytesOf(mgr.dfx))
     /\ MallocBypass(addr, len)
  \/ PoolHeap(addr, len) /\ Malloc("MSTX_HEAP", addr, len, 0)
  \/ \E m \in Heaps : /\ Bytes(addr, len) \subseteq HeapBytes(m) \ RegionBytes(m)
                      /\ Malloc("MSTX_REGION", addr, len, m)

Frees(addr) ==
  \/ \E src \in {"RT", "EXTRA", "MANUAL", "MSTX_HEAP", "MSTX_REGION"} : Free(src, addr)
  \/ FreeBypass(addr)

Records ==
  /\ \/ \E addr \in Addr, len \in Lens : addr + len <= job.top /\ Mallocs(addr, len)
     \/ \E addr \in Addr : Frees(addr)
     \/ \E addr \in Addr, len \in Lens : SetPermission(addr, len, {"READ"})
     \/ \E addr \in Addr : HostAccess(addr, 1, {"WRITE"}) \/ KernelAccess(addr, 1, {"WRITE"})
  /\ report'.src \in job.sources
  /\ \A a \in DOMAIN heapCache' : heapCache'[a] <= MaxCount
  /\ UNCHANGED bytes

-----------------------------------------------------------------------------
NoRange == {"NONE"}

Perms == {{"READ"}, {"READ", "WRITE"}}

Fits(addr, size, a) == addr + size <= Top /\ addr <= a /\ a < addr + size

(* The whole of a range inside a wider one of another permission is left   *)
(* out: AddTo drops what lies behind it.                                   *)
Inside(addr, size, perm) ==
  \E i \in DOMAIN rtBounds : /\ rtBounds[i].permission # perm
                             /\ rtBounds[i].addrL <= addr /\ addr + size < rtBounds[i].addrR

BoundsAdd(addr, size, perm) ==
  /\ ~Inside(addr, size, perm)
  /\ Bounds!Add(addr, size, perm)
  /\ bytes' = [a \in DOMAIN bytes |-> IF Fits(addr, size, a) THEN perm ELSE bytes[a]]

BoundsRemove(addr, size) ==
  /\ Bounds!RemoveRange(addr, size)
  /\ bytes' = [a \in DOMAIN bytes |-> IF Fits(addr, size, a) THEN NoRange ELSE bytes[a]]

BoundsSetPermission(addr, size, perm) ==
  /\ Bounds!SetPermission(addr, size, perm)
  /\ bytes' = [a \in DOMAIN bytes |->
                 IF Fits(addr, size, a) /\ bytes[a] # NoRange THEN perm ELSE bytes[a]]

BoundsCalls ==
  /\ "BOUNDS" \in job.sources
  /\ \E addr \in 0..Top, size \in {0, 1, 3, Top + 1} :
       \/ \E p \in Perms : BoundsAdd(addr, size, p) \/ BoundsSetPermission(addr, size, p)
       \/ BoundsRemove(addr, size)
  /\ Len(rtBounds') <= MaxRanges
  /\ UNCHANGED <<mgr, bypass, dfxBounds, scope, heapCache, report>>

MCInit == Init /\ Shadow!Init /\ bytes = [a \in 0..Top-1 |-> NoRange]

MCNext ==
  \/ (Records \/ BoundsCalls) /\ UNCHANGED <<job, shadowVars>>
  \/ Shadow!Next /\ UNCHANGED <<vars, bytes>>

MCSpec == MCInit /\ [][MCNext]_MCvars

(* The reports are outcomes: no action reads them.                         *)
View == <<mgr, bypass, rtBounds, dfxBounds, scope, heapCache, job, bytes, gm, chip, atomicEnabled, ops>>

-----------------------------------------------------------------------------
Accessible(s) == {a \in Addr : \E i \in DOMAIN s : s[i].addrL <= a /\ a < s[i].addrR}

Hidden == UNION {HeapBytes(m) \ RegionBytes(m) : m \in Heaps}

(* The bounds AsanMalloc and AsanFree keep are those of the blocks, after  *)
(* any calls of the runtime, the pool and other processes, right or wrong: *)
(* in the runtime's scope its live blocks without what its pools hold      *)
(* back, in the dump scope its live blocks, in both the shared memory.     *)
BoundsAreBlocks ==
  "BOUNDS" \notin job.sources =>
    /\ Accessible(rtBounds) = (BytesOf(mgr.rt) \ Hidden) \cup BytesOf(bypass.rt)
    /\ Accessible(dfxBounds) = BytesOf(mgr.dfx) \cup BytesOf(bypass.dfx)

(* The scope the next kernel is checked in (ScopeDoAction,                 *)
(* AfterScopeSwitch): shared memory of other processes comes and goes      *)
(* without a change of it, the dump scope counts only while the dump       *)
(* interface has named memory, and while a pool has a heap the memory that *)
(* the dump interface names for an operator does not take the check away   *)
(* from the runtime's bounds.                                              *)
ScopeFitsMemory ==
  [][/\ report'.src = "BYPASS" => scope' = scope
     /\ scope' = "DFX" => mgr'.dfx # Nothing
     /\ mgr'.mstx # Nothing /\ report'.src = "EXTRA" => scope' = "RUNTIME"]_MCvars

(* After any calls of DiscreteBounds::Add, Remove and SetPermission, in    *)
(* any overlap but an Add inside a range of another permission, Check      *)
(* reports exactly the bytes of an access to which the calls left no such  *)
(* permission, across any number of ranges and beyond the last, and        *)
(* HasOverlap misses no byte in a range, so that the bounds of another     *)
(* device are asked only for memory this device knows nothing of.          *)
CheckExact ==
  "BOUNDS" \in job.sources =>
    \A addr \in 0..Top, size \in 1..Top+1, access \in (SUBSET {"READ", "WRITE"}) \ {{}} :
      /\ Bounds!Check(rtBounds, addr, size, access)
           = size - Cardinality({a \in 0..Top-1 : /\ addr <= a /\ a < addr + size
                                               /\ bytes[a] # NoRange /\ access \subseteq bytes[a]})
      /\ (\E a \in 0..Top-1 : addr <= a /\ a < addr + size /\ bytes[a] # NoRange)
           => Bounds!HasOverlap(rtBounds, addr, size)

-----------------------------------------------------------------------------
NoOwner == Shadow!DefaultCoreId

(* PM::RangeHasStatus wraps behind the last block of a chunk: the bytes    *)
(* there are the ones a read may overlook.                                 *)
Unseen(a) == Shadow!ChunkOffset(a) >= LocalMask + 1 - SmBytes

Flat == INSTANCE FlatShadow WITH
  GmSize     <- GlobalMask,
  gmStatus   <- [a \in 0..GlobalMask-1 |-> Shadow!GmGetBits(gm, a).status],
  owner      <- [a \in 0..GlobalMask-1 |-> Shadow!GmGetBits(gm, a).id],
  chipStatus <- [a \in 0..ChipSize-1 |-> Shadow!PMGetBits(chip, a).status],
  report     <- shadowReport

(* The two levels of tables, the uniform blocks and the walk in runs are   *)
(* invisible: every operation of ShadowMemory (StoreNBytes, LoadNBytes,    *)
(* MakeMemUndefined, ClearBlockId) does to each byte, and reports, what    *)
(* FlatShadow says of it.  A read reports no byte that was written, and    *)
(* overlooks an UNDEFINED one only next to the end of a chunk.  (This      *)
(* implies Flat!FlatSpec and is cheaper to check.)                         *)
IsFlat ==
  Flat!FlatInit /\ [][Flat!FlatNext /\ UNCHANGED job]_<<gm, chip, atomicEnabled, shadowReport>>

-----------------------------------------------------------------------------
Job(sources, top) ==
  [sources |-> sources, top |-> top, space |-> "NONE", initCheck |-> FALSE, ranges |-> {}, maxOps |-> 0]

Spans(from, to, sizes) == {<<a, n>> \in (from..to) \X sizes : a + n <= to + 1}

ShadowJob(space, initCheck, ranges, maxOps) ==
  [sources |-> {}, top |-> 1, space |-> space, initCheck |-> initCheck, ranges |-> ranges, maxOps |-> maxOps]

(* The last three jobs: stores, frees and hand-backs over two chunks; reads of  *)
(* what was written from the inside of a chunk into the next; on-chip      *)
(* memory to its last byte and beyond.                                     *)

MCJobs == {Job({"RT", "MSTX_HEAP", "MSTX_REGION"}, 4),
           Job({"RT", "EXTRA", "MANUAL", "MSTX_HEAP", "MSTX_REGION"}, 3),
           Job({"RT", "EXTRA", "BYPASS", "PERM"}, 4),
           Job({"BOUNDS"}, 5),
           ShadowJob("GM", FALSE, Spans(4, 9, {1, 3, 6}), 3),
           ShadowJob("GM", TRUE, Spans(0, 8, {1, 2, 4}), 2),
           ShadowJob("CHIP", TRUE, Spans(0, 6, {0, 1, 2, 3, 7}), 3)}
=============================================================================
