----------------------------- MODULE PrimaryMap -----------------------------
(***************************************************************************)
(* The tables behind the shadow memory: PM, one entry per block of         *)
(* SmBytes bytes, and GmPM, one PM per chunk of global memory.  A block is *)
(* either uniform (no secondary map, its common bits stand for every byte) *)
(* or has a secondary map with the bits of each byte.                      *)
(*                                                                         *)
(* Both classes find a block by masking the address first.  LocalMask and  *)
(* GlobalMask are 2^36 - 1 and 2^48 - 1 in the code, SmBytes is 64 KB; a   *)
(* chunk of GmPM has LocalMask bytes, one less than the mask can tell      *)
(* apart.                                                                  *)
(***************************************************************************)
EXTENDS Integers, FiniteSetsExt

CONSTANTS SmBytes,         \* divides LocalMask + 1
          LocalMask,       \* at most GlobalMask
          GlobalMask

Least(a, b) == IF a <= b THEN a ELSE b

-----------------------------------------------------------------------------
(* PM.  The common bits of a block with a secondary map are never read, so *)
(* a block keeps its bytes only; without a map they are all the same.      *)

Uniform(bits) == [sm |-> FALSE, bytes |-> [o \in 0..SmBytes-1 |-> bits]]

MakePM(byteNum, bits) ==
  [i \in 0..((byteNum + SmBytes - 1) \div SmBytes) - 1 |-> Uniform(bits)]

BlockIdx(addr) == (addr % (LocalMask + 1)) \div SmBytes

BlockOffset(addr) == (addr % (LocalMask + 1)) % SmBytes

PMGetBits(pm, addr) == pm[BlockIdx(addr)].bytes[BlockOffset(addr)]

(* blockIndexR is added up from the parts of addr and size: addr + size    *)
(* may lie behind the last address the mask leaves.                        *)
SetEnd(addr, size) ==
  BlockIdx(addr) + BlockIdx(size)
    + BlockIdx(BlockOffset(addr) + BlockOffset(size) + SmBytes - 1)

SetBlock(block, lo, addr, size, bits) ==
  IF addr <= lo /\ addr + size >= lo + SmBytes
  THEN Uniform(bits)
  ELSE [sm |-> TRUE,
        bytes |-> [o \in 0..SmBytes-1 |->
                     IF lo + o \in addr..(addr + size - 1) THEN bits ELSE block.bytes[o]]]

PMSet(pm, addr, size, bits) ==
  [i \in DOMAIN pm |->
     IF i \in BlockIdx(addr)..(SetEnd(addr, size) - 1)
     THEN SetBlock(pm[i], SmBytes * i, addr, size, bits)
     ELSE pm[i]]

(* How many bytes from addr on have the bits of addr, as far as the block  *)
(* and the range [base, base + size) go.  The code compares words first.   *)
PMUnifiedSizeAfter(pm, base, size, addr) ==
  LET block  == pm[BlockIdx(addr)]
      from   == BlockOffset(addr)
      common == Least(base + size - addr, SmBytes - from)
  IN IF ~block.sm THEN common
     ELSE Max({n \in 1..common : \A k \in 0..n-1 : block.bytes[from + k] = block.bytes[from]})

(* The range is cut at the blocks: the part of block bi, by its offsets.   *)
Part(bi, first, offset, size, blockSize) ==
  LET done == IF bi = first THEN 0 ELSE (bi - first) * blockSize - offset
      from == IF bi = first THEN offset ELSE 0
  IN from..(from + Least(size - done, blockSize - from) - 1)

PMRangeHasStatus(pm, addr, size, status) ==
  /\ size # 0
  /\ \E bi \in BlockIdx(addr)..(BlockIdx(addr + size + SmBytes - 1) - 1) :
       \E o \in Part(bi, BlockIdx(addr), BlockOffset(addr), size, SmBytes) :
          pm[bi].bytes[o].status = status

-----------------------------------------------------------------------------
(* GmPM.  A chunk whose PM was not made yet has the initial bits all over. *)

MakeGm(bits) ==
  [c \in 0..((GlobalMask + LocalMask - 1) \div LocalMask) - 1 |->
     [made |-> FALSE, pm |-> MakePM(LocalMask, bits)]]

ChunkIdx(addr) == (addr % (GlobalMask + 1)) \div LocalMask

ChunkOffset(addr) == (addr % (GlobalMask + 1)) % LocalMask

GmGetBits(gm, addr) == PMGetBits(gm[ChunkIdx(addr)].pm, ChunkOffset(addr))

GmSet(gm, addr, size, bits) ==
  [c \in DOMAIN gm |->
     IF c \in ChunkIdx(addr)..(ChunkIdx(addr + size + LocalMask - 1) - 1)
     THEN LET part == Part(c, ChunkIdx(addr), ChunkOffset(addr), size, LocalMask)
          IN [made |-> TRUE,
              pm   |-> PMSet(gm[c].pm, IF c = ChunkIdx(addr) THEN ChunkOffset(addr) ELSE 0,
                             Cardinality(part), bits)]
     ELSE gm[c]]

GmUnifiedSizeAfter_base(gm, base, size, addr) ==
  LET chunk == ChunkIdx(addr)
  IN PMUnifiedSizeAfter(gm[chunk].pm, ChunkOffset(base), size, ChunkOffset(addr))

(* The part of the range in addr's chunk takes the place of the range.     *)
GmUnifiedSizeAfter(gm, base, size, addr) ==
  LET chunk   == ChunkIdx(addr)
      crossed == chunk > ChunkIdx(base)
      newBase == IF crossed THEN chunk * LocalMask ELSE base
      curSize == IF crossed THEN Least(LocalMask, size - (newBase - base))
                            ELSE Least((chunk + 1) * LocalMask - base, size)
  IN PMUnifiedSizeAfter(gm[chunk].pm, ChunkOffset(newBase), curSize, ChunkOffset(addr))

GmRangeHasStatus(gm, addr, size, status) ==
  /\ size # 0
  /\ \E c \in ChunkIdx(addr)..(ChunkIdx(addr + size + LocalMask - 1) - 1) :
       LET part == Part(c, ChunkIdx(addr), ChunkOffset(addr), size, LocalMask)
       IN /\ part # {}
          /\ IF ~gm[c].made THEN gm[c].pm[0].bytes[0].status = status
             ELSE PMRangeHasStatus(gm[c].pm, Min(part), Cardinality(part), status)
=============================================================================
