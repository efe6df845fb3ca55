----------------------------- MODULE HeapBlocks -----------------------------
(***************************************************************************)
(* HeapBlockManager: which blocks of global memory are allocated.  A       *)
(* manager h has the blocks of the runtime (rt) and of the dump interface  *)
(* (dfx), by start address, the heaps a pool announced through mstx inside *)
(* runtime blocks (mstx), and the regions handed out of each heap.         *)
(*                                                                         *)
(* Add returns the manager and whether the bounds are to follow; Free the  *)
(* manager, whether the free is illegal, and the size that was freed.      *)
(***************************************************************************)
EXTENDS Integers, SequencesExt

Nothing == [a \in {} |-> 0]

NoBlocks == [rt |-> Nothing, dfx |-> Nothing, mstx |-> Nothing, regions |-> Nothing]

With(map, key, value) == [k \in DOMAIN map \cup {key} |-> IF k = key THEN value ELSE map[k]]

Without(map, key) == [k \in DOMAIN map \ {key} |-> map[k]]

(* A second malloc at the same address keeps the first block.              *)
Keep(map, addr, len) == IF addr \in DOMAIN map THEN map ELSE With(map, addr, len)

IsAddrInRange(addr, len, loAddr, loLen) == addr >= loAddr /\ addr + len <= loAddr + loLen

Added(h, ok) == [h |-> h, ok |-> ok]

Freed(h, illegal, size) == [h |-> h, illegal |-> illegal, size |-> size]

AddRtBlock(h, addr, len) == Added([h EXCEPT !.rt = Keep(@, addr, len)], TRUE)

AddDfxBlock(h, addr, len) == Added([h EXCEPT !.dfx = Keep(@, addr, len)], TRUE)

AddByPassBlock(h, addr, len) ==
  Added([h EXCEPT !.rt = Keep(@, addr, len), !.dfx = Keep(@, addr, len)], TRUE)

(* A heap outside all runtime blocks is kept as invalid.                   *)
AddMstxHeapBlock(h, addr, len) ==
  LET valid == \E b \in DOMAIN h.rt : IsAddrInRange(addr, len, b, h.rt[b])
  IN IF addr \in DOMAIN h.mstx THEN Added(h, FALSE)
     ELSE Added([h EXCEPT !.mstx = With(@, addr, [len |-> len, valid |-> valid])], valid)

(* Root 0 stands for a region without a heap.                              *)
AddMstxRegionBlock(h, addr, len, root) ==
  LET there == IF root \in DOMAIN h.regions THEN h.regions[root] ELSE <<>>
  IN IF root # 0 /\ root \notin DOMAIN h.mstx THEN Added(h, FALSE)
     ELSE Added([h EXCEPT !.regions = With(@, root, Append(there, [addr |-> addr, len |-> len]))],
                root = 0 \/ h.mstx[root].valid)

-----------------------------------------------------------------------------
Least(S) == CHOOSE a \in S : \A b \in S : a <= b

DeleteMstxInfo_kept(h, addr, len) == h

(* The mstx heap inside freed runtime memory goes, with its regions: the   *)
(* first one, by address.                                                  *)
DeleteMstxInfo(h, addr, len) ==
  LET inside == {m \in DOMAIN h.mstx : IsAddrInRange(m, h.mstx[m].len, addr, len)}
  IN IF inside = {} THEN h
     ELSE [h EXCEPT !.mstx = Without(@, Least(inside)), !.regions = Without(@, Least(inside))]

FreeRtBlock(h, addr) ==
  IF addr \notin DOMAIN h.rt THEN Freed(h, TRUE, 0)
  ELSE Freed([DeleteMstxInfo(h, addr, h.rt[addr]) EXCEPT !.rt = Without(@, addr)],
             FALSE, h.rt[addr])

FreeDfxBlock(h, addr) ==
  IF addr \notin DOMAIN h.dfx THEN Freed(h, TRUE, 0)
  ELSE Freed([h EXCEPT !.dfx = Without(@, addr)], FALSE, h.dfx[addr])

FreeByPassBlock(h, addr) ==
  IF addr \notin DOMAIN h.rt \cap DOMAIN h.dfx THEN Freed(h, TRUE, 0)
  ELSE Freed([h EXCEPT !.rt = Without(@, addr), !.dfx = Without(@, addr)], FALSE, h.rt[addr])

FreeMstxHeapBlock(h, addr) ==
  IF addr \notin DOMAIN h.mstx THEN Freed(h, TRUE, 0)
  ELSE Freed([h EXCEPT !.mstx = Without(@, addr), !.regions = Without(@, addr)],
             FALSE, h.mstx[addr].len)

(* The youngest region at that address, of the first heap that has one.    *)
FreeMstxRegionBlock(h, addr) ==
  LET at(root) == {i \in DOMAIN h.regions[root] : h.regions[root][i].addr = addr}
      roots == {root \in DOMAIN h.regions : at(root) # {}}
      root == Least(roots)
      last == CHOOSE i \in at(root) : \A j \in at(root) : j <= i
  IN IF roots = {} THEN Freed(h, TRUE, 0)
     ELSE Freed([h EXCEPT !.regions[root] = RemoveAt(@, last)], FALSE, h.regions[root][last].len)

(* GetHeapBlockSize: by the runtime's blocks first.                        *)
SizeOf(h, addr) ==
  IF addr \in DOMAIN h.rt THEN h.rt[addr]
  ELSE IF addr \in DOMAIN h.dfx THEN h.dfx[addr] ELSE 0
=============================================================================
