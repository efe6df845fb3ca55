--------------------------- MODULE DiscreteBounds ---------------------------
(***************************************************************************)
(* DiscreteBounds: the sorted list of memory ranges [addrL, addrR), each   *)
(* with a permission, against which an access to global memory is checked. *)
(* Add inserts a range and melts it with its neighbours, Remove cuts a     *)
(* range out, SetPermission changes the permission of what is there.       *)
(***************************************************************************)
EXTENDS Integers, SequencesExt

CONSTANT Top               \* globalMemMask: no range ends behind it

VARIABLE ranges

Span(l, r, p) == [addrL |-> l, addrR |-> r, permission |-> p]

(* std::upper_bound: the place of the first range whose left, or right,    *)
(* end is behind addr.                                                     *)
FirstLeft(s, addr) == Len(SelectSeq(s, LAMBDA g : g.addrL <= addr)) + 1

FirstRight(s, addr) == Len(SelectSeq(s, LAMBDA g : g.addrR <= addr)) + 1

CheckOverflow(addr, size) == addr > Top \/ size > Top - addr

Upper(a, b) == IF a >= b THEN a ELSE b

(* The ranges behind the new one melt into it, up to the first that is out *)
(* of reach, or that reaches further with another permission: that one     *)
(* loses its front.                                                        *)
RECURSIVE Melt(_, _)
Melt(new, rest) ==
  IF rest = <<>> \/ Head(rest).addrL > new.addrR THEN <<new>> \o rest
  ELSE IF Head(rest).addrR > new.addrR /\ Head(rest).permission # new.permission
       THEN <<new, [Head(rest) EXCEPT !.addrL = new.addrR]>> \o Tail(rest)
       ELSE Melt([new EXCEPT !.addrR = Upper(@, Head(rest).addrR)], Tail(rest))

AddTo_apart(s, addr, size, perm) ==
  LET it == FirstLeft(s, addr)
      new == Span(addr, addr + size, perm)
      before == SubSeq(s, 1, it - 1)
      behind == SubSeq(s, it, Len(s))
  IN IF it > 1 /\ s[it - 1].addrR > addr
     THEN IF s[it - 1].permission = perm
          THEN Front(before) \o Melt([Last(before) EXCEPT !.addrR = addr + size], behind)
          ELSE Front(before) \o <<[Last(before) EXCEPT !.addrR = addr]>> \o Melt(new, behind)
     ELSE before \o Melt(new, behind)

AddTo(s, addr, size, perm) ==
  LET it == FirstLeft(s, addr)
      new == Span(addr, addr + size, perm)
      before == SubSeq(s, 1, it - 1)
      behind == SubSeq(s, it, Len(s))
  IN IF it > 1 /\ s[it - 1].addrR >= addr
     THEN IF s[it - 1].permission = perm
          THEN Front(before) \o Melt([Last(before) EXCEPT !.addrR = Upper(@, addr + size)], behind)
          ELSE Front(before) \o <<[Last(before) EXCEPT !.addrR = addr]>> \o Melt(new, behind)
     ELSE before \o Melt(new, behind)

(* What is covered by [addr, end) goes; the last range may keep its tail.  *)
RECURSIVE Erase(_, _)
Erase(rest, end) ==
  IF rest = <<>> \/ Head(rest).addrL >= end THEN rest
  ELSE IF Head(rest).addrR > end THEN <<[Head(rest) EXCEPT !.addrL = end]>> \o Tail(rest)
       ELSE Erase(Tail(rest), end)

RemoveFrom(s, addr, size) ==
  LET it == FirstRight(s, addr)
      left == IF it <= Len(s) /\ addr > s[it].addrL THEN <<[s[it] EXCEPT !.addrR = addr]>> ELSE <<>>
  IN SubSeq(s, 1, it - 1) \o left \o Erase(SubSeq(s, it, Len(s)), addr + size)

RECURSIVE Repaint(_, _, _)
Repaint(rest, end, perm) ==
  IF rest = <<>> \/ Head(rest).addrL >= end THEN rest
  ELSE IF Head(rest).addrR > end
       THEN <<Span(Head(rest).addrL, end, perm), [Head(rest) EXCEPT !.addrL = end]>> \o Tail(rest)
       ELSE <<[Head(rest) EXCEPT !.permission = perm]>> \o Repaint(Tail(rest), end, perm)

PaintIn(s, addr, size, perm) ==
  LET it == FirstRight(s, addr)
      split == it <= Len(s) /\ addr > s[it].addrL /\ perm # s[it].permission
      left == IF split THEN <<[s[it] EXCEPT !.addrR = addr]>> ELSE <<>>
      behind == IF split THEN <<[s[it] EXCEPT !.addrL = addr]>> \o SubSeq(s, it + 1, Len(s))
                         ELSE SubSeq(s, it, Len(s))
  IN SubSeq(s, 1, it - 1) \o left \o Repaint(behind, addr + size, perm)

-----------------------------------------------------------------------------
OverlapSize(g, addr, size) ==
  IF addr >= g.addrR \/ g.addrL >= g.addrR THEN 0
  ELSE IF addr < g.addrL
       THEN IF size > g.addrL - addr
            THEN Min({size - (g.addrL - addr), g.addrR - g.addrL}) ELSE 0
       ELSE Min({size, g.addrR - addr})

HasPermission(perm, access) == access \subseteq perm

Check(s, addr, size, access) ==
  LET hit == SelectSeq(s, LAMBDA g : g.addrR > addr /\ HasPermission(g.permission, access))
      it  == FirstRight(s, addr)
  IN IF size = 0 THEN IF it <= Len(s) /\ addr >= s[it].addrL THEN 0 ELSE 1
     ELSE FoldLeft(LAMBDA bad, g : bad - OverlapSize(g, addr, size), size, hit)

HasOverlap(s, addr, size) ==
  /\ size # 0
  /\ \E i \in DOMAIN s : s[i].addrL < addr + size /\ s[i].addrR > addr

-----------------------------------------------------------------------------
Add(addr, size, perm) ==
  ranges' = IF CheckOverflow(addr, size) THEN ranges ELSE AddTo(ranges, addr, size, perm)

RemoveRange(addr, size) ==
  ranges' = IF CheckOverflow(addr, size) THEN ranges ELSE RemoveFrom(ranges, addr, size)

SetPermission(addr, size, perm) ==
  ranges' = IF CheckOverflow(addr, size) THEN ranges ELSE PaintIn(ranges, addr, size, perm)
=============================================================================
