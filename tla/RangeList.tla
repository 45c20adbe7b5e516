------------------------------ MODULE RangeList ------------------------------
(***************************************************************************)
(* The range list of mdriver.c: the extents of the payloads that are       *)
(* allocated, against which every new payload is checked.                  *)
(*                                                                         *)
(* The C list is a set here.  Its order shows nowhere: add_range scans all *)
(* of it and remove_range takes out the one record that starts at lo (a    *)
(* second one would go with it here: see RangesMirrorLive of AnyPackage).  *)
(***************************************************************************)
EXTENDS Memlib

range_t == [lo : 0 .. WordMod - 1, hi : 0 .. WordMod - 1]

IS_ALIGNED(p) == p % ALIGNMENT = 0

\* char *hi = lo + size - 1
range(lo, size) == [lo |-> lo, hi |-> (lo + size - 1) % WordMod]

\* The heap's extent after the package's call, when the check is made.
WithinHeap(a) == mem_heap_lo <= a /\ a <= mem_heap_hi'

\* The overlap test: an end of r lies in p.
Overlaps(r, p) ==
  \/ p.lo <= r.lo /\ r.lo <= p.hi
  \/ p.lo <= r.hi /\ r.hi <= p.hi

\* add_range returns 1 and not 0.
Acceptable(ranges, r) ==
  /\ IS_ALIGNED(r.lo)
  /\ WithinHeap(r.lo)
  /\ WithinHeap(r.hi)
  /\ \A p \in ranges : ~Overlaps(r, p)

add_range(ranges, r) == ranges \cup {r}
remove_range_ByHighEnd(ranges, lo) == {p \in ranges : p.hi # lo}
remove_range(ranges, lo) == {p \in ranges : p.lo # lo}
clear_ranges == {}
=============================================================================
