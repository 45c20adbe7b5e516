----------------------------- MODULE MC_MDriver -----------------------------
(* mdriver.c on every well-formed trace of up to MaxLen requests, and on     *)
(* every shorter one followed by a second trace from a short list.          *)
EXTENDS MDriver

CONSTANTS MaxLen, TraceSizes

Requests ==
  [type : {"ALLOC", "REALLOC"}, index : Ids, size : TraceSizes]
    \cup [type : {"FREE"}, index : Ids, size : {0}]

TracesUpTo(len) == {t \in UNION {[1 .. n -> Requests] : n \in 1 .. len} : WellFormed(t)}

a(i, n) == [type |-> "ALLOC", index |-> i, size |-> n]
r(i, n) == [type |-> "REALLOC", index |-> i, size |-> n]
f(i) == [type |-> "FREE", index |-> i, size |-> 0]

\* A trace that leaves blocks allocated, one that is too large for the heap
\* used here, one whose size overflows mm_malloc's int, one that fails the
\* assertion of add_range, and one that needs less than most traces before it.
SecondTraces ==
  { <<a(1, 1), a(0, 9), r(1, 2)>>,
    <<a(0, 9), r(0, 30), r(0, 31)>>,
    <<a(0, 125)>>,
    <<a(0, 1), f(0), a(0, 0)>>,
    <<a(1, 1)>> }

MCWorkloads ==
  {<<t>> : t \in TracesUpTo(MaxLen)}
    \cup {<<t, u>> : t \in TracesUpTo(MaxLen - 1), u \in SecondTraces}
=============================================================================
