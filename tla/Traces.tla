-------------------------------- MODULE Traces --------------------------------
(* The traces of the handout as sequences of requests (traceop_t): what is    *)
(* allocated where, which the driver relies on and never computes.           *)
EXTENDS Integers, Sequences, FiniteSetsExt

\* The indices allocated after the first n requests of a trace, and the size
\* last asked for.
LiveAfter(trace, n) ==
  {trace[k].index : k \in
     {k \in 1 .. n : /\ trace[k].type # "FREE"
                     /\ \A l \in k + 1 .. n :
                          trace[l].index = trace[k].index => trace[l].type # "FREE"}}

SizeAfter(trace, n, i) ==
  trace[Max({k \in 1 .. n : trace[k].index = i /\ trace[k].type # "FREE"})].size

\* An index is allocated before it is used, and again only after it was freed.
Sound(trace) ==
  \A k \in 1 .. Len(trace) :
    (trace[k].type = "ALLOC") <=> (trace[k].index \notin LiveAfter(trace, k - 1))
=============================================================================
