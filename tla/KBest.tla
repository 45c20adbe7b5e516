-------------------------------- MODULE KBest --------------------------------
(***************************************************************************)
(* fcyc.c: the K-best scheme.  f is run again and again; values holds the  *)
(* kbest smallest running times seen, in order, and the measurement ends   *)
(* when the largest of them is within epsilon of the smallest, or after    *)
(* maxsamples runs.                                                        *)
(*                                                                         *)
(* Times are integers and epsilon is a quotient, so the comparison of      *)
(* has_converged is made by cross-multiplication and not in doubles.  What *)
(* the counters of clock.c answer is an input here; compensated times may  *)
(* be negative (module Clock).  A call of f always returns.                *)
(***************************************************************************)
EXTENDS Integers, Sequences, FiniteSets

CONSTANTS
  Ks, MaxSamples, Epsilons,    \* arguments of the setters: k at least 1
  CacheSizes, CacheBlocks,
  Counts, CompCounts,          \* answers of get_counter, get_comp_counter
  sizeof_int

ASSUME KBestAssumption ==
  /\ Ks \subseteq Nat \ {0} /\ MaxSamples \subseteq Int
  /\ \A e \in Epsilons : e \in Nat \X Nat /\ e[2] > 0
  /\ CacheSizes \subseteq Nat /\ CacheBlocks \subseteq Nat
  /\ Counts \subseteq Nat /\ CompCounts \subseteq Int
  /\ sizeof_int \in Nat \ {0}

VARIABLES
  kbest, maxsamples, epsilon, compensate, clear_cache, cache_bytes, cache_block,
  cache_buf,      \* bytes of the buffer, or NoBuf
  values,         \* the array while it is allocated, or NoValues
  samplecount,
  pc,             \* "idle", "sampling", "returning", "clearing", "exit1"
  result,         \* what fcyc returned last
  drawn           \* history: the samples of the measurement that is going on

params == <<kbest, maxsamples, epsilon, compensate, clear_cache, cache_block>>
cache == <<cache_bytes, cache_buf>>
sampler == <<values, samplecount>>
vars == <<params, cache, sampler, pc, result, drawn>>

NoBuf == -1
NoValues == <<>>

-----------------------------------------------------------------------------
(* The sampler *)

\* calloc
init_sampler ==
  /\ values' = [i \in 0 .. kbest - 1 |-> 0]
  /\ samplecount' = 0

\* The insertion sort: the value at pos moves down past every larger one.
Sift_OnePlace(vs, pos) ==
  IF pos > 0 /\ vs[pos - 1] > vs[pos]
  THEN [vs EXCEPT ![pos - 1] = vs[pos], ![pos] = vs[pos - 1]]
  ELSE vs
Sift(vs, pos) ==
  LET to == CHOOSE q \in 0 .. pos :
              /\ \A j \in q .. pos - 1 : vs[j] > vs[pos]
              /\ q > 0 => vs[q - 1] <= vs[pos]
  IN  [i \in DOMAIN vs |-> IF i = to THEN vs[pos]
                           ELSE IF to < i /\ i <= pos THEN vs[i - 1]
                           ELSE vs[i]]

add_sample(val) ==
  /\ values' = IF samplecount < kbest
               THEN Sift([values EXCEPT ![samplecount] = val], samplecount)
               ELSE IF val < values[kbest - 1]
               THEN Sift([values EXCEPT ![kbest - 1] = val], kbest - 1)
               ELSE values
  /\ samplecount' = samplecount + 1

has_converged_Early ==
  /\ (epsilon[2] + epsilon[1]) * values[0] >= epsilon[2] * values[kbest - 1]
has_converged ==
  /\ samplecount >= kbest
  /\ (epsilon[2] + epsilon[1]) * values[0] >= epsilon[2] * values[kbest - 1]

-----------------------------------------------------------------------------
(* fcyc *)

Begin ==
  /\ pc = "idle"
  /\ init_sampler
  /\ pc' = IF clear_cache THEN "clearing" ELSE "sampling"
  /\ drawn' = <<>>
  /\ UNCHANGED <<params, cache, result>>

\* clear: touch one int in every incr up to the end of the buffer.  With
\* incr = 0 the loop does not end.
incr_ScaledTwice == (cache_block \div sizeof_int) \div sizeof_int
incr == cache_block \div sizeof_int
ClearEnds == incr > 0 \/ cache_bytes \div sizeof_int = 0

clear ==
  /\ pc = "clearing" /\ ClearEnds
  /\ cache_buf' = IF cache_buf = NoBuf THEN cache_bytes ELSE cache_buf
  /\ pc' = "sampling"
  /\ UNCHANGED <<params, cache_bytes, sampler, result, drawn>>

\* malloc returns NULL: exit(1)
clear_fails ==
  /\ pc = "clearing" /\ cache_buf = NoBuf
  /\ pc' = "exit1"
  /\ UNCHANGED <<params, cache, sampler, result, drawn>>

LoopAgain == ~has_converged' /\ samplecount' < maxsamples

\* One round of the loop after clear: f between the counters, add_sample, and
\* the loop's test.
Sample(cyc) ==
  /\ pc = "sampling"
  /\ cyc \in IF compensate THEN CompCounts ELSE Counts
  /\ UNCHANGED <<params, cache, result>>
  /\ add_sample(cyc)
  /\ pc' = IF ~LoopAgain THEN "returning" ELSE IF clear_cache THEN "clearing" ELSE "sampling"
  /\ drawn' = Append(drawn, cyc)

Return ==
  /\ pc = "returning"
  /\ result' = values[0]
  /\ values' = NoValues
  /\ pc' = "idle" /\ drawn' = <<>>
  /\ UNCHANGED <<params, cache, samplecount>>

-----------------------------------------------------------------------------
(* The setters, called between measurements *)

set_fcyc_cache_size_KeepBuffer(bytes) ==
  /\ cache_bytes' = bytes
  /\ UNCHANGED cache_buf
set_fcyc_cache_size(bytes) ==
  IF bytes = cache_bytes THEN UNCHANGED cache
  ELSE cache_bytes' = bytes /\ cache_buf' = NoBuf

SetCacheSize ==
  /\ pc = "idle"
  /\ \E bytes \in CacheSizes : set_fcyc_cache_size(bytes)
  /\ UNCHANGED <<params, sampler, pc, result, drawn>>

\* The other setters assign and no more; one step may be any number of them.
SetParams ==
  /\ pc = "idle"
  /\ kbest' \in Ks /\ maxsamples' \in MaxSamples /\ epsilon' \in Epsilons
  /\ compensate' \in BOOLEAN /\ clear_cache' \in BOOLEAN
  /\ cache_block' \in CacheBlocks
  /\ UNCHANGED <<cache, sampler, pc, result, drawn>>

\* The process has ended.
Exited == pc = "exit1" /\ UNCHANGED vars

\* The defaults are among the arguments.
Init ==
  /\ kbest \in Ks /\ maxsamples \in MaxSamples /\ epsilon \in Epsilons
  /\ compensate = FALSE /\ clear_cache = FALSE
  /\ cache_bytes \in CacheSizes /\ cache_block \in CacheBlocks
  /\ cache_buf = NoBuf
  /\ values = NoValues /\ samplecount = 0
  /\ pc = "idle" /\ result = 0 /\ drawn = <<>>

Measure == clear \/ (\E cyc \in Counts \cup CompCounts : Sample(cyc)) \/ Return
Next == Begin \/ Measure \/ clear_fails \/ SetCacheSize \/ SetParams \/ Exited

Spec == Init /\ [][Next]_vars

\* A measurement that has begun goes on; malloc need not fail.
FairSpec == Spec /\ WF_vars(Measure)

-----------------------------------------------------------------------------
(* Properties *)

Measuring == pc \in {"clearing", "sampling", "returning"}

\* The samples of s that are smaller than v, and that are no larger.
Less(s, v) == {j \in DOMAIN s : s[j] < v}
NoMore(s, v) == {j \in DOMAIN s : s[j] <= v}

\* The first m entries of vs are the m smallest of s, in order.
Ranked(vs, m, s) ==
  \A i \in 0 .. m - 1 :
    /\ Cardinality(Less(s, vs[i])) <= i
    /\ i < Cardinality(NoMore(s, vs[i]))

\* The array holds the kbest smallest of all samples drawn so far, in order:
\* values[i] is one of them, with at most i of them smaller and more than i of
\* them no larger.  has_converged and the result read it as that.
ValuesAreKBest ==
  Measuring =>
    /\ samplecount = Len(drawn)
    /\ Ranked(values, IF samplecount < kbest THEN samplecount ELSE kbest, drawn)

\* Whenever clear runs over cache_bytes of the buffer, the buffer has that many:
\* a changed size never meets the buffer of the old one.
BufferFits == cache_buf \in {NoBuf, cache_bytes}

\* fcyc keeps the promise of BestOf: it stops exactly when it should, also when
\* maxsamples is less than kbest, and answers with the best sample of this
\* measurement.
Promise == INSTANCE BestOf WITH
  Samples <- Counts \cup CompCounts,
  scheme <- [k |-> kbest, maxsamples |-> maxsamples, epsilon |-> epsilon],
  busy <- Measuring, best <- result
KeepsPromise == Promise!Spec

\* A measurement comes to an end, converged or not (for cache blocks of at least
\* an int: see ClearEnds).
MeasurementEnds == Measuring ~> pc \in {"idle", "exit1"}
=============================================================================
