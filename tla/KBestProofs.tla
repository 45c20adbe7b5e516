----------------------------- MODULE KBestProofs -----------------------------
(***************************************************************************)
(* Theorems about fcyc.c as modelled by KBest: for every K, maxsamples,    *)
(* epsilon and every sequence of times, values holds the K smallest        *)
(* samples in order, and fcyc keeps the promise of module BestOf.  The     *)
(* same holds of fcyc in fsecs (Fsecs); and over ftimer (Timers) fsecs     *)
(* measures the time of its calls, for every length of a second and of the *)
(* interval timer.                                                         *)
(***************************************************************************)
EXTENDS Fsecs, FiniteSetTheorems, SequenceTheorems, WellFoundedInduction, TLAPS

-----------------------------------------------------------------------------
(* Counting samples *)

\* A nonempty set of natural numbers has a least element.
LEMMA NatMin ==
  ASSUME NEW T \in SUBSET Nat, T # {}
  PROVE  \E x \in T : \A y \in T : x <= y
<1> DEFINE R == {ss \in Nat \X Nat : ss[1] < ss[2]}
<1>1. IsWellFoundedOn(R, Nat)
  BY NatLessThanWellFounded DEF OpToRel
<1> HIDE DEF R
<1>2. PICK x \in T : \A y \in T : ~ (<<y, x>> \in R)
  BY <1>1, WFMin
<1>3. ASSUME NEW y \in T PROVE x <= y
  <2>1. ~(y < x)
    BY <1>2 DEF R
  <2> QED
    BY <2>1
<1> QED
  BY <1>2, <1>3

\* The counts are natural numbers, at most the number of samples.
LEMMA Counting ==
  ASSUME NEW s \in Seq(Int), NEW v \in Int
  PROVE  /\ IsFiniteSet(Less(s, v)) /\ IsFiniteSet(NoMore(s, v))
         /\ Cardinality(Less(s, v)) \in Nat /\ Cardinality(NoMore(s, v)) \in Nat
         /\ Cardinality(Less(s, v)) <= Len(s)
<1>0. Len(s) \in Nat
  OBVIOUS
<1>1. IsFiniteSet(1 .. Len(s)) /\ Cardinality(1 .. Len(s)) = Len(s)
  <2> DEFINE len == Len(s)
  <2> HIDE DEF len
  <2>1. IsFiniteSet(1 .. len) /\ Cardinality(1 .. len) = IF 1 > len THEN 0 ELSE len - 1 + 1
    BY <1>0, FS_Interval, SMTT(30) DEF len
  <2>2. Cardinality(1 .. len) = len
    BY <1>0, <2>1 DEF len
  <2> QED
    BY <2>1, <2>2 DEF len
<1>2. Less(s, v) \in SUBSET (1 .. Len(s)) /\ NoMore(s, v) \in SUBSET (1 .. Len(s))
  BY DEF Less, NoMore
<1>3. /\ IsFiniteSet(Less(s, v)) /\ IsFiniteSet(NoMore(s, v))
      /\ Cardinality(Less(s, v)) <= Cardinality(1 .. Len(s))
  BY <1>1, <1>2, FS_Subset
<1>4. Cardinality(Less(s, v)) \in Nat /\ Cardinality(NoMore(s, v)) \in Nat
  BY <1>3, FS_CardinalityType
<1> QED
  BY <1>1, <1>3, <1>4

\* The counts grow with the bound.
LEMMA CountMono ==
  ASSUME NEW s \in Seq(Int), NEW v \in Int, NEW w \in Int
  PROVE  /\ v <= w => /\ Cardinality(Less(s, v)) <= Cardinality(Less(s, w))
                      /\ Cardinality(NoMore(s, v)) <= Cardinality(NoMore(s, w))
         /\ v < w => Cardinality(NoMore(s, v)) <= Cardinality(Less(s, w))
<1>1. \A j \in DOMAIN s : s[j] \in Int
  OBVIOUS
<1>2. v <= w => Less(s, v) \in SUBSET Less(s, w) /\ NoMore(s, v) \in SUBSET NoMore(s, w)
  BY <1>1 DEF Less, NoMore
<1>3. v < w => NoMore(s, v) \in SUBSET Less(s, w)
  BY <1>1 DEF Less, NoMore
<1> QED
  BY <1>2, <1>3, Counting, FS_Subset

\* One more sample adds one to the counts of the bounds above it.
LEMMA CountAppend ==
  ASSUME NEW s \in Seq(Int), NEW v \in Int, NEW val \in Int
  PROVE  /\ Cardinality(Less(Append(s, val), v)) =
              Cardinality(Less(s, v)) + (IF val < v THEN 1 ELSE 0)
         /\ Cardinality(NoMore(Append(s, val), v)) =
              Cardinality(NoMore(s, v)) + (IF val <= v THEN 1 ELSE 0)
<1> DEFINE t == Append(s, val)
           len == Len(s) + 1
<1>1. /\ DOMAIN t = DOMAIN s \cup {len} /\ len \notin DOMAIN s
      /\ t[len] = val /\ \A j \in DOMAIN s : t[j] = s[j]
  OBVIOUS
<1> HIDE DEF t, len
<1>2. /\ Less(t, v) = IF val < v THEN Less(s, v) \cup {len} ELSE Less(s, v)
      /\ NoMore(t, v) = IF val <= v THEN NoMore(s, v) \cup {len} ELSE NoMore(s, v)
  BY <1>1 DEF Less, NoMore
<1>3. len \notin Less(s, v) /\ len \notin NoMore(s, v)
  BY <1>1 DEF Less, NoMore
<1>4. /\ Cardinality(Less(s, v) \cup {len}) = Cardinality(Less(s, v)) + 1
      /\ Cardinality(NoMore(s, v) \cup {len}) = Cardinality(NoMore(s, v)) + 1
  BY <1>3, Counting, FS_AddElement
<1>5. Cardinality(Less(s, v)) \in Nat /\ Cardinality(NoMore(s, v)) \in Nat
  BY Counting
<1> QED
  BY <1>2, <1>4, <1>5 DEF t

\* If the two counts of v differ, v is one of the samples.
LEMMA CountedIsDrawn ==
  ASSUME NEW s \in Seq(Int), NEW v \in Int,
         Cardinality(Less(s, v)) < Cardinality(NoMore(s, v))
  PROVE  \E j \in DOMAIN s : s[j] = v
<1>1. Less(s, v) # NoMore(s, v)
  BY Counting
<1>2. \A j \in DOMAIN s : s[j] \in Int
  OBVIOUS
<1> QED
  BY <1>1, <1>2 DEF Less, NoMore

-----------------------------------------------------------------------------
(* The insertion sort *)

Sorted(vs, m) == \A i, j \in 0 .. m - 1 : i <= j => vs[i] <= vs[j]

\* Sift moves the value at pos down to a place where it fits.
LEMMA SiftEffect ==
  ASSUME NEW len \in Nat, NEW vs \in [0 .. len - 1 -> Int], NEW pos \in 0 .. len - 1
  PROVE  \E to \in 0 .. pos :
           /\ \A j \in to .. pos - 1 : vs[j] > vs[pos]
           /\ to > 0 => vs[to - 1] <= vs[pos]
           /\ Sift(vs, pos) = [i \in 0 .. len - 1 |->
                IF i = to THEN vs[pos] ELSE IF to < i /\ i <= pos THEN vs[i - 1] ELSE vs[i]]
<1> DEFINE T == {q \in 0 .. pos : \A j \in q .. pos - 1 : vs[j] > vs[pos]}
           Fits(q) == /\ \A j \in q .. pos - 1 : vs[j] > vs[pos]
                      /\ q > 0 => vs[q - 1] <= vs[pos]
<1>1. pos \in T /\ T \in SUBSET Nat
  OBVIOUS
<1> HIDE DEF T
<1>2. PICK low \in T : \A y \in T : low <= y
  BY <1>1, NatMin
<1>3. low \in 0 .. pos /\ \A j \in low .. pos - 1 : vs[j] > vs[pos]
  BY <1>2 DEF T
<1>4. ASSUME low > 0, vs[low - 1] > vs[pos] PROVE FALSE
  <2>1. low - 1 \in 0 .. pos
    BY <1>3, <1>4
  <2>2. ASSUME NEW j \in low - 1 .. pos - 1 PROVE vs[j] > vs[pos]
    <3>1. j = low - 1 \/ j \in low .. pos - 1
      BY <1>3, <2>1
    <3> QED
      BY <1>3, <1>4, <3>1
  <2>3. low - 1 \in T
    BY <2>1, <2>2 DEF T
  <2> QED
    BY <1>2, <1>3, <2>3
<1>5. low > 0 => low - 1 \in 0 .. len - 1
  BY <1>3
<1>6. \E q \in 0 .. pos : Fits(q)
  BY <1>3, <1>4, <1>5
<1> DEFINE to == CHOOSE q \in 0 .. pos : Fits(q)
<1>7. to \in 0 .. pos /\ Fits(to)
  BY <1>6
<1>8. Sift(vs, pos) = [i \in 0 .. len - 1 |->
        IF i = to THEN vs[pos] ELSE IF to < i /\ i <= pos THEN vs[i - 1] ELSE vs[i]]
  BY DEF Sift
<1> QED
  BY <1>7, <1>8

\* Sifting a new sample into place keeps the entries the smallest samples, in
\* order, if there is room for it among them.
LEMMA Insert ==
  ASSUME NEW len \in Nat, NEW vs \in [0 .. len - 1 -> Int], NEW pos \in 0 .. len - 1,
         NEW s \in Seq(Int),
         Sorted(vs, pos), Ranked(vs, pos, s),
         Cardinality(Less(s, vs[pos])) <= pos
  PROVE  LET new == Sift(vs, pos)
         IN  /\ new \in [0 .. len - 1 -> Int]
             /\ Sorted(new, pos + 1)
             /\ Ranked(new, pos + 1, Append(s, vs[pos]))
<1> DEFINE val == vs[pos]
           new == Sift(vs, pos)
           t == Append(s, val)
<1>0. len \in Nat /\ pos \in Nat /\ pos < len /\ val \in Int /\ \A i \in 0 .. len - 1 : vs[i] \in Int
  OBVIOUS
<1>1. PICK to \in 0 .. pos :
        /\ \A j \in to .. pos - 1 : vs[j] > val
        /\ to > 0 => vs[to - 1] <= val
        /\ new = [i \in 0 .. len - 1 |->
             IF i = to THEN val ELSE IF to < i /\ i <= pos THEN vs[i - 1] ELSE vs[i]]
  BY SiftEffect, ZenonT(60)
<1>2. new \in [0 .. len - 1 -> Int]
  BY <1>0, <1>1
<1>3. \A i \in 0 .. to - 1 : i \in 0 .. pos - 1 /\ new[i] = vs[i] /\ vs[i] <= val
  <2>1. ASSUME NEW i \in 0 .. to - 1 PROVE i \in 0 .. pos - 1 /\ new[i] = vs[i] /\ vs[i] <= val
    <3>1. i \in 0 .. pos - 1 /\ to - 1 \in 0 .. pos - 1 /\ i <= to - 1
      BY <1>0
    <3>2. vs[i] <= vs[to - 1] /\ vs[i] \in Int /\ vs[to - 1] \in Int
      BY <1>0, <3>1 DEF Sorted
    <3> QED
      BY <1>0, <1>1, <3>1, <3>2
  <2> QED
    BY <2>1
<1>4. new[to] = val
  BY <1>0, <1>1
<1>5. \A i \in to + 1 .. pos : i - 1 \in 0 .. pos - 1 /\ new[i] = vs[i - 1] /\ vs[i - 1] > val
  BY <1>0, <1>1
<1> HIDE DEF new
<1>6. Sorted(new, pos + 1)
  <2> SUFFICES ASSUME NEW i \in 0 .. pos, NEW j \in 0 .. pos, i < j
               PROVE  new[i] <= new[j]
    BY <1>0, <1>2 DEF Sorted
  <2>1. CASE j < to
    BY <1>0, <1>3, <2>1 DEF Sorted
  <2>2. CASE j = to
    BY <1>0, <1>3, <1>4, <2>2
  <2>3. CASE j > to /\ i < to
    <3>1. new[i] <= val /\ val < new[j] /\ new[i] \in Int /\ new[j] \in Int
      BY <1>0, <1>3, <1>5, <2>3
    <3> QED
      BY <1>0, <3>1
  <2>4. CASE j > to /\ i = to
    BY <1>0, <1>4, <1>5, <2>4
  <2>5. CASE j > to /\ i > to
    <3>1. /\ i - 1 \in 0 .. pos - 1 /\ j - 1 \in 0 .. pos - 1 /\ i - 1 <= j - 1
          /\ new[i] = vs[i - 1] /\ new[j] = vs[j - 1]
      BY <1>0, <1>5, <2>5
    <3> QED
      BY <3>1 DEF Sorted
  <2> QED
    BY <2>1, <2>2, <2>3, <2>4, <2>5
<1>7. Ranked(new, pos + 1, t)
  <2> SUFFICES ASSUME NEW i \in 0 .. pos
               PROVE  Cardinality(Less(t, new[i])) <= i /\ i < Cardinality(NoMore(t, new[i]))
    BY <1>0 DEF Ranked
  <2>1. CASE i < to
    <3>1. i \in 0 .. pos - 1 /\ new[i] = vs[i] /\ vs[i] <= val /\ vs[i] \in Int
      BY <1>0, <1>3, <2>1
    <3>2. Cardinality(Less(s, vs[i])) <= i /\ i < Cardinality(NoMore(s, vs[i]))
      BY <3>1 DEF Ranked
    <3>3. Cardinality(Less(s, vs[i])) \in Nat /\ Cardinality(NoMore(s, vs[i])) \in Nat
      BY <3>1, Counting
    <3> QED
      BY <1>0, <3>1, <3>2, <3>3, CountAppend, SMTT(30)
  <2>2. CASE i = to
    <3>1. Cardinality(Less(s, val)) \in Nat /\ Cardinality(NoMore(s, val)) \in Nat
      BY <1>0, Counting
    <3>2. Cardinality(Less(s, val)) <= to
      <4>1. CASE to = pos
        BY <4>1
      <4>2. CASE to < pos
        <5>1. to \in 0 .. pos - 1 /\ vs[to] > val /\ vs[to] \in Int
          BY <1>0, <1>1, <4>2
        <5>2. Cardinality(Less(s, vs[to])) <= to /\ Cardinality(Less(s, vs[to])) \in Nat
          BY <5>1, Counting DEF Ranked
        <5> HIDE DEF val
        <5>3. Cardinality(Less(s, val)) <= Cardinality(Less(s, vs[to]))
          <6>1. val <= vs[to]
            BY <1>0, <5>1
          <6> QED
            BY <1>0, <5>1, <6>1, CountMono
        <5> QED
          BY <3>1, <5>2, <5>3
      <4> QED
        BY <4>1, <4>2
    <3>3. to <= Cardinality(NoMore(s, val))
      <4>1. CASE to = 0
        BY <3>1, <4>1
      <4>2. CASE to > 0
        <5>1. to - 1 \in 0 .. pos - 1 /\ vs[to - 1] <= val /\ vs[to - 1] \in Int
          BY <1>0, <1>1, <4>2
        <5>2. to - 1 < Cardinality(NoMore(s, vs[to - 1])) /\ Cardinality(NoMore(s, vs[to - 1])) \in Nat
          BY <5>1, Counting DEF Ranked
        <5>3. Cardinality(NoMore(s, vs[to - 1])) <= Cardinality(NoMore(s, val))
          BY <1>0, <5>1, CountMono
        <5> QED
          BY <3>1, <5>2, <5>3
      <4> QED
        BY <4>1, <4>2
    <3> QED
      BY <1>0, <1>4, <2>2, <3>1, <3>2, <3>3, CountAppend
  <2>3. CASE i > to
    <3>1. i - 1 \in 0 .. pos - 1 /\ new[i] = vs[i - 1] /\ vs[i - 1] > val /\ vs[i - 1] \in Int
      BY <1>0, <1>5, <2>3
    <3>2. /\ Cardinality(Less(s, vs[i - 1])) <= i - 1
          /\ i - 1 < Cardinality(NoMore(s, vs[i - 1]))
      BY <3>1 DEF Ranked
    <3>3. Cardinality(Less(s, vs[i - 1])) \in Nat /\ Cardinality(NoMore(s, vs[i - 1])) \in Nat
      BY <3>1, Counting
    <3>4. /\ Cardinality(Less(t, vs[i - 1])) = Cardinality(Less(s, vs[i - 1])) + 1
          /\ Cardinality(NoMore(t, vs[i - 1])) = Cardinality(NoMore(s, vs[i - 1])) + 1
      <4>1. val < vs[i - 1] /\ val <= vs[i - 1]
        BY <1>0, <3>1
      <4> QED
        BY <1>0, <3>1, <4>1, CountAppend
    <3> HIDE DEF t
    <3> QED
      BY <1>0, <3>1, <3>2, <3>3, <3>4, SMTT(30)
  <2> QED
    BY <2>1, <2>2, <2>3
<1> QED
  BY <1>2, <1>6, <1>7 DEF new

-----------------------------------------------------------------------------
(* The inductive invariant *)

Filled == IF samplecount < kbest THEN samplecount ELSE kbest

ParamsOK ==
  /\ kbest \in Nat \ {0} /\ maxsamples \in Int
  /\ epsilon \in Nat \X Nat /\ epsilon[2] > 0

\* Being in order is what the property leaves out: without it the insertion
\* sort, which looks at neighbours only, would say nothing about the rest.
SamplerOK ==
  /\ values \in [0 .. kbest - 1 -> Int]
  /\ samplecount = Len(drawn)
  /\ Sorted(values, Filled)
  /\ Ranked(values, Filled, drawn)

\* The test at the end of the loop has been made for the samples drawn so far.
LoopTest ==
  /\ pc \in {"clearing", "sampling"} =>
       drawn = <<>> \/ (~has_converged /\ samplecount < maxsamples)
  /\ pc = "returning" =>
       drawn # <<>> /\ (has_converged \/ samplecount >= maxsamples)

IInv ==
  /\ ParamsOK
  /\ pc \in {"idle", "clearing", "sampling", "returning", "exit1"}
  /\ drawn \in Seq(Int)
  /\ Measuring => SamplerOK
  /\ LoopTest

LEMMA InitIInv == Init => IInv
<1> SUFFICES ASSUME Init PROVE IInv
  OBVIOUS
<1>1. ParamsOK
  BY KBestAssumption DEF Init, ParamsOK
<1> QED
  BY <1>1 DEF Init, IInv, Measuring, LoopTest

\* add_sample keeps the K smallest samples, the new one included.
LEMMA AddSample ==
  ASSUME ParamsOK, drawn \in Seq(Int), SamplerOK, NEW cyc \in Int, add_sample(cyc),
         kbest' = kbest, drawn' = Append(drawn, cyc)
  PROVE  SamplerOK'
<1>0. kbest \in Nat /\ kbest > 0 /\ samplecount \in Nat
  BY DEF ParamsOK, SamplerOK
<1>1. samplecount' = samplecount + 1 /\ samplecount' = Len(drawn')
  BY <1>0 DEF add_sample, SamplerOK
<1> DEFINE new(pos) == Sift([values EXCEPT ![pos] = cyc], pos)
<1>2. ASSUME NEW pos \in 0 .. kbest - 1, pos <= Filled, Cardinality(Less(drawn, cyc)) <= pos,
             values' = new(pos), Filled' = pos + 1
      PROVE  SamplerOK'
  <2> DEFINE vs == [values EXCEPT ![pos] = cyc]
  <2>1. /\ vs \in [0 .. kbest - 1 -> Int] /\ vs[pos] = cyc
        /\ \A i \in 0 .. pos - 1 : vs[i] = values[i] /\ i \in 0 .. Filled - 1
    BY <1>0, <1>2, SMTT(30) DEF SamplerOK, Filled
  <2> HIDE DEF vs
  <2>2. Sorted(vs, pos) /\ Ranked(vs, pos, drawn)
    BY <2>1 DEF Sorted, Ranked, SamplerOK
  <2>3. /\ Sift(vs, pos) \in [0 .. kbest - 1 -> Int]
        /\ Sorted(Sift(vs, pos), pos + 1)
        /\ Ranked(Sift(vs, pos), pos + 1, Append(drawn, cyc))
    BY <1>0, <1>2, <2>1, <2>2, Insert
  <2>4. values' = Sift(vs, pos)
    BY <1>2 DEF vs
  <2> QED
    BY <1>1, <1>2, <2>3, <2>4 DEF SamplerOK
<1>3. CASE samplecount < kbest
  <2>1. Cardinality(Less(drawn, cyc)) <= samplecount
    BY Counting DEF SamplerOK
  <2>2. Filled = samplecount /\ Filled' = samplecount + 1
    BY <1>0, <1>1, <1>3 DEF Filled
  <2>3. values' = new(samplecount)
    BY <1>3 DEF add_sample
  <2>4. samplecount \in 0 .. kbest - 1 /\ samplecount <= Filled
    BY <1>0, <1>3, <2>2
  <2> HIDE DEF new
  <2> QED
    BY <1>2, <2>1, <2>2, <2>3, <2>4
<1>4. CASE samplecount >= kbest
  <2>0. Filled = kbest /\ Filled' = kbest
    BY <1>0, <1>1, <1>4 DEF Filled
  <2>1. /\ kbest - 1 \in 0 .. kbest - 1 /\ values[kbest - 1] \in Int
        /\ Cardinality(Less(drawn, values[kbest - 1])) <= kbest - 1
    BY <1>0, <2>0 DEF SamplerOK, Ranked
  <2>2. CASE cyc < values[kbest - 1]
    <3>1. values' = new(kbest - 1)
      BY <1>0, <1>4, <2>2 DEF add_sample
    <3>2. Cardinality(Less(drawn, cyc)) <= kbest - 1
      <4>1. Cardinality(Less(drawn, cyc)) <= Cardinality(Less(drawn, values[kbest - 1]))
        <5>1. cyc <= values[kbest - 1]
          BY <2>1, <2>2
        <5> QED
          BY <2>1, <5>1, CountMono
      <4>2. Cardinality(Less(drawn, cyc)) \in Nat /\ Cardinality(Less(drawn, values[kbest - 1])) \in Nat
        BY <2>1, Counting
      <4> QED
        BY <1>0, <2>1, <4>1, <4>2
    <3>3. kbest - 1 <= Filled /\ Filled' = (kbest - 1) + 1
      BY <1>0, <2>0
    <3> HIDE DEF new
    <3> QED
      BY <1>2, <2>1, <3>1, <3>2, <3>3
  <2>3. CASE ~(cyc < values[kbest - 1])
    <3>1. values' = values
      BY <1>0, <1>4, <2>3 DEF add_sample
    <3>2. ASSUME NEW i \in 0 .. kbest - 1
          PROVE  /\ Cardinality(Less(Append(drawn, cyc), values[i])) <= i
                 /\ i < Cardinality(NoMore(Append(drawn, cyc), values[i]))
      <4>1. values[i] \in Int /\ values[i] <= values[kbest - 1]
        BY <1>0, <2>0, <2>1, <3>2 DEF SamplerOK, Sorted
      <4>2. ~(cyc < values[i])
        BY <2>1, <2>3, <4>1
      <4>3. Cardinality(Less(drawn, values[i])) <= i /\ i < Cardinality(NoMore(drawn, values[i]))
        BY <2>0, <3>2 DEF SamplerOK, Ranked
      <4>4. Cardinality(Less(drawn, values[i])) \in Nat /\ Cardinality(NoMore(drawn, values[i])) \in Nat
        BY <4>1, Counting
      <4>5. /\ Cardinality(Less(Append(drawn, cyc), values[i])) = Cardinality(Less(drawn, values[i]))
            /\ \/ Cardinality(NoMore(Append(drawn, cyc), values[i])) = Cardinality(NoMore(drawn, values[i]))
               \/ Cardinality(NoMore(Append(drawn, cyc), values[i])) = Cardinality(NoMore(drawn, values[i])) + 1
        BY <4>1, <4>2, <4>4, CountAppend
      <4> QED
        BY <3>2, <4>3, <4>4, <4>5
    <3>3. Ranked(values, kbest, Append(drawn, cyc))
      BY <3>2 DEF Ranked
    <3> QED
      BY <1>1, <2>0, <3>1, <3>3 DEF SamplerOK
  <2> QED
    BY <2>2, <2>3
<1> QED
  BY <1>0, <1>3, <1>4

\* init_sampler starts with no samples, which is right whatever was there.
LEMMA BeginKeepsIInv == ASSUME IInv, Begin PROVE IInv'
<1>0. kbest \in Nat /\ kbest > 0
  BY DEF IInv, ParamsOK
<1>1. ParamsOK' /\ drawn' = <<>> /\ kbest' = kbest
  BY DEF IInv, ParamsOK, Begin, params
<1>2. samplecount' = 0 /\ values' \in [0 .. kbest - 1 -> Int]
  BY DEF Begin, init_sampler
<1>3. Filled' = 0
  BY <1>0, <1>1, <1>2 DEF Filled
<1>4. SamplerOK'
  BY <1>1, <1>2, <1>3 DEF SamplerOK, Sorted, Ranked
<1>5. pc' \in {"clearing", "sampling"}
  BY DEF Begin
<1> QED
  BY <1>1, <1>4, <1>5 DEF IInv, LoopTest

LEMMA SampleKeepsIInv == ASSUME IInv, NEW cyc \in Int, Sample(cyc) PROVE IInv'
<1>1. ParamsOK /\ drawn \in Seq(Int) /\ SamplerOK
  BY DEF IInv, Sample, Measuring
<1>2. ParamsOK' /\ kbest' = kbest /\ drawn' = Append(drawn, cyc)
  BY <1>1 DEF Sample, params, ParamsOK
<1>3. SamplerOK'
  BY <1>1, <1>2, AddSample DEF Sample
<1>4. drawn' \in Seq(Int) /\ drawn' # <<>>
  BY <1>1, <1>2
<1>5. samplecount' \in Int /\ maxsamples' \in Int
  BY <1>2, <1>3, <1>4 DEF SamplerOK, ParamsOK
<1>6. LoopTest' /\ pc' \in {"returning", "clearing", "sampling"}
  <2>1. CASE LoopAgain
    BY <2>1 DEF Sample, params, LoopAgain, LoopTest
  <2>2. CASE ~LoopAgain
    BY <1>4, <1>5, <2>2 DEF Sample, params, LoopAgain, LoopTest
  <2> QED
    BY <2>1, <2>2
<1> QED
  BY <1>2, <1>3, <1>4, <1>6 DEF IInv

LEMMA StepIInv == IInv /\ [Next]_vars => IInv'
<1> SUFFICES ASSUME IInv, [Next]_vars PROVE IInv'
  OBVIOUS
<1>1. CASE Begin
  BY <1>1, BeginKeepsIInv
<1>2. CASE clear
  BY <1>2 DEF IInv, clear, params, sampler, ParamsOK, Measuring, SamplerOK, Filled, LoopTest,
              has_converged
<1>3. CASE clear_fails
  BY <1>3 DEF IInv, clear_fails, params, sampler, ParamsOK, Measuring, LoopTest
<1>4. ASSUME NEW cyc \in Counts \cup CompCounts, Sample(cyc) PROVE IInv'
  BY <1>4, SampleKeepsIInv, KBestAssumption
<1>5. CASE Return
  BY <1>5 DEF IInv, Return, params, ParamsOK, Measuring, LoopTest
<1>6. CASE SetCacheSize
  BY <1>6 DEF IInv, SetCacheSize, params, ParamsOK, Measuring, LoopTest
<1>7. CASE SetParams
  <2>1. ParamsOK'
    BY <1>7, KBestAssumption DEF SetParams, ParamsOK
  <2> QED
    BY <1>7, <2>1 DEF IInv, SetParams, Measuring, LoopTest
<1>8. CASE UNCHANGED vars
  BY <1>8 DEF IInv, vars, params, sampler, ParamsOK, Measuring, SamplerOK, Filled, LoopTest,
              has_converged
<1> QED
  BY <1>1, <1>2, <1>3, <1>4, <1>5, <1>6, <1>7, <1>8 DEF Next, Measure, Exited

\* The inductive invariant of fcyc: its parameters, the sampler and the loop.
THEOREM Invariance == Spec => []IInv
<1> QED
  BY InitIInv, StepIInv, PTL DEF Spec

\* While fcyc measures, values is the list of the K smallest samples (fcyc.c,
\* add_sample), for every K and every sequence of times.
THEOREM KBestKept == Spec => []ValuesAreKBest
<1>1. IInv => ValuesAreKBest
  BY DEF IInv, SamplerOK, Filled, ValuesAreKBest
<1> QED
  BY <1>1, Invariance, PTL

-----------------------------------------------------------------------------
(* fcyc implements BestOf *)

\* Once there are samples, values[0] is the least of them, and has_converged
\* says the same of the array as BestOf says of all the samples.
LEMMA ConvergedIff ==
  ASSUME ParamsOK, drawn \in Seq(Int), drawn # <<>>, SamplerOK
  PROVE  /\ values[0] \in Promise!Drawn
         /\ \A x \in Promise!Drawn : values[0] <= x
         /\ has_converged <=> Promise!Converged
<1>0. /\ kbest \in Nat /\ kbest > 0 /\ Len(drawn) \in Nat /\ Len(drawn) > 0
      /\ samplecount = Len(drawn) /\ Filled \in Nat /\ Filled > 0 /\ Filled <= kbest
      /\ \A i \in 0 .. kbest - 1 : values[i] \in Int
      /\ \A j \in DOMAIN drawn : drawn[j] \in Int
  BY DEF ParamsOK, SamplerOK, Filled
<1>1. ASSUME NEW i \in 0 .. Filled - 1
      PROVE  /\ values[i] \in Int /\ values[i] \in Promise!Drawn
             /\ Cardinality(Less(drawn, values[i])) <= i
             /\ i < Cardinality(NoMore(drawn, values[i]))
             /\ Cardinality(Less(drawn, values[i])) \in Nat
             /\ Cardinality(NoMore(drawn, values[i])) \in Nat
  <2>1. /\ Cardinality(Less(drawn, values[i])) <= i
        /\ i < Cardinality(NoMore(drawn, values[i]))
        /\ values[i] \in Int
    BY <1>0, <1>1 DEF SamplerOK, Ranked
  <2>2. /\ Cardinality(Less(drawn, values[i])) \in Nat
        /\ Cardinality(NoMore(drawn, values[i])) \in Nat
    BY <2>1, Counting
  <2>3. \E j \in DOMAIN drawn : drawn[j] = values[i]
    <3>1. Cardinality(Less(drawn, values[i])) < Cardinality(NoMore(drawn, values[i]))
      BY <2>1, <2>2
    <3> QED
      BY <2>1, <3>1, CountedIsDrawn
  <2> QED
    BY <2>1, <2>2, <2>3 DEF Promise!Drawn
<1>2. 0 \in 0 .. Filled - 1 /\ Filled - 1 \in 0 .. Filled - 1
  BY <1>0
<1>3. ASSUME NEW x \in Promise!Drawn PROVE x \in Int /\ values[0] <= x
  <2>1. PICK j \in DOMAIN drawn : drawn[j] = x
    BY DEF Promise!Drawn
  <2>2. x \in Int /\ values[0] \in Int
    BY <1>0, <1>1, <1>2, <2>1
  <2>3. ASSUME x < values[0] PROVE FALSE
    <3>1. j \in Less(drawn, values[0])
      BY <2>1, <2>3 DEF Less
    <3>2. Cardinality(Less(drawn, values[0])) = 0
      BY <1>1, <1>2
    <3>3. Less(drawn, values[0]) = {}
      BY <2>2, <3>2, Counting, FS_EmptySet
    <3> QED
      BY <3>1, <3>3
  <2> QED
    BY <2>2, <2>3
<1>4. ASSUME samplecount >= kbest, NEW y \in Promise!Drawn
      PROVE  Promise!AmongKBest(y) <=> y <= values[kbest - 1]
  <2> DEFINE w == values[kbest - 1]
  <2>1. Filled = kbest /\ kbest - 1 \in 0 .. Filled - 1
    BY <1>0, <1>4 DEF Filled
  <2>2. /\ w \in Int /\ y \in Int
        /\ Cardinality(Less(drawn, w)) <= kbest - 1 /\ kbest - 1 < Cardinality(NoMore(drawn, w))
        /\ Cardinality(Less(drawn, w)) \in Nat /\ Cardinality(NoMore(drawn, w)) \in Nat
    BY <1>1, <1>3, <1>4, <2>1
  <2>3. Cardinality(Less(drawn, y)) \in Nat
    BY <2>2, Counting
  <2>4. Promise!AmongKBest(y) <=> Cardinality(Less(drawn, y)) < kbest
    BY DEF Promise!AmongKBest, Less, Promise!Cardinality, Cardinality
  <2> HIDE DEF w
  <2>5. CASE y <= w
    <3>1. Cardinality(Less(drawn, y)) <= Cardinality(Less(drawn, w))
      BY <2>2, <2>5, CountMono
    <3> QED
      BY <1>0, <2>2, <2>3, <2>4, <2>5, <3>1 DEF w
  <2>6. CASE w < y
    <3>1. Cardinality(NoMore(drawn, w)) <= Cardinality(Less(drawn, y))
      BY <2>2, <2>6, CountMono
    <3>2. ~(y <= w) /\ ~(Cardinality(Less(drawn, y)) < kbest)
      BY <1>0, <2>2, <2>3, <2>6, <3>1
    <3> QED
      BY <2>4, <3>2 DEF w
  <2> QED
    BY <2>2, <2>5, <2>6
<1> DEFINE den == epsilon[2]
           fac == epsilon[2] + epsilon[1]
<1>5. den \in Nat /\ den > 0 /\ fac \in Nat
  BY DEF ParamsOK
<1>6. CASE samplecount < kbest
  BY <1>0, <1>1, <1>2, <1>3, <1>6 DEF has_converged, Promise!Converged
<1>7. CASE samplecount >= kbest
  <2> DEFINE w == values[kbest - 1]
  <2>1. w \in Int /\ w \in Promise!Drawn /\ values[0] \in Int
    BY <1>0, <1>1, <1>2, <1>7 DEF Filled
  <2>2. has_converged <=> fac * values[0] >= den * w
    BY <1>7 DEF has_converged
  <2>3. Promise!Converged <=>
          \A x, y \in Promise!Drawn : y <= w =>
            fac * x >= den * y \/ \E z \in Promise!Drawn : z < x
    BY <1>0, <1>4, <1>7 DEF Promise!Converged
  <2> HIDE DEF w, den, fac
  <2>4. ASSUME Promise!Converged PROVE fac * values[0] >= den * w
    <3>1. values[0] \in Promise!Drawn /\ w <= w
      BY <1>1, <1>2, <2>1
    <3>2. ~ \E z \in Promise!Drawn : z < values[0]
      BY <1>3, <2>1
    <3> QED
      BY <2>1, <2>3, <2>4, <3>1, <3>2
  <2>5. ASSUME fac * values[0] >= den * w,
               NEW x \in Promise!Drawn, NEW y \in Promise!Drawn, y <= w
        PROVE  fac * x >= den * y \/ \E z \in Promise!Drawn : z < x
    <3>1. CASE x = values[0]
      <4>1. den * y <= den * w
        BY <1>3, <1>5, <2>1, <2>5
      <4>2. den * y \in Int /\ den * w \in Int /\ fac * values[0] \in Int
        BY <1>3, <1>5, <2>1
      <4> QED
        BY <2>5, <3>1, <4>1, <4>2
    <3>2. CASE x # values[0]
      <4>1. values[0] < x
        BY <1>3, <2>1, <3>2
      <4> QED
        BY <1>1, <1>2, <4>1
    <3> QED
      BY <3>1, <3>2
  <2> QED
    BY <1>1, <1>2, <1>3, <2>2, <2>3, <2>4, <2>5
<1> QED
  BY <1>0, <1>6, <1>7

\* The test at the end of the loop is the one BestOf asks for.
LEMMA LoopTestIsEnough ==
  ASSUME IInv
  PROVE  /\ pc \in {"clearing", "sampling"} => ~Promise!Enough
         /\ pc = "returning" => Promise!Enough
<1>1. ASSUME Measuring, drawn # <<>>
      PROVE  Promise!Enough <=> has_converged \/ samplecount >= maxsamples
  BY <1>1, ConvergedIff DEF IInv, SamplerOK, Promise!Enough
<1>2. ParamsOK /\ (Measuring => samplecount \in Int)
  BY DEF IInv, SamplerOK
<1>3. CASE pc \in {"clearing", "sampling"}
  <2>1. CASE drawn = <<>>
    BY <1>3, <2>1 DEF Promise!Enough
  <2>2. CASE drawn # <<>>
    BY <1>1, <1>2, <1>3, <2>2 DEF IInv, LoopTest, Measuring, ParamsOK
  <2> QED
    BY <2>1, <2>2
<1>4. CASE pc = "returning"
  BY <1>1, <1>4 DEF IInv, LoopTest, Measuring
<1> QED
  BY <1>3, <1>4

LEMMA InitImplements == Init => Promise!Init
  BY DEF Init, Promise!Init, Measuring

pvars == <<[k |-> kbest, maxsamples |-> maxsamples, epsilon |-> epsilon], drawn, Measuring, result>>

LEMMA StepImplements == IInv /\ [Next]_vars => [Promise!Next]_pvars
<1> SUFFICES ASSUME IInv, [Next]_vars PROVE [Promise!Next]_pvars
  OBVIOUS
<1>1. CASE Begin
  BY <1>1 DEF Begin, params, Measuring, Promise!Next, Promise!Start
<1>2. CASE clear
  BY <1>2 DEF clear, params, Measuring, pvars
<1>3. CASE clear_fails
  BY <1>3 DEF clear_fails, params, Measuring, Promise!Next, Promise!GiveUp
<1>4. ASSUME NEW cyc \in Counts \cup CompCounts, Sample(cyc) PROVE Promise!Next
  <2>1. Measuring /\ Measuring' /\ pc = "sampling"
    BY <1>4 DEF Sample, Measuring
  <2>2. ~Promise!Enough
    BY <2>1, LoopTestIsEnough
  <2>3. Promise!Draw(cyc)
    BY <1>4, <2>1, <2>2 DEF Sample, params, Promise!Draw
  <2> QED
    BY <2>3 DEF Promise!Next
<1>5. CASE Return
  <2>1. Measuring /\ ~Measuring' /\ pc = "returning"
    BY <1>5 DEF Return, Measuring
  <2>2. Promise!Enough /\ drawn # <<>>
    BY <2>1, LoopTestIsEnough DEF IInv, LoopTest
  <2>3. values[0] \in Promise!Drawn /\ \A x \in Promise!Drawn : values[0] <= x
    BY <2>1, <2>2, ConvergedIff DEF IInv
  <2>4. Promise!Answer
    BY <1>5, <2>1, <2>2, <2>3 DEF Return, params, Promise!Answer
  <2> QED
    BY <2>4 DEF Promise!Next
<1>6. CASE SetCacheSize
  BY <1>6 DEF SetCacheSize, params, Measuring, pvars
<1>7. CASE SetParams
  BY <1>7 DEF SetParams, Measuring, Promise!Next, Promise!Configure
<1>8. CASE UNCHANGED vars
  BY <1>8 DEF vars, params, Measuring, pvars
<1> QED
  BY <1>1, <1>2, <1>3, <1>4, <1>5, <1>6, <1>7, <1>8 DEF Next, Measure, Exited

\* fcyc implements the K-best scheme: it draws samples until the k smallest of
\* all of them agree within epsilon or there are maxsamples, never stops
\* earlier or later, and answers with the smallest.
THEOREM Implements == Spec => KeepsPromise
<1> QED
  BY InitImplements, StepImplements, Invariance, PTL DEF Spec, KeepsPromise, Promise!Spec, pvars

\* The buffer that clear runs over always has cache_bytes bytes: clear
\* allocates it so, and set_fcyc_cache_size drops it when the size changes.
THEOREM BufferMatches == Spec => []BufferFits
<1>1. Init => BufferFits
  BY DEF Init, BufferFits
<1>2. BufferFits /\ [Next]_vars => BufferFits'
  BY DEF BufferFits, Next, Measure, Begin, clear, clear_fails, Sample, Return, SetCacheSize,
         set_fcyc_cache_size, SetParams, Exited, vars, cache
<1> QED
  BY <1>1, <1>2, PTL DEF Spec

-----------------------------------------------------------------------------
(* fsecs over fcyc *)

\* Until init_fsecs has been called there is no measurement, so that it may set
\* the parameters of fcyc.
Unready == (~ready => pc = "idle") /\ cache_block \in CacheBlocks

LEMMA FsecsStepIsFcycStep ==
  ASSUME Unready, [FsecsNext]_fsecs_vars
  PROVE  [Next]_vars /\ Unready'
<1>1. CASE init_fsecs
  <2>1. CASE build = "FCYC"
    <3>1. SetParams /\ Unready'
      BY <1>1, <2>1, FsecsAssumption DEF init_fsecs, SetParams, Unready
    <3> QED
      BY <3>1 DEF Next
  <2>2. CASE build # "FCYC"
    BY <1>1, <2>2 DEF init_fsecs, Unready, vars, params
  <2> QED
    BY <2>1, <2>2
<1>2. CASE fsecs
  BY <1>2 DEF fsecs, Next, Unready, vars, params, Begin
<1>3. CASE Cycles
  BY <1>3 DEF Cycles, Next, Measure, Unready, clear, Sample, Return, params
<1>4. CASE FcycAlone /\ UNCHANGED <<timer_vars, Mhz, ready>>
  BY <1>4 DEF FcycAlone, Next, Unready, clear_fails, SetCacheSize, SetParams, Exited, vars, params
<1>5. CASE UNCHANGED <<vars, ready>>
  BY <1>5 DEF Unready, vars, params
<1> QED
  BY <1>1, <1>2, <1>3, <1>4, <1>5 DEF FsecsNext, Time, ClocksAlone, fsecs_vars

\* What holds of fcyc alone holds of it in fsecs.
THEOREM FsecsUsesFcyc == FsecsSpec => Spec
<1>1. FsecsInit => Init /\ Unready
  BY DEF FsecsInit, Init, Unready
<1> QED
  BY <1>1, FsecsStepIsFcycStep, PTL DEF FsecsSpec, Spec

\* So the K-best promise, the order of values and the size of the buffer hold in
\* fsecs as they do in fcyc.
THEOREM FsecsKeepsPromise == FsecsSpec => KeepsPromise /\ [](ValuesAreKBest /\ BufferFits)
  BY FsecsUsesFcyc, Implements, KBestKept, BufferMatches, PTL

-----------------------------------------------------------------------------
(* fsecs over ftimer *)

\* Division with remainder, of a number and of a difference
LEMMA DivMod ==
  ASSUME NEW x \in Nat, NEW u \in Nat \ {0}
  PROVE  x \div u \in Nat /\ x % u \in Nat /\ x = u * (x \div u) + (x % u)
  OBVIOUS

\* The difference of two timevals, with the borrow from the seconds, is the
\* difference of the times.
LEMMA DiffOfTimevals ==
  ASSUME NEW a \in Nat, NEW b \in Nat
  PROVE  diff(timeval(a), timeval(b)) = a - b
<1>1. PICK u \in Nat \ {0} : u = usec_per_sec
  BY FsecsAssumption
<1>2. PICK qa \in Nat, ra \in Nat : qa = a \div u /\ ra = a % u /\ a = u * qa + ra
  BY DivMod
<1>3. PICK qb \in Nat, rb \in Nat : qb = b \div u /\ rb = b % u /\ b = u * qb + rb
  BY DivMod
<1>4. diff(timeval(a), timeval(b)) = u * (qa - qb) + (ra - rb)
  BY <1>1, <1>2, <1>3 DEF diff, timeval
<1>5. u * (qa - qb) = u * qa - u * qb /\ u * qa \in Int /\ u * qb \in Int
  OBVIOUS
<1>6. a = u * qa + ra /\ b = u * qb + rb
  BY <1>2, <1>3
<1> QED
  BY <1>4, <1>5, <1>6

\* The interval timer, once set, and the time since the measurement began add up
\* to MAX_ETIME; between the readings, the time of the first one and the time
\* passed since add up to what the clock says.
TimersInv ==
  /\ day \in Nat /\ itimer \in Nat /\ first \in Nat /\ start \in Int /\ tmeas \in Int
  /\ passed \in Nat /\ since_begin \in Nat /\ set \in BOOLEAN
  /\ at \in {"idle", "start", "calls", "f", "killed"}
  /\ build # "ITIMER" => itimer = 0 /\ at # "killed"
  /\ itimer # 0 => first = MAX_ETIME /\ since_begin + itimer = MAX_ETIME
  /\ at = "killed" => since_begin = MAX_ETIME
  /\ build = "ITIMER" /\ at \in {"start", "calls", "f"} => itimer # 0
  /\ Between /\ build = "ITIMER" => first - itimer = start + passed
  /\ Between /\ build # "ITIMER" => start \in Nat /\ (~set => day = start + passed)
  /\ at = "idle" /\ ~set => tmeas = passed

LEMMA PassKeepsTimers == ASSUME TimersInv, Pass PROVE TimersInv'
  BY FsecsAssumption DEF TimersInv, Pass, Between

LEMMA SetDayKeepsTimers == ASSUME TimersInv, SetDay PROVE TimersInv'
  BY FsecsAssumption DEF TimersInv, SetDay, Between

LEMMA BeginKeepsTimers == ASSUME TimersInv, ftimer PROVE TimersInv'
  BY FsecsAssumption DEF TimersInv, ftimer, init_etime, Between

LEMMA MeasuringKeepsTimers == ASSUME TimersInv, Measuring_f PROVE TimersInv'
<1>0. get_etime = first - itimer
  BY DiffOfTimevals DEF get_etime, TimersInv
<1>1. CASE ReadStart
  <2>1. /\ at = "start" /\ at' = "calls" /\ passed' = 0 /\ ~set' /\ set' \in BOOLEAN
        /\ UNCHANGED <<build, day, itimer, first, tmeas, since_begin>>
    <3>1. set' = FALSE
      BY <1>1 DEF ReadStart
    <3> QED
      BY <1>1, <3>1, Zenon DEF ReadStart, clocks
  <2>2. CASE build = "ITIMER"
    <3>1. start' = first - itimer
      BY <1>0, <1>1, <2>2 DEF ReadStart
    <3> QED
      BY <2>1, <2>2, <3>1 DEF TimersInv, Between
  <2>3. CASE build # "ITIMER"
    <3>1. start' = day
      BY <1>1, <2>3 DEF ReadStart
    <3> QED
      BY <2>1, <2>3, <3>1 DEF TimersInv, Between
  <2> QED
    BY <2>2, <2>3
<1>2. CASE Call
  BY <1>2 DEF TimersInv, Call, clocks, watch, Between
<1>3. CASE CallReturns
  BY <1>3 DEF TimersInv, CallReturns, clocks, watch, Between
<1>4. CASE ReadEnd
  <2>1. /\ measured \in Int
        /\ ~set => measured = passed
    <3>1. CASE build = "ITIMER"
      BY <1>0, <1>4, <3>1 DEF TimersInv, ReadEnd, Between, measured
    <3>2. CASE build # "ITIMER"
      <4>1. start \in Nat /\ day \in Nat /\ passed \in Nat /\ (~set => day = start + passed)
        BY <1>4, <3>2 DEF TimersInv, ReadEnd, Between
      <4>2. measured = day - start
        BY <3>2, <4>1, DiffOfTimevals DEF measured
      <4> QED
        BY <4>1, <4>2
    <3> QED
      BY <3>1, <3>2
  <2> QED
    BY <1>4, <2>1 DEF TimersInv, ReadEnd, clocks, watch, Between
<1> QED
  BY <1>1, <1>2, <1>3, <1>4 DEF Measuring_f

LEMMA StepTimers == TimersInv /\ [FsecsNext]_fsecs_vars => TimersInv'
<1> SUFFICES ASSUME TimersInv, [FsecsNext]_fsecs_vars
             PROVE  TimersInv'
  OBVIOUS
<1>1. CASE UNCHANGED timer_vars
  BY <1>1 DEF TimersInv, timer_vars, clocks, watch, Between
<1> QED
  BY <1>1, PassKeepsTimers, SetDayKeepsTimers, BeginKeepsTimers, MeasuringKeepsTimers
     DEF FsecsNext, init_fsecs, fsecs, Cycles, Time, FcycAlone, ClocksAlone, Killed, fsecs_vars

\* ftimer measures the time of its calls, for every length of a second and of
\* the interval timer and wherever measurements fall, and the alarm ends the
\* program only MAX_ETIME after a measurement began (ftimer.c).
THEOREM TimersMeasureCalls == FsecsSpec => []MeasuresCalls
<1>1. FsecsInit => TimersInv
  <2> SUFFICES ASSUME FsecsInit
               PROVE  TimersInv
    OBVIOUS
  <2>1. /\ day = 0 /\ itimer = 0 /\ first = 0 /\ start = 0 /\ tmeas = 0 /\ at = "idle"
        /\ passed = 0 /\ since_begin = 0 /\ ~set /\ set \in BOOLEAN
    BY Zenon DEF FsecsInit, TimersInit
  <2>2. ~Between
    BY <2>1 DEF Between
  <2> QED
    BY <2>1, <2>2 DEF TimersInv
<1>2. TimersInv => MeasuresCalls
  BY DEF TimersInv, MeasuresCalls
<1> QED
  BY <1>1, <1>2, StepTimers, PTL DEF FsecsSpec
=============================================================================
