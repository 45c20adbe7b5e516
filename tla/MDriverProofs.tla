---------------------------- MODULE MDriverProofs ----------------------------
(***************************************************************************)
(* What the loop of main keeps true of the three passes over a trace, with *)
(* the mm.c of the handout: for every workload of well-formed traces, every *)
(* heap and any number of timed passes.                                    *)
(*                                                                         *)
(* The hypotheses are those of MMProofs, ALIGNMENT = 8 and RoomAbove, and   *)
(* for the verdicts also that no index fills its payload with a byte whose *)
(* sign bit is set (LowIndices): the data check fails on those.            *)
(*                                                                         *)
(* IInv says that a pass follows the layout of the trace, UInv that        *)
(* eval_mm_util counts along it, and VInv what the verdicts so far are.    *)
(*                                                                         *)
(* At the end the half of main that plays the same traces to libc first:   *)
(* LibcInv keeps the balance of its heap.                                  *)
(***************************************************************************)
EXTENDS Main, FiniteSetTheorems, WellFoundedInduction, TLAPS

USE DEF NULL

-----------------------------------------------------------------------------
(* Least numbers, and sums over finite sets *)

\* A nonempty set of natural numbers has a least element.
LEMMA Least ==
  ASSUME NEW T \in SUBSET Nat, T # {}
  PROVE  \E n \in T : \A m \in T : n <= m
<1> DEFINE R == {ss \in Nat \X Nat : ss[1] < ss[2]}
<1>1. IsWellFoundedOn(R, Nat)
  BY NatLessThanWellFounded DEF OpToRel
<1> HIDE DEF R
<1>2. PICK d \in T : \A y \in T : ~ (<<y, d>> \in R)
  BY <1>1, WFMin
<1>3. ASSUME NEW m \in T PROVE d <= m
  <2>1. ~(<<m, d>> \in R) /\ m \in Nat /\ d \in Nat
    BY <1>2
  <2>2. ~(m < d)
    BY <2>1 DEF R
  <2> QED BY <2>1, <2>2
<1> QED BY <1>3

Any(s) == CHOOSE x \in s : TRUE

\* g sums f over the subsets of S, as MapThenSumSet does: its recursion as a
\* predicate.
IsSum(g, f, S) ==
  g = [s \in SUBSET S |-> IF s = {} THEN 0 ELSE f[Any(s)] + g[s \ {Any(s)}]]

SumOf(f, S) == (CHOOSE g : IsSum(g, f, S))[S]

LEMMA AnyIn == \A s : s # {} => Any(s) \in s
  BY DEF Any

LEMMA Smaller ==
  ASSUME NEW S, IsFiniteSet(S), NEW x \in S
  PROVE  /\ IsFiniteSet(S \ {x}) /\ Cardinality(S) \in Nat /\ Cardinality(S \ {x}) \in Nat
         /\ Cardinality(S \ {x}) = Cardinality(S) - 1
  BY FS_RemoveElement, FS_CardinalityType

\* A sum of integers is an integer, and any element may be added last.
LEMMA SumFacts ==
  ASSUME NEW S, IsFiniteSet(S), NEW f, NEW g, IsSum(g, f, S), \A x \in S : f[x] \in Int
  PROVE  /\ g[{}] = 0
         /\ \A s \in SUBSET S : g[s] \in Int
         /\ \A s \in SUBSET S : \A x \in s : g[s] = f[x] + g[s \ {x}]
<1>1. \A s \in SUBSET S : g[s] = IF s = {} THEN 0 ELSE f[Any(s)] + g[s \ {Any(s)}]
  BY DEF IsSum
<1>2. g[{}] = 0
  BY <1>1
<1>3. \A s \in SUBSET S : IsFiniteSet(s) /\ Cardinality(s) \in Nat
  BY FS_Subset, FS_CardinalityType
<1>4. \A s \in SUBSET S : g[s] \in Int
  <2> DEFINE T == {Cardinality(s) : s \in {q \in SUBSET S : g[q] \notin Int}}
  <2>1. SUFFICES ASSUME T # {} PROVE FALSE
    OBVIOUS
  <2>2. T \in SUBSET Nat
    BY <1>3
  <2>3. PICK n \in T : \A m \in T : n <= m
    BY <2>1, <2>2, Least
  <2>4. PICK s \in SUBSET S : g[s] \notin Int /\ n = Cardinality(s)
    BY <2>3
  <2>5. s # {}
    BY <1>2, <2>4
  <2>6. PICK x \in s : x = Any(s)
    BY <2>5, AnyIn
  <2>7. s \ {x} \in SUBSET S /\ Cardinality(s \ {x}) = n - 1 /\ n \in Nat
    BY <1>3, <2>4, Smaller
  <2>8. g[s \ {x}] \in Int
    <3>1. SUFFICES ASSUME g[s \ {x}] \notin Int PROVE FALSE
      OBVIOUS
    <3>2. n - 1 \in T
      BY <2>7, <3>1
    <3> QED BY <2>3, <2>7, <3>2
  <2>9. g[s] = f[x] + g[s \ {x}]
    BY <1>1, <2>4, <2>5, <2>6
  <2> QED BY <2>4, <2>6, <2>8, <2>9
<1>5. \A s \in SUBSET S : \A x \in s : g[s] = f[x] + g[s \ {x}]
  <2> DEFINE T == {Cardinality(s) : s \in {q \in SUBSET S : \E x \in q : g[q] # f[x] + g[q \ {x}]}}
  <2>1. SUFFICES ASSUME T # {} PROVE FALSE
    OBVIOUS
  <2>2. T \in SUBSET Nat
    BY <1>3
  <2>3. PICK n \in T : \A m \in T : n <= m
    BY <2>1, <2>2, Least
  <2>4. PICK s \in SUBSET S : (\E x \in s : g[s] # f[x] + g[s \ {x}]) /\ n = Cardinality(s)
    BY <2>3
  <2>5. PICK x \in s : g[s] # f[x] + g[s \ {x}]
    BY <2>4
  <2>6. PICK y \in s : y = Any(s)
    BY <2>5, AnyIn
  <2>7. g[s] = f[y] + g[s \ {y}]
    BY <1>1, <2>6
  <2>8. x # y
    BY <2>5, <2>7
  <2>9. ASSUME NEW z \in s
        PROVE  \A w \in s \ {z} : g[s \ {z}] = f[w] + g[(s \ {z}) \ {w}]
    <3>1. s \ {z} \in SUBSET S /\ Cardinality(s \ {z}) = n - 1 /\ n \in Nat
      BY <1>3, <2>4, Smaller
    <3>2. n - 1 \notin T
      BY <2>3, <3>1
    <3> QED BY <3>1, <3>2
  <2>10. g[s \ {y}] = f[x] + g[(s \ {y}) \ {x}] /\ g[s \ {x}] = f[y] + g[(s \ {x}) \ {y}]
    BY <2>8, <2>9
  <2>11. PICK q \in SUBSET S : q = (s \ {y}) \ {x} /\ q = (s \ {x}) \ {y}
    OBVIOUS
  <2>12. PICK a \in Int, b \in Int, c \in Int, u \in Int, v \in Int, w \in Int :
           /\ a = f[x] /\ b = f[y] /\ c = g[q] /\ u = g[s] /\ v = g[s \ {y}] /\ w = g[s \ {x}]
    BY <1>4
  <2>13. u = b + v /\ v = a + c /\ w = b + c /\ u # a + w
    BY <2>5, <2>7, <2>10, <2>11, <2>12
  <2> QED BY <2>13
<1> QED BY <1>2, <1>4, <1>5

\* Two sums agree on what they both add up.
LEMMA SumUnique ==
  ASSUME NEW S, IsFiniteSet(S), NEW T, NEW f, NEW h, NEW g, NEW k,
         IsSum(g, f, S), IsSum(k, h, T), S \subseteq T, \A x \in S : f[x] = h[x]
  PROVE  g[S] = k[S]
<1>1. \A s \in SUBSET S : /\ g[s] = IF s = {} THEN 0 ELSE f[Any(s)] + g[s \ {Any(s)}]
                          /\ k[s] = IF s = {} THEN 0 ELSE h[Any(s)] + k[s \ {Any(s)}]
  BY DEF IsSum
<1>2. \A s \in SUBSET S : IsFiniteSet(s) /\ Cardinality(s) \in Nat
  BY FS_Subset, FS_CardinalityType
<1>3. \A s \in SUBSET S : g[s] = k[s]
  <2> DEFINE B == {Cardinality(s) : s \in {q \in SUBSET S : g[q] # k[q]}}
  <2>1. SUFFICES ASSUME B # {} PROVE FALSE
    OBVIOUS
  <2>2. B \in SUBSET Nat
    BY <1>2
  <2>3. PICK n \in B : \A m \in B : n <= m
    BY <2>1, <2>2, Least
  <2>4. PICK s \in SUBSET S : g[s] # k[s] /\ n = Cardinality(s)
    BY <2>3
  <2>5. s # {}
    BY <1>1, <2>4
  <2>6. PICK x \in s : x = Any(s)
    BY <2>5, AnyIn
  <2>7. s \ {x} \in SUBSET S /\ Cardinality(s \ {x}) = n - 1 /\ n \in Nat
    BY <1>2, <2>4, Smaller
  <2>8. g[s \ {x}] = k[s \ {x}]
    <3>1. n - 1 \notin B
      BY <2>3, <2>7
    <3> QED BY <2>7, <3>1
  <2>9. g[s] = f[x] + g[s \ {x}] /\ k[s] = h[x] + k[s \ {x}] /\ f[x] = h[x]
    BY <1>1, <2>5, <2>6
  <2> QED BY <2>4, <2>8, <2>9
<1> QED BY <1>3

\* The recursion has a solution.
LEMMA SumExists ==
  ASSUME NEW S, IsFiniteSet(S), NEW f
  PROVE  \E g : IsSum(g, f, S)
<1> DEFINE Upto(n) == {s \in SUBSET S : Cardinality(s) <= n}
           Good(g, n) == g = [s \in Upto(n) |-> IF s = {} THEN 0 ELSE f[Any(s)] + g[s \ {Any(s)}]]
           B == {n \in Nat : ~ \E g : Good(g, n)}
<1>1. \A s \in SUBSET S : IsFiniteSet(s) /\ Cardinality(s) \in Nat /\ Cardinality(s) <= Cardinality(S)
  BY FS_Subset, FS_CardinalityType
<1>2. B = {}
  <2>1. SUFFICES ASSUME B # {} PROVE FALSE
    OBVIOUS
  <2>2. PICK n \in B : \A m \in B : n <= m
    BY <2>1, Least
  <2>3. CASE n = 0
    <3>1. \A s \in Upto(0) : s = {}
      BY <1>1, FS_EmptySet
    <3> DEFINE g == [s \in Upto(0) |-> 0]
    <3>2. g = [s \in Upto(0) |-> IF s = {} THEN 0 ELSE f[Any(s)] + g[s \ {Any(s)}]]
      BY <3>1
    <3>3. Good(g, 0)
      BY <3>2
    <3> QED BY <2>2, <2>3, <3>3
  <2>4. CASE n # 0
    <3>1. n - 1 \in Nat /\ n - 1 \notin B
      <4>1. n \in Nat
        OBVIOUS
      <4> HIDE DEF B
      <4> QED BY <2>2, <2>4, <4>1
    <3>2. PICK h : Good(h, n - 1)
      BY <3>1
    <3> DEFINE g == [s \in Upto(n) |-> IF s = {} THEN 0 ELSE f[Any(s)] + h[s \ {Any(s)}]]
    <3>3. ASSUME NEW s \in Upto(n - 1) PROVE g[s] = h[s]
      <4>1. s \in Upto(n)
        BY <1>1
      <4>2. g[s] = IF s = {} THEN 0 ELSE f[Any(s)] + h[s \ {Any(s)}]
        BY <4>1
      <4>3. h[s] = IF s = {} THEN 0 ELSE f[Any(s)] + h[s \ {Any(s)}]
        BY <3>2
      <4> QED BY <4>2, <4>3
    <3>4. ASSUME NEW s \in Upto(n), s # {} PROVE s \ {Any(s)} \in Upto(n - 1)
      <4>1. Any(s) \in s
        BY <3>4, AnyIn
      <4>2. s \ {Any(s)} \in SUBSET S /\ Cardinality(s \ {Any(s)}) = Cardinality(s) - 1
        BY <1>1, <4>1, Smaller
      <4> QED BY <1>1, <4>2
    <3>5. \A s \in Upto(n) : g[s] = IF s = {} THEN 0 ELSE f[Any(s)] + g[s \ {Any(s)}]
      <4> SUFFICES ASSUME NEW s \in Upto(n)
                   PROVE g[s] = IF s = {} THEN 0 ELSE f[Any(s)] + g[s \ {Any(s)}]
        OBVIOUS
      <4>1. CASE s = {}
        BY <4>1
      <4>2. CASE s # {}
        <5>1. g[s \ {Any(s)}] = h[s \ {Any(s)}]
          BY <3>3, <3>4, <4>2
        <5>2. g[s] = f[Any(s)] + h[s \ {Any(s)}]
          BY <4>2
        <5> HIDE DEF g
        <5> QED BY <4>2, <5>1, <5>2
      <4> QED BY <4>1, <4>2
    <3>6. DOMAIN g = Upto(n) /\ g = [s \in Upto(n) |-> g[s]]
      OBVIOUS
    <3>7. Good(g, n)
      <4> HIDE DEF g
      <4> QED BY <3>5, <3>6
    <3> QED BY <2>2, <3>7
  <2> QED BY <2>3, <2>4
<1>3. PICK g : Good(g, Cardinality(S))
  <2>1. Cardinality(S) \in Nat
    BY FS_CardinalityType
  <2> QED BY <1>2, <2>1
<1>4. Upto(Cardinality(S)) = SUBSET S
  BY <1>1
<1>5. IsSum(g, f, S)
  BY <1>3, <1>4 DEF IsSum
<1> QED BY <1>5

LEMMA SumOfIs ==
  ASSUME NEW S, IsFiniteSet(S), NEW f, NEW g, IsSum(g, f, S)
  PROVE  SumOf(f, S) = g[S]
<1>1. IsSum(CHOOSE h : IsSum(h, f, S), f, S)
  BY Zenon
<1> QED BY <1>1, SumUnique DEF SumOf

LEMMA SumEmpty == \A f : SumOf(f, {}) = 0
<1> TAKE f
<1>1. PICK g : IsSum(g, f, {})
  BY SumExists, FS_EmptySet
<1>2. g[{}] = 0
  BY <1>1, FS_EmptySet, SumFacts
<1> QED BY <1>1, <1>2, SumOfIs, FS_EmptySet

LEMMA SumInt ==
  ASSUME NEW S, IsFiniteSet(S), NEW f, \A x \in S : f[x] \in Int
  PROVE  SumOf(f, S) \in Int
<1>1. PICK g : IsSum(g, f, S)
  BY SumExists
<1>2. g[S] \in Int
  BY <1>1, SumFacts
<1> QED BY <1>1, <1>2, SumOfIs

LEMMA SumSame ==
  ASSUME NEW S, IsFiniteSet(S), NEW f, NEW h, \A x \in S : f[x] = h[x]
  PROVE  SumOf(f, S) = SumOf(h, S)
<1>1. PICK g, k : IsSum(g, f, S) /\ IsSum(k, h, S)
  BY SumExists
<1>2. g[S] = k[S]
  BY <1>1, SumUnique
<1> QED BY <1>1, <1>2, SumOfIs

LEMMA SumInsert ==
  ASSUME NEW S, IsFiniteSet(S), NEW x, x \notin S, NEW f, \A y \in S \cup {x} : f[y] \in Int
  PROVE  /\ SumOf(f, S \cup {x}) = f[x] + SumOf(f, S)
         /\ SumOf(f, S) \in Int /\ SumOf(f, S \cup {x}) \in Int
<1> DEFINE T == S \cup {x}
<1>1. IsFiniteSet(T)
  BY FS_AddElement
<1>2. PICK g, k : IsSum(g, f, T) /\ IsSum(k, f, S)
  BY <1>1, SumExists
<1>3. T \in SUBSET T /\ S \in SUBSET T /\ x \in T /\ T \ {x} = S
  OBVIOUS
<1>4. g[T] = f[x] + g[S] /\ g[T] \in Int /\ g[S] \in Int
  <2>1. \A y \in T : f[y] \in Int
    OBVIOUS
  <2> HIDE DEF T
  <2>2. /\ \A s \in SUBSET T : g[s] \in Int
        /\ \A s \in SUBSET T : \A y \in s : g[s] = f[y] + g[s \ {y}]
    BY <1>1, <1>2, <2>1, SumFacts
  <2> QED BY <1>3, <2>2
<1>5. k[S] = g[S]
  BY <1>2, <1>3, SumUnique
<1>6. SumOf(f, T) = g[T] /\ SumOf(f, S) = k[S]
  BY <1>1, <1>2, SumOfIs
<1> QED BY <1>4, <1>5, <1>6

\* A sum of zeros
LEMMA SumZero ==
  ASSUME NEW S, IsFiniteSet(S), NEW f, \A x \in S : f[x] = 0
  PROVE  SumOf(f, S) = 0
<1> DEFINE g == [s \in SUBSET S |-> 0]
<1>1. \A s \in SUBSET S : g[s] = IF s = {} THEN 0 ELSE f[Any(s)] + g[s \ {Any(s)}]
  <2> SUFFICES ASSUME NEW s \in SUBSET S, s # {} PROVE 0 = f[Any(s)] + g[s \ {Any(s)}]
    OBVIOUS
  <2>1. f[Any(s)] = 0 /\ g[s \ {Any(s)}] = 0
    BY AnyIn
  <2> HIDE DEF g
  <2> QED BY <2>1
<1>2. g = [s \in SUBSET S |-> IF s = {} THEN 0 ELSE f[Any(s)] + g[s \ {Any(s)}]]
  BY <1>1
<1>3. g[S] = 0
  OBVIOUS
<1> HIDE DEF g
<1>4. IsSum(g, f, S)
  BY <1>2 DEF IsSum
<1> QED BY <1>3, <1>4, SumOfIs

\* Two sums that differ in one place
LEMMA SumChange ==
  ASSUME NEW S, IsFiniteSet(S), NEW x \in S, NEW f, NEW h,
         \A y \in S : f[y] \in Int /\ h[y] \in Int, \A y \in S \ {x} : f[y] = h[y]
  PROVE  SumOf(h, S) = SumOf(f, S) - f[x] + h[x] /\ SumOf(f, S) \in Int
<1>1. IsFiniteSet(S \ {x}) /\ (S \ {x}) \cup {x} = S /\ x \notin S \ {x}
  BY FS_RemoveElement
<1>2. SumOf(f, S) = f[x] + SumOf(f, S \ {x}) /\ SumOf(f, S \ {x}) \in Int
  BY <1>1, SumInsert
<1>3. SumOf(h, S) = h[x] + SumOf(h, S \ {x})
  BY <1>1, SumInsert
<1>4. SumOf(f, S \ {x}) = SumOf(h, S \ {x})
  BY <1>1, SumSame
<1> QED BY <1>2, <1>3, <1>4

-----------------------------------------------------------------------------
(* Traces *)

Asks(t, n, i) == {k \in 1 .. n : t[k].index = i /\ t[k].type # "FREE"}

\* The request that gave index i the block it has after n requests
Last(t, n, i) == Max(Asks(t, n, i))

\* A nonempty set of natural numbers below a bound has a greatest element.
LEMMA MaxExists ==
  ASSUME NEW n \in Nat, NEW S \in SUBSET (1 .. n), S # {}
  PROVE  Max(S) \in S /\ \A y \in S : Max(S) >= y
<1> DEFINE T == {n - x : x \in S}
<1>1. T \in SUBSET Nat /\ T # {}
  <2>1. \A x \in S : n - x \in Nat
    OBVIOUS
  <2> QED BY <2>1
<1> HIDE DEF T
<1>2. PICK d \in T : \A y \in T : d <= y
  BY <1>1, Least
<1>3. PICK x \in S : d = n - x
  BY DEF T
<1>4. ASSUME NEW y \in S PROVE x >= y
  <2>1. n - y \in T
    BY DEF T
  <2>2. n - x <= n - y
    BY <1>2, <1>3, <2>1
  <2>3. x \in 1 .. n /\ y \in 1 .. n
    OBVIOUS
  <2> QED BY <2>2, <2>3
<1> QED BY <1>4 DEF Max

LEMMA LastIsAsk ==
  ASSUME NEW t, NEW n \in Nat, NEW i \in LiveAfter(t, n)
  PROVE  /\ Last(t, n, i) \in 1 .. n
         /\ t[Last(t, n, i)].index = i /\ t[Last(t, n, i)].type # "FREE"
         /\ SizeAfter(t, n, i) = t[Last(t, n, i)].size
<1>1. PICK k \in 1 .. n : t[k].index = i /\ t[k].type # "FREE"
  BY DEF LiveAfter
<1>2. Asks(t, n, i) \in SUBSET (1 .. n) /\ Asks(t, n, i) # {}
  BY <1>1 DEF Asks
<1>3. Last(t, n, i) \in Asks(t, n, i)
  BY <1>2, MaxExists DEF Last
<1>4. SizeAfter(t, n, i) = t[Last(t, n, i)].size
  BY DEF SizeAfter, Last, Asks
<1> QED BY <1>3, <1>4 DEF Asks

\* The next request asks: its index is allocated then, by this request.
LEMMA AskNext ==
  ASSUME NEW t, NEW n \in Nat, t[n + 1].type # "FREE"
  PROVE  /\ LiveAfter(t, n + 1) = LiveAfter(t, n) \cup {t[n + 1].index}
         /\ Last(t, n + 1, t[n + 1].index) = n + 1
         /\ \A i \in LiveAfter(t, n) \ {t[n + 1].index} : Last(t, n + 1, i) = Last(t, n, i)
<1>1. ASSUME NEW i
      PROVE  i \in LiveAfter(t, n + 1) <=> i \in LiveAfter(t, n) \/ i = t[n + 1].index
  <2>1. ASSUME i \in LiveAfter(t, n + 1), i # t[n + 1].index PROVE i \in LiveAfter(t, n)
    <3>1. PICK k \in 1 .. n + 1 :
            /\ i = t[k].index /\ t[k].type # "FREE"
            /\ \A l \in k + 1 .. n + 1 : t[l].index = t[k].index => t[l].type # "FREE"
      BY <2>1 DEF LiveAfter
    <3>2. k \in 1 .. n /\ \A l \in k + 1 .. n : l \in k + 1 .. n + 1
      BY <2>1, <3>1
    <3> QED BY <3>1, <3>2 DEF LiveAfter
  <2>2. ASSUME i \in LiveAfter(t, n) PROVE i \in LiveAfter(t, n + 1)
    <3>1. PICK k \in 1 .. n :
            /\ i = t[k].index /\ t[k].type # "FREE"
            /\ \A l \in k + 1 .. n : t[l].index = t[k].index => t[l].type # "FREE"
      BY <2>2 DEF LiveAfter
    <3>2. k \in 1 .. n + 1 /\ \A l \in k + 1 .. n + 1 : l \in k + 1 .. n \/ l = n + 1
      BY <3>1
    <3> QED BY <3>1, <3>2 DEF LiveAfter
  <2>3. ASSUME i = t[n + 1].index PROVE i \in LiveAfter(t, n + 1)
    <3>1. n + 1 \in 1 .. n + 1 /\ (n + 1) + 1 .. n + 1 = {}
      OBVIOUS
    <3> QED BY <2>3, <3>1 DEF LiveAfter
  <2> QED BY <2>1, <2>2, <2>3
<1>2. Last(t, n + 1, t[n + 1].index) = n + 1
  <2> DEFINE A == Asks(t, n + 1, t[n + 1].index)
  <2>1. A \in SUBSET (1 .. n + 1) /\ n + 1 \in A
    BY DEF Asks
  <2> HIDE DEF A
  <2>2. Max(A) \in A /\ Max(A) >= n + 1
    <3>1. n + 1 \in Nat /\ A # {}
      BY <2>1
    <3> QED BY <2>1, <3>1, MaxExists
  <2> QED BY <2>1, <2>2 DEF Last, A
<1>3. ASSUME NEW i \in LiveAfter(t, n) \ {t[n + 1].index} PROVE Last(t, n + 1, i) = Last(t, n, i)
  <2>1. Asks(t, n + 1, i) = Asks(t, n, i)
    BY DEF Asks
  <2> QED BY <2>1 DEF Last
<1> QED BY <1>1, <1>2, <1>3

\* The next request frees: its index is allocated no more.
LEMMA FreeNext ==
  ASSUME NEW t, NEW n \in Nat, t[n + 1].type = "FREE"
  PROVE  /\ LiveAfter(t, n + 1) = LiveAfter(t, n) \ {t[n + 1].index}
         /\ \A i \in LiveAfter(t, n) : Last(t, n + 1, i) = Last(t, n, i)
<1>1. ASSUME NEW i
      PROVE  i \in LiveAfter(t, n + 1) <=> i \in LiveAfter(t, n) /\ i # t[n + 1].index
  <2>1. ASSUME i \in LiveAfter(t, n + 1) PROVE i \in LiveAfter(t, n) /\ i # t[n + 1].index
    <3>1. PICK k \in 1 .. n + 1 :
            /\ i = t[k].index /\ t[k].type # "FREE"
            /\ \A l \in k + 1 .. n + 1 : t[l].index = t[k].index => t[l].type # "FREE"
      BY <2>1 DEF LiveAfter
    <3>2. k # n + 1
      BY <3>1
    <3>3. k \in 1 .. n /\ n + 1 \in k + 1 .. n + 1 /\ \A l \in k + 1 .. n : l \in k + 1 .. n + 1
      BY <3>2
    <3> QED BY <3>1, <3>3 DEF LiveAfter
  <2>2. ASSUME i \in LiveAfter(t, n), i # t[n + 1].index PROVE i \in LiveAfter(t, n + 1)
    <3>1. PICK k \in 1 .. n :
            /\ i = t[k].index /\ t[k].type # "FREE"
            /\ \A l \in k + 1 .. n : t[l].index = t[k].index => t[l].type # "FREE"
      BY <2>2 DEF LiveAfter
    <3>2. k \in 1 .. n + 1 /\ \A l \in k + 1 .. n + 1 : l \in k + 1 .. n \/ l = n + 1
      BY <3>1
    <3> QED BY <2>2, <3>1, <3>2 DEF LiveAfter
  <2> QED BY <2>1, <2>2
<1>2. ASSUME NEW i \in LiveAfter(t, n) PROVE Last(t, n + 1, i) = Last(t, n, i)
  <2>1. Asks(t, n + 1, i) = Asks(t, n, i)
    BY DEF Asks
  <2> QED BY <2>1 DEF Last
<1> QED BY <1>1, <1>2

LEMMA NoneLive == \A t : LiveAfter(t, 0) = {}
  BY DEF LiveAfter

-----------------------------------------------------------------------------
(* The layout of a trace *)

\* b[k] is where mem_brk stands after k of n requests to a package that never
\* reuses memory: mm.c puts the blocks of a trace in the same places in every
\* pass over it.
Layout(t, b, n) ==
  /\ b \in [0 .. n -> Nat] /\ b[0] = mem_start_brk /\ b[n] <= mem_max_addr
  /\ \A k \in 1 .. n :
       IF t[k].type = "FREE" THEN b[k] = b[k - 1]
       ELSE b[k] = b[k - 1] + newsize(t[k].size) /\ b[k - 1] + 8 + t[k].size <= b[k]
  /\ \A k, l \in 0 .. n : k <= l => b[k] <= b[l]

Ptr(t, b, n, i) == b[Last(t, n, i) - 1] + 8

RangesOf(t, b, n) == {range(Ptr(t, b, n, i), SizeAfter(t, n, i)) : i \in LiveAfter(t, n)}

\* The driver holds the blocks of the layout, and their headers are intact.
Holds(t, b, n) ==
  \A i \in LiveAfter(t, n) : /\ blocks[i] = Ptr(t, b, n, i)
                             /\ mem[blocks[i] - 8] = SizeAfter(t, n, i)

\* Blocks lie in the heap and apart.
LEMMA LayoutApart ==
  ASSUME NEW t \in Seq(traceop_t), NEW b, NEW m \in 0 .. Len(t), NEW n \in 0 .. m,
         Layout(t, b, m), NEW i \in LiveAfter(t, n)
  PROVE  /\ Ptr(t, b, n, i) \in Nat /\ SizeAfter(t, n, i) \in Nat
         /\ mem_start_brk + 8 <= Ptr(t, b, n, i)
         /\ Ptr(t, b, n, i) + SizeAfter(t, n, i) <= b[n]
         /\ \A j \in LiveAfter(t, n) : i # j =>
              \/ Ptr(t, b, n, i) + SizeAfter(t, n, i) <= Ptr(t, b, n, j) - 8
              \/ Ptr(t, b, n, j) + SizeAfter(t, n, j) <= Ptr(t, b, n, i) - 8
<1>1. ASSUME NEW j \in LiveAfter(t, n)
      PROVE  /\ Last(t, n, j) \in 1 .. n /\ t[Last(t, n, j)].index = j
             /\ Ptr(t, b, n, j) = b[Last(t, n, j) - 1] + 8
             /\ b[Last(t, n, j) - 1] \in Nat /\ b[Last(t, n, j)] \in Nat
             /\ SizeAfter(t, n, j) \in Nat
             /\ b[Last(t, n, j) - 1] + 8 + SizeAfter(t, n, j) <= b[Last(t, n, j)]
  <2>1. /\ Last(t, n, j) \in 1 .. n
        /\ t[Last(t, n, j)].index = j /\ t[Last(t, n, j)].type # "FREE"
        /\ SizeAfter(t, n, j) = t[Last(t, n, j)].size
    BY LastIsAsk
  <2>2. PICK k \in 1 .. m : k = Last(t, n, j) /\ k <= n
    BY <2>1
  <2>3. k \in 1 .. Len(t) /\ k - 1 \in 0 .. m /\ k \in 0 .. m
    BY <2>2
  <2>4. t[k] \in traceop_t
    BY <2>3
  <2>5. t[k].size \in Nat
    BY <2>4, MemlibAssumption DEF traceop_t, MaxInt
  <2>6. b[k - 1] \in Nat /\ b[k] \in Nat
    BY <2>3 DEF Layout
  <2>7. b[k - 1] + 8 + t[k].size <= b[k]
    BY <2>1, <2>2 DEF Layout
  <2> QED BY <2>1, <2>2, <2>5, <2>6, <2>7 DEF Ptr
<1>2. ASSUME NEW k \in 0 .. n, NEW l \in 0 .. n, k <= l PROVE b[k] <= b[l]
  BY <1>2 DEF Layout
<1>3. mem_start_brk = b[0] /\ b[n] \in Nat /\ b[0] \in Nat
  BY DEF Layout
<1>4. b[0] <= b[Last(t, n, i) - 1] /\ b[Last(t, n, i)] <= b[n]
  <2>1. /\ 0 \in 0 .. n /\ Last(t, n, i) - 1 \in 0 .. n /\ 0 <= Last(t, n, i) - 1
        /\ Last(t, n, i) \in 0 .. n /\ n \in 0 .. n /\ Last(t, n, i) <= n
    BY <1>1
  <2> QED BY <1>2, <2>1
<1>5. ASSUME NEW j \in LiveAfter(t, n), NEW k \in LiveAfter(t, n), Last(t, n, j) < Last(t, n, k)
      PROVE  Ptr(t, b, n, j) + SizeAfter(t, n, j) <= Ptr(t, b, n, k) - 8
  <2>1. /\ Last(t, n, j) \in 0 .. n /\ Last(t, n, k) - 1 \in 0 .. n
        /\ Last(t, n, j) <= Last(t, n, k) - 1
    BY <1>1, <1>5
  <2>2. b[Last(t, n, j)] <= b[Last(t, n, k) - 1]
    BY <1>2, <2>1
  <2>3. PICK lo \in Nat, hi \in Nat, next \in Nat, z \in Nat :
          /\ lo = b[Last(t, n, j) - 1] /\ hi = b[Last(t, n, j)] /\ next = b[Last(t, n, k) - 1]
          /\ z = SizeAfter(t, n, j)
    BY <1>1
  <2>4. Ptr(t, b, n, j) = lo + 8 /\ Ptr(t, b, n, k) = next + 8
    BY <1>1, <2>3
  <2>5. lo + 8 + z <= hi /\ hi <= next
    BY <1>1, <2>2, <2>3
  <2>6. (lo + 8) + z <= (next + 8) - 8
    BY <2>5
  <2> QED BY <2>3, <2>4, <2>6, Zenon
<1>6. ASSUME NEW j \in LiveAfter(t, n), i # j
      PROVE  \/ Ptr(t, b, n, i) + SizeAfter(t, n, i) <= Ptr(t, b, n, j) - 8
             \/ Ptr(t, b, n, j) + SizeAfter(t, n, j) <= Ptr(t, b, n, i) - 8
  <2>1. Last(t, n, i) # Last(t, n, j) /\ Last(t, n, i) \in 1 .. n /\ Last(t, n, j) \in 1 .. n
    BY <1>1, <1>6
  <2>2. Last(t, n, i) < Last(t, n, j) \/ Last(t, n, j) < Last(t, n, i)
    BY <2>1
  <2> QED BY <1>5, <2>2
<1>7. /\ Ptr(t, b, n, i) \in Nat /\ SizeAfter(t, n, i) \in Nat
      /\ mem_start_brk + 8 <= Ptr(t, b, n, i)
      /\ Ptr(t, b, n, i) + SizeAfter(t, n, i) <= b[n]
  <2>1. PICK lo \in Nat, hi \in Nat, z \in Nat :
          /\ lo = b[Last(t, n, i) - 1] /\ hi = b[Last(t, n, i)] /\ z = SizeAfter(t, n, i)
    BY <1>1
  <2>2. Ptr(t, b, n, i) = lo + 8 /\ lo + 8 + z <= hi /\ b[0] <= lo /\ hi <= b[n]
    BY <1>1, <1>4, <2>1
  <2>3. PICK first \in Nat, last \in Nat : first = b[0] /\ last = b[n]
    BY <1>3
  <2>4. first + 8 <= lo + 8 /\ (lo + 8) + z <= last /\ lo + 8 \in Nat
    BY <2>2, <2>3, SMTT(30)
  <2> QED BY <1>3, <2>1, <2>2, <2>3, <2>4, Zenon
<1> QED BY <1>6, <1>7

\* A request that asks extends the layout if its block still fits.
LEMMA LayoutAsk ==
  ASSUME NEW t, NEW n \in Nat, NEW b, Layout(t, b, n), t[n + 1].type # "FREE",
         NEW to \in Nat, to = b[n] + newsize(t[n + 1].size), b[n] + 8 + t[n + 1].size <= to,
         t[n + 1].size \in Nat, to <= mem_max_addr
  PROVE  \E c : Layout(t, c, n + 1) /\ c[n + 1] = to /\ \A k \in 0 .. n : c[k] = b[k]
<1> DEFINE c == [k \in 0 .. n + 1 |-> IF k = n + 1 THEN to ELSE b[k]]
<1>1. /\ b \in [0 .. n -> Nat] /\ b[0] = mem_start_brk /\ b[n] \in Nat
      /\ \A k \in 1 .. n :
           IF t[k].type = "FREE" THEN b[k] = b[k - 1]
           ELSE b[k] = b[k - 1] + newsize(t[k].size) /\ b[k - 1] + 8 + t[k].size <= b[k]
      /\ \A k, l \in 0 .. n : k <= l => b[k] <= b[l]
  BY DEF Layout
<1>2. \A k \in 0 .. n : c[k] = b[k]
  OBVIOUS
<1>3. c[n + 1] = to
  OBVIOUS
<1>4. c \in [0 .. n + 1 -> Nat]
  BY <1>1
<1> HIDE DEF c
<1>5. ASSUME NEW k \in 1 .. n + 1
      PROVE  IF t[k].type = "FREE" THEN c[k] = c[k - 1]
             ELSE c[k] = c[k - 1] + newsize(t[k].size) /\ c[k - 1] + 8 + t[k].size <= c[k]
  <2>1. CASE k = n + 1
    <3>1. c[k - 1] = b[n] /\ c[k] = to
      BY <1>2, <1>3, <2>1
    <3> QED BY <2>1, <3>1
  <2>2. CASE k # n + 1
    <3>1. k \in 1 .. n /\ k - 1 \in 0 .. n /\ k \in 0 .. n
      BY <2>2
    <3>2. c[k] = b[k] /\ c[k - 1] = b[k - 1]
      BY <1>2, <3>1
    <3> QED BY <1>1, <3>1, <3>2
  <2> QED BY <2>1, <2>2
<1>6. ASSUME NEW k \in 0 .. n + 1, NEW l \in 0 .. n + 1, k <= l PROVE c[k] <= c[l]
  <2>1. CASE l # n + 1
    <3>1. k \in 0 .. n /\ l \in 0 .. n
      BY <1>6, <2>1
    <3>2. b[k] <= b[l]
      BY <1>1, <1>6, <3>1
    <3> QED BY <1>2, <3>1, <3>2
  <2>2. CASE l = n + 1 /\ k = n + 1
    BY <1>3, <2>2
  <2>3. CASE l = n + 1 /\ k # n + 1
    <3>1. k \in 0 .. n /\ n \in 0 .. n /\ k <= n
      BY <2>3
    <3>2. PICK x \in Nat, y \in Nat : x = b[k] /\ y = b[n] /\ x <= y
      BY <1>1, <3>1
    <3>3. y <= to
      BY <3>2
    <3>4. c[k] = x /\ c[l] = to
      BY <1>2, <1>3, <2>3, <3>1, <3>2
    <3>5. x <= to
      BY <3>2, <3>3
    <3> QED BY <3>4, <3>5, Zenon
  <2> QED BY <2>1, <2>2, <2>3
<1>7. c[0] = mem_start_brk
  BY <1>1, <1>2
<1>8. Layout(t, c, n + 1)
  BY <1>3, <1>4, <1>5, <1>6, <1>7 DEF Layout
<1> QED BY <1>2, <1>3, <1>8

\* A free leaves mem_brk where it is.
LEMMA LayoutFree ==
  ASSUME NEW t, NEW n \in Nat, NEW b, Layout(t, b, n), t[n + 1].type = "FREE"
  PROVE  \E c : Layout(t, c, n + 1) /\ c[n + 1] = b[n] /\ \A k \in 0 .. n : c[k] = b[k]
<1> DEFINE c == [k \in 0 .. n + 1 |-> IF k = n + 1 THEN b[n] ELSE b[k]]
<1>1. /\ b \in [0 .. n -> Nat] /\ b[0] = mem_start_brk /\ b[n] \in Nat /\ b[n] <= mem_max_addr
      /\ \A k \in 1 .. n :
           IF t[k].type = "FREE" THEN b[k] = b[k - 1]
           ELSE b[k] = b[k - 1] + newsize(t[k].size) /\ b[k - 1] + 8 + t[k].size <= b[k]
      /\ \A k, l \in 0 .. n : k <= l => b[k] <= b[l]
  BY SMTT(30) DEF Layout
<1>2. \A k \in 0 .. n : c[k] = b[k]
  OBVIOUS
<1>3. c[n + 1] = b[n]
  OBVIOUS
<1>4. c \in [0 .. n + 1 -> Nat]
  BY <1>1
<1> HIDE DEF c
<1>5. ASSUME NEW k \in 1 .. n + 1
      PROVE  IF t[k].type = "FREE" THEN c[k] = c[k - 1]
             ELSE c[k] = c[k - 1] + newsize(t[k].size) /\ c[k - 1] + 8 + t[k].size <= c[k]
  <2>1. CASE k = n + 1
    BY <1>2, <1>3, <2>1
  <2>2. CASE k # n + 1
    <3>1. k \in 1 .. n /\ k - 1 \in 0 .. n /\ k \in 0 .. n
      BY <2>2
    <3>2. c[k] = b[k] /\ c[k - 1] = b[k - 1]
      BY <1>2, <3>1
    <3> QED BY <1>1, <3>1, <3>2
  <2> QED BY <2>1, <2>2
<1>6. ASSUME NEW k \in 0 .. n + 1, NEW l \in 0 .. n + 1, k <= l PROVE c[k] <= c[l]
  <2>1. PICK x \in 0 .. n : c[k] = b[x] /\ (x = k \/ (x = n /\ k = n + 1))
    BY <1>2, <1>3
  <2>2. PICK y \in 0 .. n : c[l] = b[y] /\ (y = l \/ (y = n /\ l = n + 1))
    BY <1>2, <1>3
  <2>3. x <= y
    BY <1>6, <2>1, <2>2
  <2> QED BY <1>1, <2>1, <2>2, <2>3
<1>7. c[0] = mem_start_brk
  BY <1>1, <1>2
<1>8. Layout(t, c, n + 1)
  BY <1>1, <1>3, <1>4, <1>5, <1>6, <1>7 DEF Layout
<1> QED BY <1>2, <1>3, <1>8

\* Holds and RangesOf look at a layout as far as the trace has come.
LEMMA LayoutPrefix ==
  ASSUME NEW t, NEW n \in Nat, NEW b, NEW c, \A k \in 0 .. n : c[k] = b[k]
  PROVE  /\ \A i \in LiveAfter(t, n) : Ptr(t, c, n, i) = Ptr(t, b, n, i)
         /\ Holds(t, c, n) <=> Holds(t, b, n)
         /\ RangesOf(t, c, n) = RangesOf(t, b, n)
<1>1. ASSUME NEW i \in LiveAfter(t, n) PROVE Ptr(t, c, n, i) = Ptr(t, b, n, i)
  <2>1. Last(t, n, i) - 1 \in 0 .. n
    BY LastIsAsk
  <2> QED BY <2>1 DEF Ptr
<1>2. Holds(t, c, n) <=> Holds(t, b, n)
  BY <1>1 DEF Holds
<1>3. RangesOf(t, c, n) = RangesOf(t, b, n)
  BY <1>1 DEF RangesOf
<1> QED BY <1>1, <1>2, <1>3

-----------------------------------------------------------------------------
(* Calls of mm.c *)

\* A number below the modulus is its own remainder.
LEMMA ModSmall ==
  ASSUME NEW x \in Nat, NEW m \in Nat, x < m
  PROVE  x % m = x
  OBVIOUS

\* ALIGN rounds up to a multiple of 8, by less than 8, as long as the sum does
\* not wrap.
LEMMA AlignUp ==
  ASSUME ALIGNMENT = 8, NEW size \in Nat, size + 7 < WordMod
  PROVE  /\ ALIGN(size) \in Nat
         /\ size <= ALIGN(size) /\ ALIGN(size) <= size + 7
         /\ ALIGN(size) % 8 = 0
<1>1. (size + (ALIGNMENT - 1)) % WordMod = size + 7
  BY ModSmall, MemlibAssumption
<1>2. ALIGN(size) = (size + 7) - ((size + 7) % 8)
  BY <1>1 DEF ALIGN
<1> QED
  BY <1>2

\* The header takes 8 bytes, with a size_t of 4 bytes or 8.
LEMMA HeaderSize ==
  ASSUME ALIGNMENT = 8
  PROVE  SIZE_T_SIZE = 8
<1>1. sizeof_size_t \in {4, 8} /\ sizeof_size_t + 7 < WordMod
  BY MMAssumption, MemlibAssumption
<1>2. /\ SIZE_T_SIZE \in Nat /\ SIZE_T_SIZE % 8 = 0
      /\ sizeof_size_t <= SIZE_T_SIZE /\ SIZE_T_SIZE <= sizeof_size_t + 7
  BY <1>1, AlignUp DEF SIZE_T_SIZE
<1> QED
  BY <1>1, <1>2

LEMMA MaxIntFacts == MaxInt \in Nat /\ MaxInt + 15 < WordMod /\ 2 * MaxInt + 2 = WordMod
  BY MemlibAssumption DEF MaxInt

\* newsize is negative when the conversion to int overflows; otherwise it is a
\* multiple of 8 with room for the header and the payload.
LEMMA NewsizeBounds ==
  ASSUME ALIGNMENT = 8, NEW size \in 0 .. MaxInt
  PROVE  /\ newsize(size) \in Int
         /\ newsize(size) >= 0 => /\ size + 8 <= newsize(size)
                                  /\ newsize(size) <= MaxInt
                                  /\ newsize(size) % 8 = 0
<1>1. (size + SIZE_T_SIZE) % WordMod = size + 8
  BY HeaderSize, ModSmall, MaxIntFacts, MemlibAssumption
<1> DEFINE u == ALIGN(size + 8)
<1>2. u \in Nat /\ size + 8 <= u /\ u <= size + 15 /\ u % 8 = 0
  BY AlignUp, MaxIntFacts, MemlibAssumption
<1>3. newsize(size) = ToInt(u)
  BY <1>1 DEF newsize
<1> HIDE DEF u
<1> QED
  BY <1>2, <1>3, MaxIntFacts, MemlibAssumption DEF ToInt

HeapOK ==
  /\ mem_brk \in mem_start_brk .. mem_max_addr
  /\ mem = [x \in HeapAddr |-> mem[x]]

Fits(size) == newsize(size) >= 0 /\ mem_brk + newsize(size) <= mem_max_addr

\* r puts a block where mem_brk stands, as large as newsize says.
Places(r, size) ==
  /\ r.ptr = mem_brk + 8 /\ r.brk = mem_brk + newsize(size)
  /\ r.mem = [x \in HeapAddr |-> r.mem[x]]
  /\ r.mem[mem_brk] = size
  /\ \A x \in HeapAddr : x < mem_brk => r.mem[x] = mem[x]

LEMMA HeapFacts ==
  ASSUME HeapOK
  PROVE  /\ mem_start_brk \in Nat /\ mem_start_brk > 0 /\ mem_max_addr \in Nat
         /\ HeapAddr = mem_start_brk .. mem_max_addr - 1
         /\ mem_brk \in Nat /\ mem_start_brk <= mem_brk /\ mem_brk <= mem_max_addr
  BY MemlibAssumption, ConfigAssumption DEF mem_max_addr, HeapAddr, HeapOK

\* mm_malloc fails exactly if the block does not fit.
LEMMA MallocPlaces ==
  ASSUME ALIGNMENT = 8, RoomAbove, HeapOK, NEW size \in 0 .. MaxInt
  PROVE  /\ mm_malloc(size).ptr = NULL => mm_malloc(size) = Failed
         /\ Fits(size) => mm_malloc(size).ptr # NULL
         /\ mm_malloc(size).ptr # NULL =>
              /\ Fits(size) /\ Places(mm_malloc(size), size)
              /\ mm_malloc(size) = [ptr |-> mem_brk + 8, brk |-> mem_brk + newsize(size),
                                    mem |-> [mem EXCEPT ![mem_brk] = size]]
<1> DEFINE n == newsize(size)
<1>1. /\ n \in Int
      /\ n >= 0 => size + 8 <= n /\ n <= MaxInt /\ n % 8 = 0
  BY NewsizeBounds
<1>2. MaxInt \in Nat /\ WordMod \in Nat /\ mem_max_addr + MaxInt < WordMod
  BY MaxIntFacts, MemlibAssumption DEF RoomAbove
<1>3. CASE n < 0
  <2>1. mm_malloc(size) = Failed /\ ~Fits(size)
    BY <1>1, <1>3 DEF mm_malloc, SbrkFails, Fits
  <2> QED BY <2>1 DEF Failed
<1>4. CASE n >= 0
  <2>1. n \in Nat /\ mem_brk + n \in Nat /\ mem_brk + n < WordMod
    BY <1>1, <1>2, <1>4, HeapFacts
  <2>2. (mem_brk + n) % WordMod = mem_brk + n
    BY <1>2, <2>1, ModSmall
  <2>3. SbrkFails(n) <=> ~Fits(size)
    BY <1>4, <2>1, <2>2, HeapFacts DEF SbrkFails, Fits
  <2>4. CASE ~Fits(size)
    <3>1. mm_malloc(size) = Failed
      BY <2>3, <2>4 DEF mm_malloc
    <3> QED BY <2>4, <3>1 DEF Failed
  <2>5. CASE Fits(size)
    <3>1. mm_malloc(size) = [ptr |-> mem_brk + 8, brk |-> mem_brk + n,
                             mem |-> [mem EXCEPT ![mem_brk] = size]]
      BY <2>2, <2>3, <2>5, HeaderSize DEF mm_malloc, SbrkTo
    <3>2. mem_brk \in HeapAddr
      BY <1>1, <1>4, <2>1, <2>5, HeapFacts DEF Fits
    <3>3. Places(mm_malloc(size), size)
      BY <3>1, <3>2 DEF Places, HeapOK
    <3>4. mm_malloc(size).ptr # NULL
      BY <3>1, HeapFacts
    <3> QED BY <2>5, <3>1, <3>3, <3>4
  <2> QED BY <2>4, <2>5
<1> QED BY <1>1, <1>3, <1>4

\* So does mm_realloc, whatever it copies: its copy stays above the new header.
LEMMA ReallocPlaces ==
  ASSUME ALIGNMENT = 8, RoomAbove, HeapOK, NEW size \in 0 .. MaxInt, NEW oldptr
  PROVE  /\ mm_realloc(oldptr, size).ptr = NULL => mm_realloc(oldptr, size) = Failed
         /\ Fits(size) => mm_realloc(oldptr, size).ptr # NULL
         /\ mm_realloc(oldptr, size).ptr # NULL =>
              Fits(size) /\ Places(mm_realloc(oldptr, size), size)
<1> DEFINE new == mm_malloc(size)
           c == copySize(new.mem, oldptr, size)
<1>1. CASE new.ptr = NULL
  <2>1. mm_realloc(oldptr, size) = Failed /\ ~Fits(size)
    BY <1>1, MallocPlaces DEF mm_realloc
  <2> QED BY <2>1 DEF Failed
<1>2. CASE new.ptr # NULL
  <2>1. /\ Fits(size) /\ Places(new, size)
        /\ new = [ptr |-> mem_brk + 8, brk |-> mem_brk + newsize(size),
                  mem |-> [mem EXCEPT ![mem_brk] = size]]
    BY <1>2, MallocPlaces
  <2>2. mm_realloc(oldptr, size) = [new EXCEPT !.mem = memcpy(new.mem, new.ptr, oldptr, c)]
    BY <1>2 DEF mm_realloc
  <2> HIDE DEF c
  <2>3. /\ mm_realloc(oldptr, size).ptr = mem_brk + 8
        /\ mm_realloc(oldptr, size).brk = mem_brk + newsize(size)
        /\ mm_realloc(oldptr, size).mem = memcpy(new.mem, mem_brk + 8, oldptr, c)
    BY <2>1, <2>2
  <2> DEFINE m == memcpy(new.mem, mem_brk + 8, oldptr, c)
  <2>4. DOMAIN new.mem = HeapAddr
    BY <2>1 DEF Places
  <2>5. m = [x \in HeapAddr |-> IF mem_brk + 8 <= x /\ x < mem_brk + 8 + c
                                THEN new.mem[oldptr + (x - (mem_brk + 8))] ELSE new.mem[x]]
    BY <2>4 DEF memcpy
  <2>6. \A x \in HeapAddr : x <= mem_brk => m[x] = new.mem[x]
    BY <2>5, HeapFacts
  <2>7. m = [x \in HeapAddr |-> m[x]]
    BY <2>5
  <2> HIDE DEF m, new
  <2>8. mem_brk \in HeapAddr
    BY <2>1, NewsizeBounds, HeapFacts DEF Fits
  <2>9. m[mem_brk] = size /\ \A x \in HeapAddr : x < mem_brk => m[x] = mem[x]
    <3>1. new.mem[mem_brk] = size /\ \A x \in HeapAddr : x < mem_brk => new.mem[x] = mem[x]
      BY <2>1 DEF Places
    <3>2. mem_brk <= mem_brk /\ \A x \in HeapAddr : x < mem_brk => x <= mem_brk
      BY HeapFacts
    <3> QED BY <2>6, <2>8, <3>1, <3>2
  <2>10. mm_realloc(oldptr, size).mem = m
    BY <2>3 DEF m
  <2>11. Places(mm_realloc(oldptr, size), size)
    BY <2>3, <2>7, <2>9, <2>10 DEF Places
  <2> QED BY <2>1, <2>3, <2>11, HeapFacts
<1> QED BY <1>1, <1>2

-----------------------------------------------------------------------------
(* One request of a pass *)

LEMMA Request ==
  ASSUME NEW t \in Seq(traceop_t), NEW n \in Nat, n < Len(t)
  PROVE  /\ t[n + 1].index \in Ids /\ t[n + 1].size \in 0 .. MaxInt /\ t[n + 1].size \in Nat
         /\ t[n + 1].type \in {"ALLOC", "REALLOC", "FREE"}
<1>1. n + 1 \in 1 .. Len(t)
  OBVIOUS
<1>2. t[n + 1] \in traceop_t
  BY <1>1
<1> QED BY <1>2, MaxIntFacts DEF traceop_t

LEMMA LiveIds ==
  ASSUME NEW t \in Seq(traceop_t), NEW n \in 0 .. Len(t)
  PROVE  LiveAfter(t, n) \subseteq Ids
<1> SUFFICES ASSUME NEW i \in LiveAfter(t, n) PROVE i \in Ids
  OBVIOUS
<1>1. PICK k \in 1 .. n : t[k].index = i
  BY LastIsAsk
<1>2. k \in 1 .. Len(t)
  OBVIOUS
<1>3. t[k] \in traceop_t
  BY <1>2
<1> QED BY <1>1, <1>3 DEF traceop_t

\* The driver keeps the block it is given, and the others are left alone.
LEMMA AskHolds ==
  ASSUME NEW t \in Seq(traceop_t), NEW m \in 0 .. Len(t), NEW n \in Nat, n < m,
         NEW c, Layout(t, c, m), t[n + 1].type # "FREE",
         HeapOK, mem_brk = c[n], Holds(t, c, n), blocks \in [Ids -> Nat],
         blocks' = [blocks EXCEPT ![t[n + 1].index] = c[n] + 8],
         mem'[c[n]] = t[n + 1].size, \A x \in HeapAddr : x < c[n] => mem'[x] = mem[x]
  PROVE  Holds(t, c, n + 1)'
<1> DEFINE idx == t[n + 1].index
<1>1. idx \in Ids /\ n < Len(t) /\ n \in 0 .. m /\ n \in 0 .. Len(t)
  BY Request
<1>2. /\ LiveAfter(t, n + 1) = LiveAfter(t, n) \cup {idx}
      /\ Last(t, n + 1, idx) = n + 1
      /\ \A i \in LiveAfter(t, n) \ {idx} : Last(t, n + 1, i) = Last(t, n, i)
  BY AskNext
<1>3. c[n] \in Nat
  BY <1>1 DEF Layout
<1>4. blocks'[idx] = c[n] + 8 /\ \A i \in Ids \ {idx} : blocks'[i] = blocks[i]
  BY <1>1
<1>5. blocks'[idx] = Ptr(t, c, n + 1, idx) /\ mem'[blocks'[idx] - 8] = SizeAfter(t, n + 1, idx)
  <2>1. SizeAfter(t, n + 1, idx) = t[n + 1].size
    <3>1. n + 1 \in Nat /\ idx \in LiveAfter(t, n + 1)
      BY <1>2
    <3>2. SizeAfter(t, n + 1, idx) = t[Last(t, n + 1, idx)].size
      BY <3>1, LastIsAsk
    <3> QED BY <1>2, <3>2
  <2>2. (n + 1) - 1 = n /\ (c[n] + 8) - 8 = c[n]
    BY <1>3
  <2>3. Ptr(t, c, n + 1, idx) = c[n] + 8
    BY <1>2, <2>2 DEF Ptr
  <2> QED BY <1>4, <2>1, <2>2, <2>3
<1>6. ASSUME NEW i \in LiveAfter(t, n) \ {idx}
      PROVE  /\ blocks'[i] = Ptr(t, c, n + 1, i)
             /\ mem'[blocks'[i] - 8] = SizeAfter(t, n + 1, i)
  <2>1. Ptr(t, c, n + 1, i) = Ptr(t, c, n, i)
    BY <1>2 DEF Ptr
  <2>2. SizeAfter(t, n + 1, i) = SizeAfter(t, n, i)
    BY <1>2, LastIsAsk
  <2>3. blocks'[i] = blocks[i] /\ blocks[i] = Ptr(t, c, n, i) /\ mem[blocks[i] - 8] = SizeAfter(t, n, i)
    BY <1>1, <1>4, LiveIds DEF Holds
  <2>4. PICK q \in Nat, z \in Nat :
          q = Ptr(t, c, n, i) /\ z = SizeAfter(t, n, i) /\ mem_start_brk + 8 <= q /\ q + z <= c[n]
    BY <1>1, LayoutApart
  <2>5. q - 8 \in HeapAddr /\ q - 8 < c[n]
    <3>1. PICK h \in Nat : h = c[n] /\ h <= mem_max_addr
      BY <1>3, HeapFacts
    <3>2. q + z <= h
      BY <2>4, <3>1
    <3>a. PICK lo \in Nat, hi \in Nat : lo = mem_start_brk /\ hi = mem_max_addr
      BY HeapFacts
    <3>b. lo + 8 <= q /\ h <= hi
      BY <2>4, <3>1, <3>a
    <3>c. q - 8 \in lo .. hi - 1 /\ q - 8 < h
      BY <3>2, <3>b
    <3>3. q - 8 \in mem_start_brk .. mem_max_addr - 1 /\ q - 8 < h
      BY <3>a, <3>c
    <3> QED BY <3>1, <3>3, HeapFacts
  <2> QED BY <2>1, <2>2, <2>3, <2>4, <2>5
<1> QED BY <1>2, <1>5, <1>6 DEF Holds

\* A free changes nothing that the driver holds.
LEMMA FreeHolds ==
  ASSUME NEW t, NEW n \in Nat, NEW c, t[n + 1].type = "FREE", Holds(t, c, n),
         UNCHANGED <<blocks, mem>>
  PROVE  Holds(t, c, n + 1)'
<1>1. /\ LiveAfter(t, n + 1) = LiveAfter(t, n) \ {t[n + 1].index}
      /\ \A i \in LiveAfter(t, n) : Last(t, n + 1, i) = Last(t, n, i)
  BY FreeNext
<1>2. ASSUME NEW i \in LiveAfter(t, n + 1)
      PROVE  i \in LiveAfter(t, n) /\ Ptr(t, c, n + 1, i) = Ptr(t, c, n, i)
             /\ SizeAfter(t, n + 1, i) = SizeAfter(t, n, i)
  <2>1. i \in LiveAfter(t, n)
    BY <1>1
  <2> QED BY <1>1, <2>1, LastIsAsk DEF Ptr
<1> QED BY <1>2 DEF Holds

\* The ranges of the indices other than i
OtherRanges(t, c, n, i) ==
  {range(Ptr(t, c, n, j), SizeAfter(t, n, j)) : j \in LiveAfter(t, n) \ {i}}

LEMMA RemoveOne ==
  ASSUME NEW t \in Seq(traceop_t), NEW m \in 0 .. Len(t), NEW n \in 0 .. m,
         NEW c, Layout(t, c, m), NEW i \in LiveAfter(t, n)
  PROVE  remove_range(RangesOf(t, c, n), Ptr(t, c, n, i)) = OtherRanges(t, c, n, i)
<1>1. ASSUME NEW j \in LiveAfter(t, n)
      PROVE  range(Ptr(t, c, n, j), SizeAfter(t, n, j)).lo = Ptr(t, c, n, j)
  BY DEF range
<1>2. ASSUME NEW j \in LiveAfter(t, n), j # i PROVE Ptr(t, c, n, j) # Ptr(t, c, n, i)
  <2>1. /\ Ptr(t, c, n, i) \in Nat /\ SizeAfter(t, n, i) \in Nat
        /\ Ptr(t, c, n, j) \in Nat /\ SizeAfter(t, n, j) \in Nat
        /\ \/ Ptr(t, c, n, i) + SizeAfter(t, n, i) <= Ptr(t, c, n, j) - 8
           \/ Ptr(t, c, n, j) + SizeAfter(t, n, j) <= Ptr(t, c, n, i) - 8
    BY <1>2, LayoutApart
  <2> QED BY <2>1
<1> QED BY <1>1, <1>2 DEF remove_range, RangesOf, OtherRanges

LEMMA AskRanges ==
  ASSUME NEW t, NEW n \in Nat, NEW c, t[n + 1].type # "FREE"
  PROVE  RangesOf(t, c, n + 1) =
           OtherRanges(t, c, n, t[n + 1].index) \cup {range(c[n] + 8, t[n + 1].size)}
<1> DEFINE idx == t[n + 1].index
<1>1. /\ LiveAfter(t, n + 1) = (LiveAfter(t, n) \ {idx}) \cup {idx}
      /\ Last(t, n + 1, idx) = n + 1
      /\ \A i \in LiveAfter(t, n) \ {idx} : Last(t, n + 1, i) = Last(t, n, i)
  BY AskNext
<1>2. Ptr(t, c, n + 1, idx) = c[n] + 8 /\ SizeAfter(t, n + 1, idx) = t[n + 1].size
  <2>1. (n + 1) - 1 = n
    OBVIOUS
  <2> QED BY <1>1, <2>1, LastIsAsk DEF Ptr
<1>3. ASSUME NEW i \in LiveAfter(t, n) \ {idx}
      PROVE  Ptr(t, c, n + 1, i) = Ptr(t, c, n, i) /\ SizeAfter(t, n + 1, i) = SizeAfter(t, n, i)
  BY <1>1, LastIsAsk DEF Ptr
<1> HIDE DEF idx
<1> QED BY <1>1, <1>2, <1>3 DEF RangesOf, OtherRanges, idx

LEMMA FreeRanges ==
  ASSUME NEW t, NEW n \in Nat, NEW c, t[n + 1].type = "FREE"
  PROVE  RangesOf(t, c, n + 1) = OtherRanges(t, c, n, t[n + 1].index)
<1>1. /\ LiveAfter(t, n + 1) = LiveAfter(t, n) \ {t[n + 1].index}
      /\ \A i \in LiveAfter(t, n) : Last(t, n + 1, i) = Last(t, n, i)
  BY FreeNext
<1>2. ASSUME NEW i \in LiveAfter(t, n + 1)
      PROVE  Ptr(t, c, n + 1, i) = Ptr(t, c, n, i) /\ SizeAfter(t, n + 1, i) = SizeAfter(t, n, i)
  <2>1. i \in LiveAfter(t, n)
    BY <1>1
  <2> QED BY <1>1, <2>1, LastIsAsk DEF Ptr
<1> QED BY <1>1, <1>2 DEF RangesOf, OtherRanges

-----------------------------------------------------------------------------
(* The inductive invariant *)

Before == {"read", "exit0", "aborted"}        \* no trace is being worked on
Judged == {"begin_util", "util", "begin_speed", "speed"}
Measured == {"util", "speed"}

Control ==
  /\ tracefiles \in Workloads /\ tracenum \in 0 .. Len(tracefiles)
  /\ phase \in Before \cup {"begin_valid", "valid"} \cup Judged
  /\ phase \notin Before => tracenum < Len(tracefiles)
  /\ InPass => opnum \in 0 .. Len(ops)
  /\ HeapOK /\ blocks \in [Ids -> Nat]

\* While eval_mm_valid is at work the layout grows with the trace.
Judging ==
  phase = "valid" =>
    /\ verdict = "running"
    /\ \E b : /\ Layout(ops, b, opnum) /\ mem_brk = b[opnum]
              /\ Holds(ops, b, opnum) /\ ranges = RangesOf(ops, b, opnum)

\* Once it has succeeded there is a layout for all of the trace, which the later
\* passes follow.
Following ==
  phase \in Judged =>
    \E b : /\ Layout(ops, b, Len(ops)) /\ ranges = RangesOf(ops, b, Len(ops))
           /\ phase \in Measured => mem_brk = b[opnum] /\ Holds(ops, b, opnum)

IInv == Control /\ Judging /\ Following

LEMMA TraceFacts ==
  ASSUME Control, tracenum < Len(tracefiles)
  PROVE  ops \in Seq(traceop_t) /\ Sound(ops) /\ Len(ops) \in Nat /\ tracenum \in Nat
         /\ tracenum + 1 \in 0 .. Len(tracefiles)
<1>1. /\ tracefiles \in Seq(Seq(traceop_t)) /\ \A t \in DOMAIN tracefiles : WellFormed(tracefiles[t])
      /\ tracenum \in 0 .. Len(tracefiles)
  BY MDriverAssumption DEF Control
<1>2. tracenum + 1 \in DOMAIN tracefiles
  BY <1>1
<1>3. WellFormed(ops)
  BY <1>1, <1>2 DEF ops
<1> QED BY <1>1, <1>3 DEF WellFormed

LEMMA EmptyLayout ==
  /\ \A t : Layout(t, [k \in 0 .. 0 |-> mem_start_brk], 0)
  /\ \A t, b : Holds(t, b, 0) /\ Holds(t, b, 0)' /\ RangesOf(t, b, 0) = {}
<1>1. mem_start_brk \in Nat /\ mem_start_brk <= mem_max_addr /\ 0 .. 0 = {0} /\ 1 .. 0 = {}
  BY MemlibAssumption, ConfigAssumption DEF mem_max_addr
<1> QED BY <1>1, NoneLive DEF Layout, Holds, RangesOf

\* What the checks of eval_mm_valid on an allocated block come to
LEMMA Outcome ==
  ASSUME NEW idx, NEW size, NEW p, NEW rs, NEW preserved \in BOOLEAN,
         \/ p = NULL /\ malloc_error(ranges)
         \/ p # NULL /\ Examine(idx, p, size, rs, preserved)
  PROVE  \/ verdict' \in {"invalid", "aborted"} /\ UNCHANGED blocks
         \/ p # NULL /\ Remember(idx, p, size, rs)
<1>1. ASSUME NEW q, malloc_error(q) PROVE verdict' \in {"invalid", "aborted"} /\ UNCHANGED blocks
  BY <1>1 DEF malloc_error
<1>2. ASSUME NEW q, assert_fails(q) PROVE verdict' \in {"invalid", "aborted"} /\ UNCHANGED blocks
  BY <1>2 DEF assert_fails
<1>3. CASE p = NULL /\ malloc_error(ranges)
  BY <1>1, <1>3
<1>4. CASE p # NULL /\ Examine(idx, p, size, rs, preserved)
  <2>1. CASE assert_fails(rs)
    BY <1>2, <2>1
  <2>2. CASE malloc_error(rs)
    BY <1>1, <2>2
  <2>3. CASE malloc_error(add_range(rs, range(p, size)))
    BY <1>1, <2>3
  <2>4. CASE Remember(idx, p, size, rs)
    BY <1>4, <2>4
  <2>5. \/ assert_fails(rs) \/ malloc_error(rs) \/ malloc_error(add_range(rs, range(p, size)))
        \/ Remember(idx, p, size, rs)
    BY <1>4 DEF Examine
  <2> QED BY <2>1, <2>2, <2>3, <2>4, <2>5
<1> QED BY <1>3, <1>4

LEMMA CallLeavesHeapOK ==
  ASSUME ALIGNMENT = 8, HeapOK, NEW size \in 0 .. MaxInt, NEW r, mem_brk' = r.brk,
         \/ r = Failed
         \/ r.ptr # NULL /\ Fits(size) /\ Places(r, size),
         mem' = r.mem \/ \E byte, n : mem' = memset(r.mem, r.ptr, byte, n)
  PROVE  HeapOK'
<1>1. r.brk \in mem_start_brk .. mem_max_addr
  <2>1. CASE r = Failed
    BY <2>1 DEF Failed, HeapOK
  <2>2. CASE Fits(size) /\ Places(r, size)
    BY <2>2, NewsizeBounds, HeapFacts DEF Fits, Places
  <2> QED BY <2>1, <2>2
<1>2. r.mem = [x \in HeapAddr |-> r.mem[x]]
  BY DEF Failed, Places, HeapOK
<1>3. mem' = [x \in HeapAddr |-> mem'[x]]
  BY <1>2 DEF memset
<1>4. mem_brk' \in mem_start_brk .. mem_max_addr
  BY <1>1
<1> QED BY <1>3, <1>4 DEF HeapOK

\* A layout of the trace at hand, with what it says of the next state
LEMMA StillJudging ==
  ASSUME NEW t, NEW n, NEW c, Control', ops' = t, opnum' = n, phase' = "valid",
         verdict' = "running", Layout(t, c, n), mem_brk' = c[n], Holds(t, c, n)',
         ranges' = RangesOf(t, c, n)
  PROVE  IInv'
<1>1. Judging'
  <2>1. Layout(ops, c, opnum)' /\ (mem_brk = c[opnum])'
    BY DEF Layout
  <2>2. Holds(ops, c, opnum)'
    BY DEF Holds, Ptr
  <2>3. (ranges = RangesOf(ops, c, opnum))'
    BY DEF RangesOf, Ptr
  <2> QED BY <2>1, <2>2, <2>3, Zenon DEF Judging
<1>2. Following'
  BY DEF Following, Judged
<1> QED BY <1>1, <1>2 DEF IInv

LEMMA StillFollowing ==
  ASSUME NEW t, NEW n, NEW c, Control', ops' = t, phase' \in Judged, Layout(t, c, Len(t)),
         ranges' = RangesOf(t, c, Len(t)),
         phase' \in Measured => opnum' = n /\ mem_brk' = c[n] /\ Holds(t, c, n)'
  PROVE  IInv'
<1>1. Following'
  <2>1. CASE phase' \in Measured
    BY <2>1, SMTT(30) DEF Following, Layout, Holds, RangesOf, Ptr
  <2>2. CASE phase' \notin Measured
    BY <2>2 DEF Following, Layout, RangesOf, Ptr
  <2> QED BY <2>1, <2>2
<1>2. Judging'
  BY DEF Judging, Judged
<1> QED BY <1>1, <1>2 DEF IInv

\* What is known while a request is served
LEMMA InTrace ==
  ASSUME Control, InPass
  PROVE  /\ ops \in Seq(traceop_t) /\ Sound(ops) /\ Len(ops) \in Nat
         /\ tracefiles \in Workloads /\ tracenum \in Nat /\ tracenum < Len(tracefiles)
         /\ tracenum + 1 \in 0 .. Len(tracefiles) /\ opnum \in 0 .. Len(ops)
         /\ MoreOps => opnum < Len(ops)
         /\ ~MoreOps => opnum = Len(ops)
         /\ HeapOK /\ blocks \in [Ids -> Nat]
<1>1. tracenum < Len(tracefiles) /\ opnum \in 0 .. Len(ops)
  BY DEF Control, InPass, Before
<1>2. ops \in Seq(traceop_t) /\ Sound(ops) /\ Len(ops) \in Nat /\ tracenum \in Nat
      /\ tracenum + 1 \in 0 .. Len(tracefiles)
  BY <1>1, TraceFacts
<1> QED BY <1>1, <1>2 DEF Control, MoreOps

\* eval_mm_valid serves a request that asks: it ends, or the layout grows.
LEMMA ValidAsk ==
  ASSUME ALIGNMENT = 8, RoomAbove, IInv, phase = "valid", MoreOps, op.type # "FREE",
         NEW r, NEW rs, NEW preserved \in BOOLEAN,
         r = Failed \/ (r.ptr # NULL /\ Fits(op.size) /\ Places(r, op.size)),
         \/ r.ptr = NULL /\ malloc_error(ranges)
         \/ r.ptr # NULL /\ Examine(op.index, r.ptr, op.size, rs, preserved),
         \A b : Layout(ops, b, opnum) /\ ranges = RangesOf(ops, b, opnum) /\ Holds(ops, b, opnum)
                => rs = OtherRanges(ops, b, opnum, op.index),
         mem_brk' = r.brk, Filled(r), AfterValidOp
  PROVE  IInv'
<1>1. /\ ops \in Seq(traceop_t) /\ Len(ops) \in Nat
      /\ tracefiles \in Workloads /\ tracenum \in Nat /\ tracenum < Len(tracefiles)
      /\ tracenum + 1 \in 0 .. Len(tracefiles) /\ opnum \in Nat /\ opnum < Len(ops)
      /\ HeapOK /\ blocks \in [Ids -> Nat]
  BY InTrace DEF IInv, InPass
<1>2. PICK b : /\ Layout(ops, b, opnum) /\ mem_brk = b[opnum]
               /\ Holds(ops, b, opnum) /\ ranges = RangesOf(ops, b, opnum)
  BY DEF IInv, Judging
<1>3. /\ op.index \in Ids /\ op.size \in 0 .. MaxInt /\ op.size \in Nat
      /\ verdict = "running"
  BY <1>1, Request DEF op, IInv, Judging
<1>4. UNCHANGED tracefiles
  BY DEF AfterValidOp
<1>5. HeapOK'
  <2>1. mem' = r.mem \/ \E byte, n : mem' = memset(r.mem, r.ptr, byte, n)
    BY DEF Filled
  <2> QED BY <1>1, <1>3, <2>1, CallLeavesHeapOK
<1>6. CASE verdict' \in {"invalid", "aborted"} /\ UNCHANGED blocks
  <2>1. /\ phase' \in {"read", "aborted"}
        /\ tracenum' = tracenum \/ tracenum' = tracenum + 1
    BY <1>6 DEF AfterValidOp
  <2>2. Control'
    <3>1. tracenum' \in 0 .. Len(tracefiles)
      BY <1>1, <2>1
    <3> QED BY <1>1, <1>4, <1>5, <1>6, <2>1, <3>1 DEF Control, Before, InPass
  <2> QED BY <2>1, <2>2 DEF IInv, Judging, Following, Judged
<1>7. CASE r.ptr # NULL /\ Remember(op.index, r.ptr, op.size, rs)
  <2>1. /\ verdict' = "running" /\ phase' = "valid" /\ opnum' = opnum + 1 /\ tracenum' = tracenum
        /\ ranges' = add_range(rs, range(r.ptr, op.size))
        /\ blocks' = [blocks EXCEPT ![op.index] = r.ptr]
    BY <1>3, <1>7 DEF Remember, AfterValidOp, Advance
  <2>2. Fits(op.size) /\ Places(r, op.size)
    BY <1>7 DEF Failed
  <2>3. mem' = memset(r.mem, r.ptr, LowByte(op.index), op.size)
    BY <2>1 DEF Filled
  <2>4. PICK t, n : t = ops /\ n = opnum /\ n \in Nat /\ n \in 0 .. n
    BY <1>1
  <2>5. /\ t \in Seq(traceop_t) /\ n < Len(t) /\ n + 1 \in 0 .. Len(t) /\ op = t[n + 1]
        /\ Layout(t, b, n) /\ mem_brk = b[n] /\ Holds(t, b, n)
        /\ rs = OtherRanges(t, b, n, t[n + 1].index)
    BY <1>1, <1>2, <2>4 DEF op
  <2>6. /\ t[n + 1].index \in Ids /\ t[n + 1].size \in 0 .. MaxInt /\ t[n + 1].size \in Nat
        /\ t[n + 1].type # "FREE"
    BY <2>4, <2>5, Request
  <2>7. PICK to \in Nat : /\ to = b[n] + newsize(t[n + 1].size) /\ to <= mem_max_addr
                          /\ b[n] + 8 + t[n + 1].size <= to
    <3>1. PICK brk \in Nat, new \in Int : brk = b[n] /\ new = newsize(t[n + 1].size)
      BY <1>1, <2>5, <2>6, HeapFacts, NewsizeBounds
    <3>2. new >= 0 /\ brk + new <= mem_max_addr
      BY <2>2, <2>5, <3>1 DEF Fits
    <3>3. t[n + 1].size + 8 <= new
      BY <2>6, <3>1, <3>2, NewsizeBounds
    <3>4. brk + new \in Nat /\ brk + 8 + t[n + 1].size <= brk + new
      BY <2>6, <3>2, <3>3
    <3> QED BY <3>1, <3>2, <3>4
  <2>8. PICK c : Layout(t, c, n + 1) /\ c[n + 1] = to /\ \A k \in 0 .. n : c[k] = b[k]
    <3>1. /\ n \in Nat /\ Layout(t, b, n) /\ t[n + 1].type # "FREE" /\ t[n + 1].size \in Nat
          /\ to \in Nat /\ to = b[n] + newsize(t[n + 1].size) /\ to <= mem_max_addr
          /\ b[n] + 8 + t[n + 1].size <= to
      BY <2>4, <2>5, <2>6, <2>7
    <3> QED BY <3>1, LayoutAsk
  <2>9. Holds(t, c, n) /\ mem_brk = c[n]
    BY <2>4, <2>5, <2>8, LayoutPrefix
  <2>10. /\ r.ptr = c[n] + 8 /\ r.brk = to /\ r.mem[c[n]] = t[n + 1].size
         /\ r.mem = [x \in HeapAddr |-> r.mem[x]]
         /\ \A x \in HeapAddr : x < c[n] => r.mem[x] = mem[x]
    BY <2>2, <2>5, <2>7, <2>9 DEF Places
  <2>11. mem'[c[n]] = t[n + 1].size /\ \A x \in HeapAddr : x < c[n] => mem'[x] = mem[x]
    <3>1. PICK h \in Nat : h = c[n]
      BY <1>1, <2>9, HeapFacts
    <3>2. h \in HeapAddr
      <4>1. PICK lo \in Nat, hi \in Nat, z \in Nat :
              lo = mem_start_brk /\ hi = mem_max_addr /\ z = t[n + 1].size
        BY <1>1, <2>6, HeapFacts
      <4>2. lo <= h /\ h + 8 + z <= to /\ to <= hi
        BY <1>1, <2>5, <2>7, <2>9, <3>1, <4>1, HeapFacts
      <4>3. h \in lo .. hi - 1
        BY <4>2
      <4> QED BY <1>1, <4>1, <4>3, HeapFacts
    <3>3. \A x \in HeapAddr : x <= h => mem'[x] = r.mem[x]
      BY <1>1, <2>3, <2>10, <3>1, HeapFacts DEF memset
    <3>4. h <= h /\ \A x \in HeapAddr : x < h => x <= h
      BY <1>1, HeapFacts
    <3> QED BY <2>10, <3>1, <3>2, <3>3, <3>4
  <2>12. Holds(t, c, n + 1)'
    <3>1. blocks' = [blocks EXCEPT ![t[n + 1].index] = c[n] + 8]
      BY <2>1, <2>5, <2>10
    <3>2. n < n + 1
      BY <2>4
    <3> QED BY <1>1, <2>4, <2>5, <2>6, <2>8, <2>9, <2>11, <3>1, <3>2, AskHolds
  <2>13. ranges' = RangesOf(t, c, n + 1)
    <3>1. OtherRanges(t, c, n, t[n + 1].index) = OtherRanges(t, b, n, t[n + 1].index)
      BY <2>4, <2>8, LayoutPrefix DEF OtherRanges
    <3> QED BY <2>1, <2>4, <2>5, <2>6, <2>10, <3>1, AskRanges DEF add_range
  <2>14. ops' = t
    BY <1>4, <2>1, <2>4 DEF ops
  <2>15. Control'
    <3>1. opnum' \in 0 .. Len(t)
      BY <2>1, <2>4, <2>5
    <3>2. blocks' \in [Ids -> Nat]
      <4>1. r.ptr \in Nat
        BY <1>1, <2>2, HeapFacts DEF Places
      <4> QED BY <1>1, <1>3, <2>1, <4>1
    <3> QED BY <1>1, <1>4, <1>5, <2>1, <2>14, <3>1, <3>2 DEF Control, Before, InPass
  <2>16. mem_brk' = c[n + 1] /\ opnum' = n + 1
    BY <2>1, <2>4, <2>8, <2>10
  <2> QED BY <2>1, <2>8, <2>12, <2>13, <2>14, <2>15, <2>16, StillJudging
<1> QED BY <1>6, <1>7, Outcome

LEMMA ValidAllocStep ==
  ASSUME ALIGNMENT = 8, RoomAbove, IInv, ValidAlloc
  PROVE  IInv'
<1>1. phase = "valid" /\ MoreOps /\ op.type = "ALLOC" /\ AfterValidOp
  BY DEF ValidAlloc
<1>2. PICK r : /\ r = mm_malloc(op.size) /\ mem_brk' = r.brk
               /\ valid_ALLOC(op.index, op.size, r.ptr) /\ Filled(r)
  BY DEF ValidAlloc
<1>3. /\ ops \in Seq(traceop_t) /\ opnum \in Nat /\ opnum < Len(ops) /\ HeapOK
      /\ Sound(ops) /\ Len(ops) \in Nat
  BY <1>1, InTrace DEF IInv, InPass
<1>4. op.size \in 0 .. MaxInt /\ op.index \notin LiveAfter(ops, opnum)
  <2>1. opnum + 1 \in 1 .. Len(ops) /\ (opnum + 1) - 1 = opnum
    BY <1>3
  <2> QED BY <1>1, <1>3, <2>1, Request DEF op, Sound
<1>5. r = Failed \/ (r.ptr # NULL /\ Fits(op.size) /\ Places(r, op.size))
  BY <1>2, <1>3, <1>4, MallocPlaces
<1>6. PICK rs : rs = ranges
  OBVIOUS
<1>7. \A b : Layout(ops, b, opnum) /\ ranges = RangesOf(ops, b, opnum) /\ Holds(ops, b, opnum)
             => rs = OtherRanges(ops, b, opnum, op.index)
  <2>1. LiveAfter(ops, opnum) \ {op.index} = LiveAfter(ops, opnum)
    BY <1>4
  <2> QED BY <1>6, <2>1 DEF RangesOf, OtherRanges
<1>8. \/ r.ptr = NULL /\ malloc_error(ranges)
      \/ r.ptr # NULL /\ Examine(op.index, r.ptr, op.size, rs, TRUE)
  BY <1>2, <1>6 DEF valid_ALLOC
<1> QED BY <1>1, <1>2, <1>5, <1>7, <1>8, ValidAsk

LEMMA ValidReallocStep ==
  ASSUME ALIGNMENT = 8, RoomAbove, IInv, ValidRealloc
  PROVE  IInv'
<1>1. phase = "valid" /\ MoreOps /\ op.type = "REALLOC" /\ AfterValidOp
  BY DEF ValidRealloc
<1>2. PICK r : /\ r = mm_realloc(blocks[op.index], op.size) /\ mem_brk' = r.brk
               /\ valid_REALLOC(op.index, op.size, r.ptr, DataPreserved(r)) /\ Filled(r)
  BY DEF ValidRealloc
<1>3. /\ ops \in Seq(traceop_t) /\ opnum \in 0 .. Len(ops) /\ opnum < Len(ops) /\ HeapOK
      /\ Sound(ops) /\ Len(ops) \in Nat
  BY <1>1, InTrace DEF IInv, InPass
<1>4. op.size \in 0 .. MaxInt /\ op.index \in LiveAfter(ops, opnum)
  <2>1. opnum + 1 \in 1 .. Len(ops) /\ (opnum + 1) - 1 = opnum /\ opnum \in Nat
    BY <1>3
  <2> QED BY <1>1, <1>3, <2>1, Request DEF op, Sound
<1>5. r = Failed \/ (r.ptr # NULL /\ Fits(op.size) /\ Places(r, op.size))
  BY <1>2, <1>3, <1>4, ReallocPlaces
<1>6. PICK rs, preserved : /\ rs = remove_range(ranges, blocks[op.index])
                           /\ preserved = DataPreserved(r) /\ preserved \in BOOLEAN
  BY DEF DataPreserved
<1>7. ASSUME NEW b, Layout(ops, b, opnum), ranges = RangesOf(ops, b, opnum), Holds(ops, b, opnum)
      PROVE  rs = OtherRanges(ops, b, opnum, op.index)
  <2>1. blocks[op.index] = Ptr(ops, b, opnum, op.index)
    BY <1>4, <1>7 DEF Holds
  <2>2. opnum \in 0 .. opnum
    BY <1>3
  <2> QED BY <1>3, <1>4, <1>6, <1>7, <2>1, <2>2, RemoveOne
<1>8. \/ r.ptr = NULL /\ malloc_error(ranges)
      \/ r.ptr # NULL /\ Examine(op.index, r.ptr, op.size, rs, preserved)
  BY <1>2, <1>6 DEF valid_REALLOC
<1> QED BY <1>1, <1>2, <1>5, <1>6, <1>7, <1>8, ValidAsk

LEMMA ValidFreeStep ==
  ASSUME IInv, ValidFree
  PROVE  IInv'
<1>1. /\ phase = "valid" /\ MoreOps /\ op.type = "FREE"
      /\ verdict = "running"
      /\ ranges' = remove_range(ranges, blocks[op.index])
      /\ UNCHANGED blocks /\ UNCHANGED mem /\ UNCHANGED mem_brk
  BY DEF ValidFree, valid_FREE, IInv, Judging, mmVars
<1>2. /\ verdict' = "running" /\ phase' = "valid" /\ opnum' = opnum + 1
      /\ tracenum' = tracenum /\ tracefiles' = tracefiles
  BY <1>1 DEF ValidFree, valid_FREE, AfterValidOp, Advance
<1>3. /\ ops \in Seq(traceop_t) /\ opnum \in 0 .. Len(ops) /\ opnum < Len(ops) /\ HeapOK
      /\ Sound(ops) /\ Len(ops) \in Nat /\ blocks \in [Ids -> Nat]
      /\ tracefiles \in Workloads /\ tracenum \in 0 .. Len(tracefiles) /\ tracenum < Len(tracefiles)
  BY <1>1, InTrace DEF IInv, InPass, Control
<1>4. PICK t, n, b : /\ t = ops /\ n = opnum /\ Layout(t, b, n) /\ mem_brk = b[n]
                     /\ Holds(t, b, n) /\ ranges = RangesOf(t, b, n)
  BY <1>1 DEF IInv, Judging
<1>5. /\ t \in Seq(traceop_t) /\ n \in Nat /\ n < Len(t) /\ op = t[n + 1] /\ t[n + 1].type = "FREE"
      /\ Len(t) \in Nat /\ n \in 0 .. Len(t) /\ n + 1 \in 0 .. Len(t) /\ n \in 0 .. n
  BY <1>1, <1>3, <1>4 DEF op
<1>6. op.index \in LiveAfter(t, n)
  <2>1. n + 1 \in 1 .. Len(t) /\ (n + 1) - 1 = n
    BY <1>5
  <2> QED BY <1>3, <1>4, <1>5, <2>1 DEF Sound
<1>7. PICK c : Layout(t, c, n + 1) /\ c[n + 1] = b[n] /\ \A k \in 0 .. n : c[k] = b[k]
  BY <1>4, <1>5, LayoutFree
<1>8. Holds(t, c, n) /\ ranges = RangesOf(t, c, n)
  BY <1>4, <1>5, <1>7, LayoutPrefix
<1>9. Holds(t, c, n + 1)'
  BY <1>1, <1>5, <1>8, FreeHolds
<1>10. ranges' = RangesOf(t, c, n + 1)
  <2>1. blocks[op.index] = Ptr(t, c, n, op.index)
    BY <1>6, <1>8 DEF Holds
  <2>2. n \in 0 .. n + 1
    BY <1>5
  <2>3. ranges' = OtherRanges(t, c, n, op.index)
    BY <1>1, <1>5, <1>6, <1>7, <1>8, <2>1, <2>2, RemoveOne
  <2> QED BY <1>5, <2>3, FreeRanges
<1>11. ops' = t
  BY <1>2, <1>4 DEF ops
<1>12. Control'
  <2>1. HeapOK'
    BY <1>1, <1>3 DEF HeapOK
  <2>2. opnum' \in 0 .. Len(t)
    BY <1>2, <1>4, <1>5
  <2> QED BY <1>1, <1>2, <1>3, <1>11, <2>1, <2>2 DEF Control, Before, InPass
<1>13. mem_brk' = c[n + 1] /\ opnum' = n + 1
  BY <1>1, <1>2, <1>4, <1>7
<1> QED BY <1>2, <1>7, <1>9, <1>10, <1>11, <1>12, <1>13, StillJudging

-----------------------------------------------------------------------------
(* A request of a later pass *)

\* The block that the layout foresees fits, so the package delivers it.
LEMMA MeasuredAsk ==
  ASSUME ALIGNMENT = 8, IInv, phase \in Measured, MoreOps, op.type # "FREE",
         NEW r, Fits(op.size) => r.ptr # NULL,
         r.ptr # NULL => Fits(op.size) /\ Places(r, op.size),
         Leaves(r), UNCHANGED <<ranges, tracefiles, tracenum>>,
         \/ r.ptr = NULL
         \/ /\ r.ptr # NULL /\ blocks' = [blocks EXCEPT ![op.index] = r.ptr]
            /\ opnum' = opnum + 1 /\ phase' = phase
  PROVE  IInv'
<1>1. /\ ops \in Seq(traceop_t) /\ Len(ops) \in Nat
      /\ tracefiles \in Workloads /\ tracenum \in Nat /\ tracenum < Len(tracefiles)
      /\ opnum \in 0 .. Len(ops) /\ opnum < Len(ops)
      /\ HeapOK /\ blocks \in [Ids -> Nat]
  BY InTrace DEF IInv, InPass, Measured
<1>2. PICK t, n, c : /\ t = ops /\ n = opnum
                     /\ Layout(t, c, Len(t)) /\ ranges = RangesOf(t, c, Len(t))
                     /\ mem_brk = c[n] /\ Holds(t, c, n)
  <2>1. phase \in Judged /\ Following
    BY DEF IInv, Measured, Judged
  <2>2. PICK c : /\ Layout(ops, c, Len(ops)) /\ ranges = RangesOf(ops, c, Len(ops))
                 /\ phase \in Measured => mem_brk = c[opnum] /\ Holds(ops, c, opnum)
    BY <2>1, Zenon DEF Following
  <2> QED BY <2>2
<1>3. /\ t \in Seq(traceop_t) /\ Len(t) \in Nat /\ Len(t) \in 0 .. Len(t)
      /\ n \in Nat /\ n < Len(t) /\ n \in 0 .. Len(t) /\ n + 1 \in 0 .. Len(t)
      /\ op = t[n + 1] /\ t[n + 1].type # "FREE"
  BY <1>1, <1>2 DEF op
<1>4. /\ t[n + 1].index \in Ids /\ t[n + 1].size \in 0 .. MaxInt /\ t[n + 1].size \in Nat
  BY <1>3, Request
<1>5. PICK h \in Nat, to \in Nat, end \in Nat, hi \in Nat :
        /\ h = c[n] /\ to = c[n + 1] /\ end = c[Len(t)] /\ hi = mem_max_addr
        /\ to <= end /\ end <= hi
  <2>1. c[n] \in Nat /\ c[n + 1] \in Nat /\ c[Len(t)] \in Nat /\ mem_max_addr \in Nat
    BY <1>1, <1>2, <1>3, HeapFacts DEF Layout
  <2>2. n + 1 <= Len(t)
    BY <1>3
  <2>3. c[n + 1] <= c[Len(t)] /\ c[Len(t)] <= mem_max_addr
    BY <1>2, <1>3, <2>2 DEF Layout
  <2> QED BY <2>1, <2>3
<1>6. PICK z \in Nat, new \in Int :
        /\ z = t[n + 1].size /\ new = newsize(z) /\ to = h + new /\ h + 8 + z <= to
  <2>1. newsize(t[n + 1].size) \in Int
    BY <1>4, NewsizeBounds
  <2>2. n + 1 \in 1 .. Len(t) /\ (n + 1) - 1 = n
    BY <1>3
  <2>3. c[n + 1] = c[n] + newsize(t[n + 1].size) /\ c[n] + 8 + t[n + 1].size <= c[n + 1]
    BY <1>2, <1>3, <2>2 DEF Layout
  <2> QED BY <1>4, <1>5, <2>1, <2>3
<1>7. Fits(op.size)
  <2>1. new >= 0 /\ h + new <= hi
    BY <1>5, <1>6, SMTT(30)
  <2> QED BY <1>2, <1>3, <1>5, <1>6, <2>1 DEF Fits
<1>8. /\ r.ptr # NULL /\ Places(r, op.size) /\ blocks' = [blocks EXCEPT ![op.index] = r.ptr]
      /\ opnum' = opnum + 1 /\ phase' = phase
  BY <1>7
<1>9. /\ r.ptr = c[n] + 8 /\ r.brk = c[n + 1] /\ r.mem = [x \in HeapAddr |-> r.mem[x]]
      /\ r.mem[c[n]] = t[n + 1].size /\ \A x \in HeapAddr : x < c[n] => r.mem[x] = mem[x]
  BY <1>2, <1>3, <1>5, <1>6, <1>8 DEF Places
<1>10. Holds(t, c, n + 1)'
  <2>1. blocks' = [blocks EXCEPT ![t[n + 1].index] = c[n] + 8]
    BY <1>3, <1>8, <1>9
  <2>2. mem'[c[n]] = t[n + 1].size /\ \A x \in HeapAddr : x < c[n] => mem'[x] = mem[x]
    BY <1>9 DEF Leaves
  <2> QED BY <1>1, <1>2, <1>3, <2>1, <2>2, AskHolds
<1>11. ops' = t
  BY <1>2 DEF ops
<1>12. Control'
  <2>1. HeapOK'
    <3>1. (h + new) \in mem_start_brk .. mem_max_addr
      <4>1. PICK lo \in Nat : lo = mem_start_brk /\ lo <= h
        BY <1>1, <1>2, <1>5, HeapFacts
      <4>2. lo <= to
        BY <1>6, <4>1
      <4>3. to \in lo .. hi
        BY <1>5, <4>2
      <4> QED BY <1>5, <1>6, <4>1, <4>3
    <3>2. mem_brk' \in mem_start_brk .. mem_max_addr
      BY <1>5, <1>6, <1>9, <3>1 DEF Leaves
    <3>3. mem' = [x \in HeapAddr |-> mem'[x]]
      BY <1>9 DEF Leaves
    <3> QED BY <3>2, <3>3 DEF HeapOK
  <2>2. opnum' \in 0 .. Len(t)
    BY <1>2, <1>3, <1>8
  <2>3. blocks' \in [Ids -> Nat]
    <3>1. r.ptr \in Nat
      BY <1>5, <1>9
    <3> QED BY <1>1, <1>8, <3>1
  <2>4. phase' \in {"util", "speed"}
    BY <1>8 DEF Measured
  <2>5. tracefiles' \in Workloads /\ tracenum' \in 0 .. Len(tracefiles') /\ tracenum' < Len(tracefiles')
    BY <1>1
  <2> QED BY <1>11, <2>1, <2>2, <2>3, <2>4, <2>5 DEF Control, Before, Judged
<1>13. mem_brk' = c[n + 1] /\ opnum' = n + 1
  BY <1>2, <1>8, <1>9 DEF Leaves
<1>14. phase' \in Judged /\ ranges' = RangesOf(t, c, Len(t))
  BY <1>2, <1>8 DEF Judged, Measured
<1> QED BY <1>2, <1>10, <1>11, <1>12, <1>13, <1>14, StillFollowing

LEMMA MeasuredFree ==
  ASSUME IInv, phase \in Measured, MoreOps, op.type = "FREE", opnum' = opnum + 1,
         UNCHANGED <<ranges, tracefiles, tracenum, phase, blocks, mem, mem_brk>>
  PROVE  IInv'
<1>1. /\ ops \in Seq(traceop_t) /\ Len(ops) \in Nat
      /\ tracefiles \in Workloads /\ tracenum \in Nat /\ tracenum < Len(tracefiles)
      /\ opnum \in 0 .. Len(ops) /\ opnum < Len(ops)
      /\ HeapOK /\ blocks \in [Ids -> Nat]
  BY InTrace DEF IInv, InPass, Measured
<1>2. PICK t, n, c : /\ t = ops /\ n = opnum
                     /\ Layout(t, c, Len(t)) /\ ranges = RangesOf(t, c, Len(t))
                     /\ mem_brk = c[n] /\ Holds(t, c, n)
  <2>1. phase \in Judged /\ Following
    BY DEF IInv, Measured, Judged
  <2>2. PICK c : /\ Layout(ops, c, Len(ops)) /\ ranges = RangesOf(ops, c, Len(ops))
                 /\ phase \in Measured => mem_brk = c[opnum] /\ Holds(ops, c, opnum)
    BY <2>1, Zenon DEF Following
  <2> QED BY <2>2
<1>3. /\ n \in Nat /\ n < Len(t) /\ Len(t) \in Nat /\ n + 1 \in 1 .. Len(t) /\ (n + 1) - 1 = n
      /\ t[n + 1].type = "FREE"
  BY <1>1, <1>2 DEF op
<1>4. Holds(t, c, n + 1)'
  BY <1>2, <1>3, FreeHolds
<1>5. mem_brk' = c[n + 1] /\ opnum' = n + 1
  <2>1. c[n + 1] = c[n]
    BY <1>2, <1>3 DEF Layout
  <2> QED BY <1>2, <2>1
<1>6. ops' = t
  BY <1>2 DEF ops
<1>7. Control'
  <2>1. HeapOK'
    BY <1>1 DEF HeapOK
  <2>2. opnum' \in 0 .. Len(t)
    BY <1>2, <1>3
  <2>3. phase' \in {"util", "speed"} /\ blocks' \in [Ids -> Nat]
    BY <1>1 DEF Measured
  <2>4. tracefiles' \in Workloads /\ tracenum' \in 0 .. Len(tracefiles') /\ tracenum' < Len(tracefiles')
    BY <1>1
  <2> QED BY <1>6, <2>1, <2>2, <2>3, <2>4 DEF Control, Before, Judged
<1>8. phase' \in Judged /\ ranges' = RangesOf(t, c, Len(t))
  BY <1>2 DEF Judged, Measured
<1> QED BY <1>2, <1>4, <1>5, <1>6, <1>7, <1>8, StillFollowing

LEMMA UtilAllocStep ==
  ASSUME ALIGNMENT = 8, RoomAbove, IInv, UtilAlloc
  PROVE  IInv'
<1>1. /\ phase = "util" /\ MoreOps /\ op.type = "ALLOC"
      /\ UNCHANGED <<ranges, tracefiles, tracenum>>
  BY DEF UtilAlloc
<1>2. PICK r : /\ r = mm_malloc(op.size) /\ Leaves(r)
               /\ r.ptr = NULL \/ (r.ptr # NULL /\ UtilGain(r.ptr, op.size, op.size))
  BY DEF UtilAlloc
<1>3. ops \in Seq(traceop_t) /\ opnum \in Nat /\ opnum < Len(ops) /\ HeapOK
  BY <1>1, InTrace DEF IInv, InPass
<1>4. op.size \in 0 .. MaxInt
  BY <1>3, Request DEF op
<1>5. /\ Fits(op.size) => r.ptr # NULL
      /\ r.ptr # NULL => Fits(op.size) /\ Places(r, op.size)
  BY <1>2, <1>3, <1>4, MallocPlaces
<1>6. \/ r.ptr = NULL
      \/ /\ r.ptr # NULL /\ blocks' = [blocks EXCEPT ![op.index] = r.ptr]
         /\ opnum' = opnum + 1 /\ phase' = phase
  BY <1>2 DEF UtilGain, Advance
<1> QED BY <1>1, <1>2, <1>5, <1>6, MeasuredAsk DEF Measured

LEMMA UtilReallocStep ==
  ASSUME ALIGNMENT = 8, RoomAbove, IInv, UtilRealloc
  PROVE  IInv'
<1>1. /\ phase = "util" /\ MoreOps /\ op.type = "REALLOC"
      /\ UNCHANGED <<ranges, tracefiles, tracenum>>
  BY DEF UtilRealloc
<1>2. PICK r : /\ r = mm_realloc(blocks[op.index], op.size) /\ Leaves(r)
               /\ \/ r.ptr = NULL
                  \/ /\ r.ptr # NULL
                     /\ UtilGain(r.ptr, op.size, op.size - block_sizes[op.index])
  BY DEF UtilRealloc
<1>3. ops \in Seq(traceop_t) /\ opnum \in Nat /\ opnum < Len(ops) /\ HeapOK
  BY <1>1, InTrace DEF IInv, InPass
<1>4. op.size \in 0 .. MaxInt
  BY <1>3, Request DEF op
<1>5. /\ Fits(op.size) => r.ptr # NULL
      /\ r.ptr # NULL => Fits(op.size) /\ Places(r, op.size)
  BY <1>2, <1>3, <1>4, ReallocPlaces
<1>6. \/ r.ptr = NULL
      \/ /\ r.ptr # NULL /\ blocks' = [blocks EXCEPT ![op.index] = r.ptr]
         /\ opnum' = opnum + 1 /\ phase' = phase
  BY <1>2 DEF UtilGain, Advance
<1> QED BY <1>1, <1>2, <1>5, <1>6, MeasuredAsk DEF Measured

LEMMA SpeedCallStep ==
  ASSUME ALIGNMENT = 8, RoomAbove, IInv, SpeedAlloc \/ SpeedRealloc
  PROVE  IInv'
<1>1. phase = "speed" /\ MoreOps /\ op.type # "FREE"
  BY DEF SpeedAlloc, SpeedRealloc
<1>2. PICK r : /\ r = mm_malloc(op.size) \/ r = mm_realloc(blocks[op.index], op.size)
               /\ SpeedCall(r)
  <2>1. CASE SpeedAlloc
    BY <2>1 DEF SpeedAlloc
  <2>2. CASE SpeedRealloc
    BY <2>2 DEF SpeedRealloc
  <2> QED BY <2>1, <2>2
<1>3. ops \in Seq(traceop_t) /\ opnum \in Nat /\ opnum < Len(ops) /\ HeapOK
  BY <1>1, InTrace DEF IInv, InPass
<1>4. op.size \in 0 .. MaxInt
  BY <1>3, Request DEF op
<1>5. /\ Fits(op.size) => r.ptr # NULL
      /\ r.ptr # NULL => Fits(op.size) /\ Places(r, op.size)
  BY <1>2, <1>3, <1>4, MallocPlaces, ReallocPlaces
<1>6. /\ Leaves(r) /\ UNCHANGED <<ranges, tracefiles, tracenum>>
      /\ \/ r.ptr = NULL
         \/ /\ r.ptr # NULL /\ blocks' = [blocks EXCEPT ![op.index] = r.ptr]
            /\ opnum' = opnum + 1 /\ phase' = phase
  BY <1>2 DEF SpeedCall, SpeedKeep, Advance
<1> QED BY <1>1, <1>5, <1>6, MeasuredAsk DEF Measured

LEMMA MeasuredFreeStep ==
  ASSUME IInv, UtilFree \/ SpeedFree
  PROVE  IInv'
<1>1. /\ phase \in Measured /\ MoreOps /\ op.type = "FREE" /\ opnum' = opnum + 1
      /\ UNCHANGED <<ranges, tracefiles, tracenum, phase, blocks, mem, mem_brk>>
  <2>1. CASE UtilFree
    BY <2>1 DEF UtilFree, Advance, mmVars, evalVars, Measured
  <2>2. CASE SpeedFree
    BY <2>2 DEF SpeedFree, Advance, mmVars, evalVars, Measured
  <2> QED BY <2>1, <2>2
<1> QED BY <1>1, MeasuredFree

-----------------------------------------------------------------------------
(* From pass to pass *)

\* Between the passes over a trace the layout stands.
LEMMA PassEnds ==
  ASSUME IInv, InPass, ~MoreOps, phase' \in {"begin_util", "begin_speed"},
         UNCHANGED <<ranges, tracefiles, tracenum, blocks, mem, mem_brk>>
  PROVE  IInv'
<1>1. /\ tracefiles \in Workloads /\ tracenum \in Nat /\ tracenum < Len(tracefiles)
      /\ Len(ops) \in Nat /\ opnum = Len(ops)
      /\ HeapOK /\ blocks \in [Ids -> Nat] /\ tracenum \in 0 .. Len(tracefiles)
  BY InTrace DEF IInv, Control
<1>2. \E c : Layout(ops, c, Len(ops)) /\ ranges = RangesOf(ops, c, Len(ops))
  <2>1. CASE phase = "valid"
    <3>1. \E b : Layout(ops, b, opnum) /\ ranges = RangesOf(ops, b, opnum)
      BY <2>1 DEF IInv, Judging
    <3> QED BY <1>1, <3>1
  <2>2. CASE phase \in Judged
    BY <2>2 DEF IInv, Following
  <2> QED BY <2>1, <2>2 DEF InPass, Judged
<1>3. PICK t, n, c : /\ t = ops /\ n = opnum
                     /\ Layout(t, c, Len(t)) /\ ranges = RangesOf(t, c, Len(t))
  BY <1>2
<1>4. ops' = t
  BY <1>3 DEF ops
<1>5. Control'
  <2>1. HeapOK'
    BY <1>1 DEF HeapOK
  <2> QED BY <1>1, <2>1 DEF Control, Before, Judged, InPass
<1> QED BY <1>3, <1>4, <1>5, StillFollowing DEF Measured, Judged

\* A pass begins with the heap reset, and no pointer of an earlier pass counts.
LEMMA PassBegins ==
  ASSUME IInv, phase \in {"begin_util", "begin_speed"}, phase' \in Measured, opnum' = 0,
         mem_reset_brk, UNCHANGED <<ranges, tracefiles, tracenum, blocks, mem>>
  PROVE  IInv'
<1>1. /\ tracefiles \in Workloads /\ tracenum \in 0 .. Len(tracefiles) /\ tracenum < Len(tracefiles)
      /\ HeapOK /\ blocks \in [Ids -> Nat]
  BY DEF IInv, Control, Before
<1>2. Len(ops) \in Nat
  BY <1>1, TraceFacts DEF IInv
<1>3. PICK t, c : /\ t = ops /\ Layout(t, c, Len(t)) /\ ranges = RangesOf(t, c, Len(t))
  <2>1. phase \in Judged
    BY DEF Judged
  <2> QED BY <2>1 DEF IInv, Following
<1>4. ops' = t
  BY <1>3 DEF ops
<1>5. mem_brk' = c[0] /\ Holds(t, c, 0)'
  BY <1>3, EmptyLayout DEF Layout, mem_reset_brk
<1>6. Control'
  <2>1. HeapOK'
    <3>1. mem_start_brk \in mem_start_brk .. mem_max_addr
      BY <1>1, HeapFacts
    <3> QED BY <1>1, <3>1 DEF HeapOK, mem_reset_brk
  <2>2. phase' \in {"util", "speed"} /\ opnum' \in 0 .. Len(t)
    BY <1>2, <1>3 DEF Measured
  <2> QED BY <1>1, <1>4, <2>1, <2>2 DEF Control, Before, Judged
<1>7. phase' \in Judged /\ ranges' = RangesOf(t, c, Len(t))
  BY <1>3 DEF Measured, Judged
<1> QED BY <1>3, <1>4, <1>5, <1>6, <1>7, StillFollowing

LEMMA BeginValidStep ==
  ASSUME IInv, BeginValid
  PROVE  IInv'
<1>1. /\ phase = "begin_valid" /\ phase' = "valid" /\ opnum' = 0 /\ mem_brk' = mem_start_brk
      /\ verdict' = "running" /\ ranges' = {}
      /\ UNCHANGED blocks /\ UNCHANGED mem /\ UNCHANGED tracefiles /\ UNCHANGED tracenum
  BY DEF BeginValid, valid_begin, mem_reset_brk, clear_ranges
<1>2. /\ tracefiles \in Workloads /\ tracenum \in 0 .. Len(tracefiles) /\ tracenum < Len(tracefiles)
      /\ HeapOK /\ blocks \in [Ids -> Nat]
  BY <1>1 DEF IInv, Control, Before
<1>3. Len(ops) \in Nat
  BY <1>2, TraceFacts DEF IInv
<1>4. PICK t, c : /\ t = ops /\ c = [k \in 0 .. 0 |-> mem_start_brk] /\ c[0] = mem_start_brk
                  /\ Layout(t, c, 0) /\ RangesOf(t, c, 0) = {} /\ Holds(t, c, 0)'
  BY EmptyLayout
<1>5. ops' = t
  BY <1>1, <1>4 DEF ops
<1>6. Control'
  <2>1. HeapOK'
    <3>1. mem_start_brk \in mem_start_brk .. mem_max_addr
      BY <1>2, HeapFacts
    <3> QED BY <1>1, <1>2, <3>1 DEF HeapOK
  <2>2. opnum' \in 0 .. Len(t)
    BY <1>1, <1>3, <1>4
  <2> QED BY <1>1, <1>2, <1>5, <2>1, <2>2 DEF Control, Before
<1> QED BY <1>1, <1>4, <1>5, <1>6, StillJudging

\* Nothing but counters and statistics changes.
LEMMA Idle ==
  ASSUME IInv,
         UNCHANGED <<ranges, verdict, tracefiles, tracenum, phase, opnum, blocks, mem, mem_brk>>
  PROVE  IInv'
<1>1. Control'
  <2>1. ops' = ops /\ InPass' = InPass /\ HeapOK' = HeapOK
    BY DEF ops, InPass, HeapOK
  <2> QED BY <2>1 DEF IInv, Control
<1>2. CASE phase \notin {"valid"} \cup Judged
  BY <1>1, <1>2 DEF IInv, Judging, Following
<1>3. CASE phase = "valid"
  <2>1. PICK t, n, b : /\ t = ops /\ n = opnum /\ Layout(t, b, n) /\ mem_brk = b[n]
                       /\ Holds(t, b, n) /\ ranges = RangesOf(t, b, n)
    BY <1>3 DEF IInv, Judging
  <2>2. ops' = t /\ Holds(t, b, n)'
    BY <2>1 DEF ops, Holds
  <2> QED BY <1>1, <1>3, <2>1, <2>2, StillJudging DEF IInv, Judging
<1>4. CASE phase \in Judged
  <2>1. PICK t, n, b : /\ t = ops /\ n = opnum /\ Layout(t, b, Len(t))
                       /\ ranges = RangesOf(t, b, Len(t))
                       /\ phase \in Measured => mem_brk = b[n] /\ Holds(t, b, n)
    <3>1. PICK b : /\ Layout(ops, b, Len(ops)) /\ ranges = RangesOf(ops, b, Len(ops))
                   /\ phase \in Measured => mem_brk = b[opnum] /\ Holds(ops, b, opnum)
      BY <1>4, Zenon DEF IInv, Following
    <3> QED BY <3>1
  <2>2. ops' = t /\ phase' \in Judged /\ ranges' = RangesOf(t, b, Len(t))
    BY <1>4, <2>1 DEF ops
  <2>3. phase' \in Measured => opnum' = n /\ mem_brk' = b[n] /\ Holds(t, b, n)'
    BY <2>1 DEF Holds
  <2> QED BY <1>1, <2>1, <2>2, <2>3, StillFollowing
<1> QED BY <1>2, <1>3, <1>4

\* main between two traces, and when it ends
LEMMA LoopStep ==
  ASSUME IInv, ReadTrace \/ NextTrace \/ Report
  PROVE  IInv'
<1>1. /\ tracefiles \in Workloads /\ tracenum \in 0 .. Len(tracefiles)
      /\ HeapOK /\ blocks \in [Ids -> Nat]
  BY DEF IInv, Control
<1>2. Len(tracefiles) \in Nat
  BY <1>1, MDriverAssumption
<1>3. UNCHANGED mem_brk /\ UNCHANGED mem /\ UNCHANGED tracefiles
  BY DEF ReadTrace, NextTrace, Report, mmVars
<1>4. /\ phase' \in {"begin_valid", "read", "exit0"}
      /\ phase' = "begin_valid" => tracenum' < Len(tracefiles)
      /\ tracenum' \in 0 .. Len(tracefiles) /\ blocks' \in [Ids -> Nat]
  <2>1. CASE ReadTrace
    <3>1. blocks' = [i \in Ids |-> 0] /\ UNCHANGED tracenum
      BY <2>1 DEF ReadTrace
    <3> QED BY <1>1, <2>1, <3>1 DEF ReadTrace
  <2>2. CASE NextTrace
    <3>1. phase = "begin_speed" /\ phase' = "read" /\ tracenum' = tracenum + 1 /\ UNCHANGED blocks
      BY <2>2 DEF NextTrace, evalVars
    <3>2. tracenum < Len(tracefiles)
      BY <3>1 DEF IInv, Control, Before
    <3> QED BY <1>1, <1>2, <3>1, <3>2
  <2>3. CASE Report
    BY <1>1, <2>3 DEF Report, evalVars
  <2> QED BY <2>1, <2>2, <2>3
<1>5. Control'
  <2>1. HeapOK'
    BY <1>1, <1>3 DEF HeapOK
  <2> QED BY <1>1, <1>3, <1>4, <2>1 DEF Control, Before, InPass
<1> QED BY <1>4, <1>5 DEF IInv, Judging, Following, Judged

-----------------------------------------------------------------------------
(* The theorems *)

LEMMA InitIInv == Init => IInv
<1> SUFFICES ASSUME Init PROVE IInv
  OBVIOUS
<1>1. mem_start_brk \in mem_start_brk .. mem_max_addr
  BY MemlibAssumption, ConfigAssumption DEF mem_max_addr
<1>2. HeapOK
  BY <1>1 DEF Init, mem_init, HeapOK
<1>3. tracefiles \in Workloads /\ 0 \in 0 .. Len(tracefiles)
  BY MDriverAssumption DEF Init
<1>4. Control
  BY <1>2, <1>3 DEF Init, Control, Before, InPass
<1> QED BY <1>4 DEF Init, IInv, Judging, Following, Judged

LEMMA NextIInv ==
  ASSUME ALIGNMENT = 8, RoomAbove, IInv, [Next]_vars
  PROVE  IInv'
<1>1. CASE ReadTrace \/ NextTrace \/ Report
  BY <1>1, LoopStep
<1>2. CASE BeginValid
  BY <1>2, BeginValidStep
<1>3. CASE ValidAlloc
  BY <1>3, ValidAllocStep
<1>4. CASE ValidRealloc
  BY <1>4, ValidReallocStep
<1>5. CASE ValidFree
  BY <1>5, ValidFreeStep
<1>6. CASE EndValid
  <2>1. phase = "valid" /\ ~MoreOps /\ phase' = "begin_util"
        /\ UNCHANGED <<ranges, tracefiles, tracenum, blocks, mem, mem_brk>>
    BY <1>6 DEF EndValid, valid_return, mmVars
  <2> QED BY <2>1, PassEnds DEF InPass
<1>7. CASE BeginUtil
  <2>1. phase = "begin_util" /\ phase' = "util" /\ opnum' = 0 /\ mem_reset_brk
        /\ UNCHANGED <<ranges, tracefiles, tracenum, blocks, mem>>
    BY <1>7 DEF BeginUtil, evalVars
  <2> QED BY <2>1, PassBegins DEF Measured
<1>8. CASE UtilAlloc
  BY <1>8, UtilAllocStep
<1>9. CASE UtilRealloc
  BY <1>9, UtilReallocStep
<1>10. CASE UtilFree \/ SpeedFree
  BY <1>10, MeasuredFreeStep
<1>11. CASE EndUtil
  <2>1. phase = "util" /\ ~MoreOps /\ phase' = "begin_speed"
        /\ UNCHANGED <<ranges, tracefiles, tracenum, blocks, mem, mem_brk>>
    BY <1>11 DEF EndUtil, evalVars, mmVars
  <2> QED BY <2>1, PassEnds DEF InPass
<1>12. CASE BeginSpeed
  <2>1. phase = "begin_speed" /\ phase' = "speed" /\ opnum' = 0 /\ mem_reset_brk
        /\ UNCHANGED <<ranges, tracefiles, tracenum, blocks, mem>>
    BY <1>12 DEF BeginSpeed, evalVars
  <2> QED BY <2>1, PassBegins DEF Measured
<1>13. CASE SpeedAlloc \/ SpeedRealloc
  BY <1>13, SpeedCallStep
<1>14. CASE EndSpeed
  <2>1. phase = "speed" /\ ~MoreOps /\ phase' = "begin_speed"
        /\ UNCHANGED <<ranges, tracefiles, tracenum, blocks, mem, mem_brk>>
    BY <1>14 DEF EndSpeed, evalVars, mmVars
  <2> QED BY <2>1, PassEnds DEF InPass
<1>15. CASE Exited \/ UNCHANGED vars
  <2>1. UNCHANGED <<ranges, verdict, tracefiles, tracenum, phase, opnum, blocks, mem, mem_brk>>
    BY <1>15 DEF Exited, vars, mmVars, evalVars
  <2> QED BY <2>1, Idle
<1> QED
  BY <1>1, <1>2, <1>3, <1>4, <1>5, <1>6, <1>7, <1>8, <1>9, <1>10, <1>11, <1>12, <1>13, <1>14,
     <1>15 DEF Next

LEMMA SpecIInv ==
  ASSUME ALIGNMENT = 8, RoomAbove
  PROVE  Spec => []IInv
<1>1. IInv /\ [Next]_vars => IInv'
  BY NextIInv
<1> QED BY <1>1, InitIInv, PTL DEF Spec

\* What a pass holds, whichever of the three it is
LEMMA PassHolds ==
  ASSUME IInv, InPass
  PROVE  \E b, m : /\ m \in 0 .. Len(ops) /\ opnum \in 0 .. m /\ Layout(ops, b, m)
                   /\ mem_brk = b[opnum] /\ Holds(ops, b, opnum)
<1>1. opnum \in 0 .. Len(ops) /\ Len(ops) \in Nat
  BY InTrace DEF IInv
<1>2. CASE phase = "valid"
  <2>1. \E b : Layout(ops, b, opnum) /\ mem_brk = b[opnum] /\ Holds(ops, b, opnum)
    BY <1>2 DEF IInv, Judging
  <2>2. opnum \in 0 .. opnum
    BY <1>1
  <2> QED BY <1>1, <2>1, <2>2
<1>3. CASE phase \in Measured
  <2>1. phase \in Judged
    BY <1>3 DEF Measured, Judged
  <2>2. \E b : Layout(ops, b, Len(ops)) /\ mem_brk = b[opnum] /\ Holds(ops, b, opnum)
    BY <1>3, <2>1, Zenon DEF IInv, Following
  <2>3. Len(ops) \in 0 .. Len(ops)
    BY <1>1
  <2> QED BY <1>1, <2>2, <2>3
<1> QED BY <1>2, <1>3 DEF InPass, Measured

LEMMA FreshPointers ==
  ASSUME ALIGNMENT = 8, IInv
  PROVE  PointersAreOfThisPass
<1> SUFFICES ASSUME InPass PROVE PointersAreOfThisPass
  BY DEF PointersAreOfThisPass
<1>1. PICK t, n, b, m : /\ t = ops /\ n = opnum /\ m \in 0 .. Len(t) /\ n \in 0 .. m
                        /\ Layout(t, b, m) /\ mem_brk = b[n] /\ Holds(t, b, n)
  <2>1. PICK b, m : /\ m \in 0 .. Len(ops) /\ opnum \in 0 .. m /\ Layout(ops, b, m)
                    /\ mem_brk = b[opnum] /\ Holds(ops, b, opnum)
    BY PassHolds
  <2> QED BY <2>1
<1>2. t \in Seq(traceop_t)
  BY <1>1, InTrace DEF IInv
<1>3. ASSUME NEW i \in LiveAfter(t, n)
      PROVE  /\ mem_heap_lo <= blocks[i] - SIZE_T_SIZE
             /\ blocks[i] + SizeAfter(t, n, i) <= mem_brk
             /\ mem[blocks[i] - SIZE_T_SIZE] = SizeAfter(t, n, i)
  <2>1. PICK q \in Nat : q = Ptr(t, b, n, i) /\ mem_start_brk + 8 <= q
    BY <1>1, <1>2, LayoutApart
  <2>2. blocks[i] = q /\ q + SizeAfter(t, n, i) <= mem_brk /\ mem[q - 8] = SizeAfter(t, n, i)
    BY <1>1, <1>2, <2>1, LayoutApart DEF Holds
  <2>3. mem_start_brk <= q - 8
    BY <2>1, MemlibAssumption
  <2> QED BY <2>2, <2>3, HeaderSize DEF mem_heap_lo
<1>4. ASSUME NEW i \in LiveAfter(t, n), NEW j \in LiveAfter(t, n), i # j
      PROVE  \/ blocks[i] + SizeAfter(t, n, i) <= blocks[j] - SIZE_T_SIZE
             \/ blocks[j] + SizeAfter(t, n, j) <= blocks[i] - SIZE_T_SIZE
  <2>1. blocks[i] = Ptr(t, b, n, i) /\ blocks[j] = Ptr(t, b, n, j)
    BY <1>1 DEF Holds
  <2>2. \/ Ptr(t, b, n, i) + SizeAfter(t, n, i) <= Ptr(t, b, n, j) - 8
        \/ Ptr(t, b, n, j) + SizeAfter(t, n, j) <= Ptr(t, b, n, i) - 8
    BY <1>1, <1>2, <1>4, LayoutApart
  <2> QED BY <2>1, <2>2, HeaderSize
<1> QED BY <1>1, <1>3, <1>4 DEF PointersAreOfThisPass

\* mdriver.c: in each of the three passes over a trace, and through any number
\* of them, the pointers that the driver holds are blocks that this pass has
\* received and still owns.
THEOREM PointersStayFresh ==
  ASSUME ALIGNMENT = 8, RoomAbove
  PROVE  Spec => []PointersAreOfThisPass
<1>1. IInv => PointersAreOfThisPass
  BY FreshPointers
<1> QED BY <1>1, SpecIInv, PTL

LEMMA MeasuredLayout ==
  ASSUME IInv
  PROVE  LayoutReproduced
<1> SUFFICES ASSUME phase \in Measured, ~MoreOps
             PROVE  ranges = {range(blocks[i], SizeAfter(ops, opnum, i)) : i \in LiveAfter(ops, opnum)}
  BY DEF LayoutReproduced, Measured
<1>1. opnum = Len(ops)
  BY InTrace DEF IInv, InPass, Measured
<1>2. phase \in Judged
  BY DEF Measured, Judged
<1>3. PICK b : ranges = RangesOf(ops, b, Len(ops)) /\ Holds(ops, b, opnum)
  BY <1>2, Zenon DEF IInv, Following
<1>4. \A i \in LiveAfter(ops, opnum) : blocks[i] = Ptr(ops, b, opnum, i)
  BY <1>3, Zenon DEF Holds
<1> QED BY <1>1, <1>3, <1>4 DEF RangesOf

\* mdriver.c: what eval_mm_util and eval_mm_speed measure is the layout that
\* eval_mm_valid judged, address for address.
THEOREM JudgedLayoutIsMeasured ==
  ASSUME ALIGNMENT = 8, RoomAbove
  PROVE  Spec => []LayoutReproduced
<1>1. IInv => LayoutReproduced
  BY MeasuredLayout
<1> QED BY <1>1, SpecIInv, PTL

LEMMA NoFailure == IInv => NoAppError
  BY DEF IInv, Control, NoAppError, Before, Judged

\* mdriver.c: a package that eval_mm_valid has passed on a trace does not make
\* eval_mm_util or eval_mm_speed call app_error.
THEOREM JudgedPackageNeverFails ==
  ASSUME ALIGNMENT = 8, RoomAbove
  PROVE  Spec => []NoAppError
<1> QED BY NoFailure, SpecIInv, PTL

-----------------------------------------------------------------------------
(* Payload bytes allocated along a trace *)

SizesAt(t, n) == [i \in LiveAfter(t, n) |-> SizeAfter(t, n, i)]
Total(t, n) == SumOf(SizesAt(t, n), LiveAfter(t, n))

LEMMA LiveFinite ==
  ASSUME NEW t, NEW n \in Nat
  PROVE  IsFiniteSet(LiveAfter(t, n))
<1> DEFINE K == {k \in 1 .. n : /\ t[k].type # "FREE"
                               /\ \A l \in k + 1 .. n : t[l].index = t[k].index => t[l].type # "FREE"}
           f == [k \in K |-> t[k].index]
<1>1. f \in Surjection(K, LiveAfter(t, n))
  BY DEF LiveAfter, Surjection
<1>2. IsFiniteSet(K)
  <2>1. IsFiniteSet(1 .. n) /\ K \in SUBSET (1 .. n)
    BY FS_Interval
  <2> HIDE DEF K
  <2> QED BY <2>1, FS_Subset
<1> HIDE DEF K, f
<1> QED BY <1>1, <1>2, FS_Surjection

LEMMA LiveBytesIs ==
  ASSUME NEW n \in Nat
  PROVE  LiveBytes(n) = Total(ops, n)
<1> DEFINE S == LiveAfter(ops, n)
           P(g) == g = [s \in SUBSET S |->
                         IF s = {} THEN 0
                         ELSE SizeAfter(ops, n, CHOOSE x \in s : TRUE) + g[s \ {CHOOSE x \in s : TRUE}]]
<1>1. ASSUME NEW g, IsSum(g, SizesAt(ops, n), S) PROVE P(g)
  <2>1. ASSUME NEW s \in SUBSET S, s # {} PROVE SizesAt(ops, n)[Any(s)] = SizeAfter(ops, n, Any(s))
    BY <2>1, AnyIn DEF SizesAt
  <2> QED BY <1>1, <2>1 DEF IsSum, Any
<1>2. ASSUME NEW g, P(g) PROVE IsSum(g, SizesAt(ops, n), S)
  <2>1. ASSUME NEW s \in SUBSET S, s # {} PROVE SizesAt(ops, n)[Any(s)] = SizeAfter(ops, n, Any(s))
    BY <2>1, AnyIn DEF SizesAt
  <2> QED BY <1>2, <2>1 DEF IsSum, Any
<1>3. LiveBytes(n) = (CHOOSE g : P(g))[S]
  BY DEF LiveBytes, MapThenSumSet, MapThenFoldSet
<1> HIDE DEF P
<1>4. \E g : P(g)
  <2>1. PICK g : IsSum(g, SizesAt(ops, n), S)
    BY LiveFinite, SumExists
  <2> QED BY <1>1, <2>1
<1>5. P(CHOOSE g : P(g))
  BY <1>4, Zenon
<1>6. IsSum(CHOOSE g : P(g), SizesAt(ops, n), S)
  BY <1>2, <1>5
<1> QED BY <1>3, <1>6, LiveFinite, SumOfIs DEF Total

LEMMA LiveSizes ==
  ASSUME NEW t \in Seq(traceop_t), NEW n \in 0 .. Len(t), NEW i \in LiveAfter(t, n)
  PROVE  SizeAfter(t, n, i) \in Nat
<1>1. Last(t, n, i) \in 1 .. n /\ SizeAfter(t, n, i) = t[Last(t, n, i)].size
  BY LastIsAsk
<1>2. PICK k \in 1 .. Len(t) : k = Last(t, n, i)
  BY <1>1
<1>3. t[k] \in traceop_t
  OBVIOUS
<1> QED BY <1>1, <1>2, <1>3, MaxIntFacts DEF traceop_t

\* What the next request adds to the bytes allocated
OldSize(t, n) ==
  IF t[n + 1].index \in LiveAfter(t, n) THEN SizeAfter(t, n, t[n + 1].index) ELSE 0

LEMMA TotalNext ==
  ASSUME NEW t \in Seq(traceop_t), NEW n \in Nat, n < Len(t)
  PROVE  /\ Total(t, n) \in Int /\ Total(t, n + 1) \in Int /\ OldSize(t, n) \in Nat
         /\ t[n + 1].type # "FREE" =>
              Total(t, n + 1) = Total(t, n) + t[n + 1].size - OldSize(t, n)
         /\ t[n + 1].type = "FREE" => Total(t, n + 1) = Total(t, n) - OldSize(t, n)
<1> DEFINE idx == t[n + 1].index
           R == LiveAfter(t, n) \ {idx}
           rest == SumOf(SizesAt(t, n), R)
<1>1. n \in 0 .. Len(t) /\ n + 1 \in 0 .. Len(t) /\ n + 1 \in Nat
  OBVIOUS
<1>2. /\ \A i \in LiveAfter(t, n) : SizesAt(t, n)[i] = SizeAfter(t, n, i) /\ SizeAfter(t, n, i) \in Nat
      /\ \A i \in LiveAfter(t, n + 1) :
           SizesAt(t, n + 1)[i] = SizeAfter(t, n + 1, i) /\ SizeAfter(t, n + 1, i) \in Nat
  BY <1>1, LiveSizes DEF SizesAt
<1>3. IsFiniteSet(LiveAfter(t, n)) /\ IsFiniteSet(LiveAfter(t, n + 1)) /\ IsFiniteSet(R)
  BY <1>1, LiveFinite, FS_Subset
<1>4. Total(t, n) \in Int /\ Total(t, n + 1) \in Int /\ rest \in Int
  BY <1>2, <1>3, SumInt DEF Total
<1>5. OldSize(t, n) \in Nat
  BY <1>2 DEF OldSize
<1>6. Total(t, n) = rest + OldSize(t, n)
  <2>1. CASE idx \in LiveAfter(t, n)
    <3>1. R \cup {idx} = LiveAfter(t, n) /\ idx \notin R /\ \A i \in R \cup {idx} : SizesAt(t, n)[i] \in Int
      BY <1>2, <2>1
    <3>2. SumOf(SizesAt(t, n), R \cup {idx}) = SizesAt(t, n)[idx] + rest
      BY <1>3, <3>1, SumInsert
    <3>3. Total(t, n) = OldSize(t, n) + rest
      BY <1>2, <2>1, <3>1, <3>2 DEF Total, OldSize
    <3> QED BY <1>4, <1>5, <3>3
  <2>2. CASE idx \notin LiveAfter(t, n)
    <3>1. R = LiveAfter(t, n)
      BY <2>2
    <3>2. Total(t, n) = rest /\ OldSize(t, n) = 0
      BY <2>2, <3>1 DEF Total, OldSize
    <3> QED BY <1>4, <3>2
  <2> QED BY <2>1, <2>2
<1>7. CASE t[n + 1].type # "FREE"
  <2>1. /\ LiveAfter(t, n + 1) = R \cup {idx} /\ idx \notin R
        /\ Last(t, n + 1, idx) = n + 1
        /\ \A i \in R : Last(t, n + 1, i) = Last(t, n, i)
    BY <1>7, AskNext
  <2>2. SizeAfter(t, n + 1, idx) = t[n + 1].size
    <3>1. idx \in LiveAfter(t, n + 1)
      BY <2>1
    <3>2. SizeAfter(t, n + 1, idx) = t[Last(t, n + 1, idx)].size
      BY <1>1, <3>1, LastIsAsk
    <3> QED BY <2>1, <3>2
  <2>3. ASSUME NEW i \in R PROVE SizesAt(t, n + 1)[i] = SizesAt(t, n)[i]
    <3>1. i \in LiveAfter(t, n) /\ i \in LiveAfter(t, n + 1)
      BY <2>1
    <3>2. SizeAfter(t, n + 1, i) = SizeAfter(t, n, i)
      BY <1>1, <2>1, <3>1, LastIsAsk
    <3> QED BY <1>2, <3>1, <3>2
  <2>4. SumOf(SizesAt(t, n + 1), R) = rest
    BY <1>3, <2>3, SumSame
  <2>5. \A i \in R \cup {idx} : SizesAt(t, n + 1)[i] \in Int
    BY <1>2, <2>1
  <2>6. SumOf(SizesAt(t, n + 1), R \cup {idx}) = SizesAt(t, n + 1)[idx] + SumOf(SizesAt(t, n + 1), R)
    BY <1>3, <2>1, <2>5, SumInsert
  <2>7. Total(t, n + 1) = t[n + 1].size + rest /\ t[n + 1].size \in Nat
    BY <1>2, <2>1, <2>2, <2>4, <2>6 DEF Total
  <2> HIDE DEF rest
  <2> QED BY <1>4, <1>5, <1>6, <1>7, <2>7
<1>8. CASE t[n + 1].type = "FREE"
  <2>1. /\ LiveAfter(t, n + 1) = R
        /\ \A i \in LiveAfter(t, n) : Last(t, n + 1, i) = Last(t, n, i)
    BY <1>8, FreeNext
  <2>2. ASSUME NEW i \in R PROVE SizesAt(t, n + 1)[i] = SizesAt(t, n)[i]
    <3>1. i \in LiveAfter(t, n) /\ i \in LiveAfter(t, n + 1)
      BY <2>1
    <3>2. SizeAfter(t, n + 1, i) = SizeAfter(t, n, i)
      BY <1>1, <2>1, <3>1, LastIsAsk
    <3> QED BY <1>2, <3>1, <3>2
  <2>3. Total(t, n + 1) = rest
    BY <1>3, <2>1, <2>2, SumSame DEF Total
  <2> HIDE DEF rest
  <2> QED BY <1>4, <1>5, <1>6, <1>8, <2>3
<1> QED BY <1>4, <1>5, <1>7, <1>8

LEMMA TotalZero == \A t : Total(t, 0) = 0
  BY NoneLive, SumEmpty DEF Total

\* Payloads take no more than the heap they are carved off.
LEMMA TotalBelowHeap ==
  ASSUME NEW t \in Seq(traceop_t), NEW m \in 0 .. Len(t), NEW b, Layout(t, b, m), NEW n \in 0 .. m
  PROVE  b[n] \in Nat /\ b[0] \in Nat /\ Total(t, n) \in Int /\ Total(t, n) <= b[n] - b[0]
<1> DEFINE Bad == {k \in 0 .. m : ~(Total(t, k) \in Int /\ Total(t, k) <= b[k] - b[0])}
<1>1. \A k \in 0 .. m : b[k] \in Nat
  BY DEF Layout
<1>2. Bad = {}
  <2>1. SUFFICES ASSUME Bad # {} PROVE FALSE
    OBVIOUS
  <2>2. Bad \in SUBSET Nat
    OBVIOUS
  <2>3. PICK k \in Bad : \A l \in Bad : k <= l
    <3> HIDE DEF Bad
    <3> QED BY <2>1, <2>2, Least
  <2>4. k # 0
    <3>1. b[0] \in Nat
      BY <1>1
    <3> QED BY <3>1, TotalZero
  <2>5. PICK p \in 0 .. m : k = p + 1 /\ p \in Nat /\ p < Len(t) /\ p + 1 \in 1 .. m
    <3>1. k - 1 \in 0 .. m /\ k = (k - 1) + 1 /\ k - 1 \in Nat /\ k - 1 < Len(t) /\ (k - 1) + 1 \in 1 .. m
      BY <2>4
    <3> QED BY <3>1
  <2>6. Total(t, p) \in Int /\ Total(t, p) <= b[p] - b[0]
    <3>1. p \notin Bad
      BY <2>3, <2>5
    <3> QED BY <3>1
  <2>7. PICK first \in Nat, old \in Nat, new \in Nat, x \in Int, y \in Int, z \in Nat, gone \in Nat :
          /\ first = b[0] /\ old = b[p] /\ new = b[p + 1] /\ x = Total(t, p) /\ y = Total(t, p + 1)
          /\ z = t[p + 1].size /\ gone = OldSize(t, p) /\ x <= old - first
    <3>1. b[0] \in Nat /\ b[p] \in Nat /\ b[p + 1] \in Nat
      <4>1. 0 \in 0 .. m /\ p + 1 \in 0 .. m
        BY <2>5
      <4> QED BY <1>1, <4>1
    <3>2. Total(t, p) \in Int /\ Total(t, p + 1) \in Int /\ OldSize(t, p) \in Nat
      BY <2>5, TotalNext
    <3>3. t[p + 1].size \in Nat
      BY <2>5, Request
    <3> QED BY <2>6, <3>1, <3>2, <3>3
  <2>8. CASE t[p + 1].type # "FREE"
    <3>1. y = x + z - gone
      BY <2>5, <2>7, <2>8, TotalNext
    <3>2. old + 8 + z <= new
      <4>1. (p + 1) - 1 = p
        BY <2>5
      <4>2. b[p] + 8 + t[p + 1].size <= b[p + 1]
        BY <2>5, <2>8, <4>1 DEF Layout
      <4> QED BY <2>7, <4>2
    <3>3. y <= new - first
      <4>1. x <= old - first
        BY <2>7
      <4> QED BY <3>1, <3>2, <4>1
    <3> QED BY <2>5, <2>7, <3>3
  <2>9. CASE t[p + 1].type = "FREE"
    <3>1. y = x - gone
      BY <2>5, <2>7, <2>9, TotalNext
    <3>2. old = new
      <4>1. (p + 1) - 1 = p
        BY <2>5
      <4>2. b[p + 1] = b[p]
        BY <2>5, <2>9, <4>1 DEF Layout
      <4> QED BY <2>7, <4>2
    <3>3. y <= new - first
      <4>1. x <= old - first
        BY <2>7
      <4> QED BY <3>1, <3>2, <4>1
    <3> QED BY <2>5, <2>7, <3>3
  <2> QED BY <2>8, <2>9
<1> HIDE DEF Bad
<1>3. n \notin Bad /\ 0 \in 0 .. m
  BY <1>2
<1> QED BY <1>1, <1>3 DEF Bad

-----------------------------------------------------------------------------
(* The statistics of eval_mm_util *)

\* The driver remembers the sizes of the blocks it holds.
Remembered(t, n) == \A i \in LiveAfter(t, n) : block_sizes[i] = SizeAfter(t, n, i)

LEMMA RememberAsk ==
  ASSUME NEW t \in Seq(traceop_t), NEW n \in Nat, n < Len(t), t[n + 1].type # "FREE",
         Remembered(t, n), block_sizes \in [Ids -> Nat],
         block_sizes' = [block_sizes EXCEPT ![t[n + 1].index] = t[n + 1].size]
  PROVE  Remembered(t, n + 1)' /\ block_sizes' \in [Ids -> Nat]
<1> DEFINE idx == t[n + 1].index
<1>1. /\ LiveAfter(t, n + 1) = LiveAfter(t, n) \cup {idx}
      /\ Last(t, n + 1, idx) = n + 1
      /\ \A i \in LiveAfter(t, n) \ {idx} : Last(t, n + 1, i) = Last(t, n, i)
  BY AskNext
<1>2. idx \in Ids /\ t[n + 1].size \in Nat /\ n + 1 \in Nat /\ LiveAfter(t, n) \subseteq Ids
  <2>1. n \in 0 .. Len(t)
    OBVIOUS
  <2> QED BY <2>1, Request, LiveIds
<1>3. block_sizes'[idx] = SizeAfter(t, n + 1, idx)
  <2>1. idx \in LiveAfter(t, n + 1)
    BY <1>1
  <2>2. SizeAfter(t, n + 1, idx) = t[Last(t, n + 1, idx)].size
    BY <1>2, <2>1, LastIsAsk
  <2> QED BY <1>1, <1>2, <2>2
<1>4. ASSUME NEW i \in LiveAfter(t, n) \ {idx} PROVE block_sizes'[i] = SizeAfter(t, n + 1, i)
  <2>1. i \in LiveAfter(t, n) /\ i \in LiveAfter(t, n + 1)
    BY <1>1
  <2>2. SizeAfter(t, n + 1, i) = SizeAfter(t, n, i)
    BY <1>1, <1>2, <2>1, LastIsAsk
  <2>3. block_sizes'[i] = block_sizes[i]
    BY <1>2, <2>1
  <2> QED BY <2>1, <2>2, <2>3 DEF Remembered
<1>5. block_sizes' \in [Ids -> Nat]
  BY <1>2
<1> HIDE DEF idx
<1> QED BY <1>1, <1>3, <1>4, <1>5 DEF Remembered

LEMMA RememberFree ==
  ASSUME NEW t, NEW n \in Nat, t[n + 1].type = "FREE", Remembered(t, n), UNCHANGED block_sizes
  PROVE  Remembered(t, n + 1)'
<1>1. /\ LiveAfter(t, n + 1) = LiveAfter(t, n) \ {t[n + 1].index}
      /\ \A i \in LiveAfter(t, n) : Last(t, n + 1, i) = Last(t, n, i)
  BY FreeNext
<1>2. ASSUME NEW i \in LiveAfter(t, n + 1) PROVE block_sizes'[i] = SizeAfter(t, n + 1, i)
  <2>1. i \in LiveAfter(t, n)
    BY <1>1
  <2>2. SizeAfter(t, n + 1, i) = SizeAfter(t, n, i)
    BY <1>1, <2>1, LastIsAsk
  <2> QED BY <2>1, <2>2 DEF Remembered
<1> QED BY <1>2 DEF Remembered

\* peak is the most bytes allocated at any point of the first n requests.
IsPeak(t, n, peak) ==
  /\ \E k \in 0 .. n : peak = Total(t, k)
  /\ \A k \in 0 .. n : Total(t, k) <= peak

StatsOK ==
  /\ mm_stats \in [DOMAIN tracefiles -> [valid : BOOLEAN, util : Int \X Int]]
  /\ \A t \in DOMAIN tracefiles : mm_stats[t].util[1] <= mm_stats[t].util[2]
  /\ block_sizes \in [Ids -> Nat]

Counting ==
  phase = "util" =>
    /\ total_size = Total(ops, opnum)
    /\ IsPeak(ops, opnum, max_total_size)
    /\ Remembered(ops, opnum)

UInv == StatsOK /\ Counting

\* The statistics and the sizes are not touched.
LEMMA StatsKept ==
  ASSUME StatsOK, UNCHANGED <<mm_stats, tracefiles, block_sizes>>
  PROVE  StatsOK'
BY DEF StatsOK

\* The greatest of two integers
LEMMA MaxOfTwo ==
  ASSUME NEW x \in Int, NEW y \in Int
  PROVE  Max({x, y}) \in {x, y} /\ Max({x, y}) >= x /\ Max({x, y}) >= y
<1>1. \E z \in {x, y} : \A v \in {x, y} : z >= v
  <2>1. CASE x >= y
    BY <2>1
  <2>2. CASE y >= x
    BY <2>2
  <2> QED BY <2>1, <2>2
<1> QED BY <1>1 DEF Max

\* A request that asks, when the statistics are updated
LEMMA PeakAsk ==
  ASSUME NEW t \in Seq(traceop_t), NEW n \in Nat, n < Len(t), NEW peak, IsPeak(t, n, peak),
         t[n + 1].type # "FREE"
  PROVE  IsPeak(t, n + 1, Max({Total(t, n + 1), peak}))
<1>1. \A k \in 0 .. n + 1 : k \in 0 .. n \/ k = n + 1
  OBVIOUS
<1>2. Total(t, n + 1) \in Int
  BY TotalNext
<1>3. PICK k \in 0 .. n : peak = Total(t, k)
  BY DEF IsPeak
<1>4. \A l \in 0 .. n : Total(t, l) \in Int
  <2> SUFFICES ASSUME NEW l \in 0 .. n PROVE Total(t, l) \in Int
    OBVIOUS
  <2> QED BY TotalNext
<1>5. PICK p \in Int, q \in Int, max \in Int :
        /\ p = Total(t, n + 1) /\ q = peak /\ max = Max({p, q})
        /\ max \in {p, q} /\ max >= p /\ max >= q
  <2>1. peak \in Int
    BY <1>3, <1>4
  <2>2. PICK p \in Int, q \in Int : p = Total(t, n + 1) /\ q = peak
    BY <1>2, <2>1
  <2>3. Max({p, q}) \in {p, q} /\ Max({p, q}) >= p /\ Max({p, q}) >= q
    BY MaxOfTwo
  <2>4. Max({p, q}) \in Int
    BY <2>3
  <2> QED BY <2>2, <2>3, <2>4
<1>6. \E l \in 0 .. n + 1 : max = Total(t, l)
  <2>1. k \in 0 .. n + 1 /\ n + 1 \in 0 .. n + 1
    OBVIOUS
  <2> QED BY <1>3, <1>5, <2>1
<1>7. ASSUME NEW l \in 0 .. n + 1 PROVE Total(t, l) <= max
  <2>1. CASE l = n + 1
    BY <1>5, <2>1
  <2>2. CASE l \in 0 .. n
    <3>1. Total(t, l) <= q
      BY <1>5, <2>2 DEF IsPeak
    <3>2. PICK x \in Int : x = Total(t, l)
      BY <1>4, <2>2
    <3>3. x <= q /\ q <= max
      BY <1>5, <3>1, <3>2
    <3>4. x <= max
      BY <3>3
    <3> QED BY <3>2, <3>4
  <2> QED BY <1>1, <2>1, <2>2
<1> QED BY <1>5, <1>6, <1>7 DEF IsPeak

\* A free lowers the total, and the peak stands.
LEMMA PeakFree ==
  ASSUME NEW t \in Seq(traceop_t), NEW n \in Nat, n < Len(t), NEW peak, IsPeak(t, n, peak),
         t[n + 1].type = "FREE"
  PROVE  IsPeak(t, n + 1, peak)
<1>1. \A k \in 0 .. n + 1 : k \in 0 .. n \/ k = n + 1
  OBVIOUS
<1>2. \A l \in 0 .. n : Total(t, l) \in Int
  <2> SUFFICES ASSUME NEW l \in 0 .. n PROVE Total(t, l) \in Int
    OBVIOUS
  <2> QED BY TotalNext
<1>3. PICK k \in 0 .. n : peak = Total(t, k)
  BY DEF IsPeak
<1>4. k \in 0 .. n + 1 /\ n \in 0 .. n
  OBVIOUS
<1>5. Total(t, n + 1) <= peak
  <2>1. PICK p \in Int, x \in Int, gone \in Nat :
          p = peak /\ x = Total(t, n) /\ gone = OldSize(t, n) /\ x <= p
    BY <1>2, <1>3, <1>4, TotalNext DEF IsPeak
  <2>2. Total(t, n + 1) = x - gone
    BY <2>1, TotalNext
  <2>3. x - gone <= p
    <3>1. x <= p
      BY <2>1
    <3> QED BY <3>1
  <2> QED BY <2>1, <2>2, <2>3
<1> QED BY <1>1, <1>3, <1>4, <1>5 DEF IsPeak

\* eval_mm_util serves a request that asks.
LEMMA UtilAskCounts ==
  ASSUME IInv, UInv, phase = "util", MoreOps, op.type # "FREE", NEW p,
         NEW gain, gain = op.size - OldSize(ops, opnum),
         UNCHANGED <<mm_stats, tracefiles, tracenum>>,
         app_error \/ UtilGain(p, op.size, gain)
  PROVE  UInv'
<1>1. /\ ops \in Seq(traceop_t) /\ opnum \in Nat /\ opnum < Len(ops)
  BY InTrace DEF IInv, InPass
<1>2. PICK t, n : t = ops /\ n = opnum /\ t \in Seq(traceop_t) /\ n \in Nat /\ n < Len(t)
  BY <1>1
<1>3. /\ op = t[n + 1] /\ t[n + 1].type # "FREE" /\ t[n + 1].size \in Nat
      /\ total_size = Total(t, n) /\ IsPeak(t, n, max_total_size) /\ Remembered(t, n)
      /\ StatsOK
  BY <1>2, Request DEF op, UInv, Counting
<1>4. CASE app_error
  <2>1. phase' = "exit1" /\ UNCHANGED block_sizes
    BY <1>4 DEF app_error
  <2> QED BY <1>3, <2>1, StatsKept DEF UInv, Counting
<1>5. CASE UtilGain(p, op.size, gain)
  <2>1. /\ block_sizes' = [block_sizes EXCEPT ![t[n + 1].index] = t[n + 1].size]
        /\ total_size' = total_size + gain
        /\ max_total_size' = Max({total_size + gain, max_total_size})
        /\ opnum' = n + 1 /\ phase' = "util"
    BY <1>2, <1>3, <1>5 DEF UtilGain, Advance
  <2>2. total_size + gain = Total(t, n + 1)
    <3>1. PICK x \in Int, y \in Int, z \in Nat, gone \in Nat :
            /\ x = Total(t, n) /\ y = Total(t, n + 1) /\ z = t[n + 1].size /\ gone = OldSize(t, n)
            /\ y = x + z - gone
      BY <1>2, <1>3, TotalNext
    <3>2. total_size + gain = x + (z - gone)
      BY <1>2, <1>3, <3>1
    <3>3. x + (z - gone) = x + z - gone
      OBVIOUS
    <3> QED BY <3>1, <3>2, <3>3
  <2>3. IsPeak(t, n + 1, max_total_size')
    BY <1>2, <1>3, <2>1, <2>2, PeakAsk
  <2>4. Remembered(t, n + 1)' /\ block_sizes' \in [Ids -> Nat]
    BY <1>2, <1>3, <2>1, RememberAsk DEF StatsOK
  <2>5. ops' = t
    BY <1>2 DEF ops
  <2>6. StatsOK'
    BY <1>3, <2>4 DEF StatsOK
  <2>7. Counting'
    <3>1. (Remembered(ops, opnum))'
      BY <2>1, <2>4, <2>5 DEF Remembered
    <3>2. IsPeak(ops', opnum', max_total_size') /\ total_size' = Total(ops', opnum')
      BY <2>1, <2>2, <2>3, <2>5
    <3> QED BY <3>1, <3>2 DEF Counting
  <2> QED BY <2>6, <2>7 DEF UInv
<1> QED BY <1>4, <1>5

LEMMA OpInTrace ==
  ASSUME IInv, InPass, MoreOps
  PROVE  /\ ops \in Seq(traceop_t) /\ opnum \in Nat /\ opnum < Len(ops)
         /\ op = ops[opnum + 1] /\ op.index \in Ids /\ op.size \in Nat /\ op.size \in 0 .. MaxInt
         /\ op.type = "ALLOC" <=> op.index \notin LiveAfter(ops, opnum)
<1>1. /\ ops \in Seq(traceop_t) /\ opnum \in Nat /\ opnum < Len(ops) /\ Sound(ops) /\ Len(ops) \in Nat
  BY InTrace DEF IInv
<1>2. opnum + 1 \in 1 .. Len(ops) /\ (opnum + 1) - 1 = opnum
  BY <1>1
<1> QED BY <1>1, <1>2, Request DEF op, Sound

LEMMA UtilAllocCounts ==
  ASSUME IInv, UInv, UtilAlloc
  PROVE  UInv'
<1>1. /\ phase = "util" /\ MoreOps /\ op.type = "ALLOC"
      /\ UNCHANGED <<mm_stats, tracefiles, tracenum>>
  BY DEF UtilAlloc
<1>2. PICK p, gain : gain = op.size /\ (app_error \/ UtilGain(p, op.size, gain))
  BY DEF UtilAlloc
<1>3. op.size \in Nat /\ OldSize(ops, opnum) = 0
  BY <1>1, OpInTrace DEF InPass, OldSize, op
<1>4. gain = op.size - OldSize(ops, opnum)
  BY <1>2, <1>3
<1> QED BY <1>1, <1>2, <1>4, UtilAskCounts

LEMMA UtilReallocCounts ==
  ASSUME IInv, UInv, UtilRealloc
  PROVE  UInv'
<1>1. /\ phase = "util" /\ MoreOps /\ op.type = "REALLOC"
      /\ UNCHANGED <<mm_stats, tracefiles, tracenum>>
  BY DEF UtilRealloc
<1>2. PICK p, gain : /\ gain = op.size - block_sizes[op.index]
                     /\ app_error \/ UtilGain(p, op.size, gain)
  BY DEF UtilRealloc
<1>3. block_sizes[op.index] = OldSize(ops, opnum)
  BY <1>1, OpInTrace DEF InPass, OldSize, op, UInv, Counting, Remembered
<1>4. gain = op.size - OldSize(ops, opnum)
  BY <1>2, <1>3
<1> QED BY <1>1, <1>2, <1>4, UtilAskCounts

LEMMA UtilFreeCounts ==
  ASSUME IInv, UInv, UtilFree
  PROVE  UInv'
<1>1. /\ phase = "util" /\ MoreOps /\ op.type = "FREE" /\ phase' = "util" /\ opnum' = opnum + 1
      /\ total_size' = total_size - block_sizes[op.index] /\ max_total_size' = max_total_size
      /\ UNCHANGED <<mm_stats, tracefiles, block_sizes>> /\ tracenum' = tracenum
  BY DEF UtilFree, Advance, evalVars
<1>2. PICK t, n : t = ops /\ n = opnum /\ t \in Seq(traceop_t) /\ n \in Nat /\ n < Len(t)
  BY <1>1, OpInTrace DEF InPass
<1>3. /\ op = t[n + 1] /\ t[n + 1].type = "FREE"
      /\ total_size = Total(t, n) /\ IsPeak(t, n, max_total_size) /\ Remembered(t, n)
      /\ StatsOK
  BY <1>1, <1>2 DEF op, UInv, Counting
<1>4. block_sizes[op.index] = OldSize(t, n)
  BY <1>1, <1>2, <1>3, OpInTrace DEF InPass, OldSize, Remembered
<1>5. total_size' = Total(t, n + 1)
  BY <1>1, <1>2, <1>3, <1>4, TotalNext
<1>6. IsPeak(t, n + 1, max_total_size')
  BY <1>1, <1>2, <1>3, PeakFree
<1>7. Remembered(t, n + 1)'
  BY <1>1, <1>2, <1>3, RememberFree
<1>8. ops' = t /\ opnum' = n + 1
  BY <1>1, <1>2 DEF ops
<1>9. Counting'
  <2>1. (Remembered(ops, opnum))'
    BY <1>7, <1>8 DEF Remembered
  <2>2. IsPeak(ops', opnum', max_total_size') /\ total_size' = Total(ops', opnum')
    BY <1>5, <1>6, <1>8
  <2> QED BY <2>1, <2>2 DEF Counting
<1> QED BY <1>1, <1>3, <1>9, StatsKept DEF UInv

LEMMA EndUtilCounts ==
  ASSUME IInv, UInv, EndUtil
  PROVE  UInv'
<1>1. /\ phase = "util" /\ ~MoreOps /\ phase' = "begin_speed"
      /\ mm_stats' = [mm_stats EXCEPT ![tracenum + 1].util = <<max_total_size, mem_heapsize>>]
      /\ UNCHANGED tracefiles /\ UNCHANGED block_sizes
  BY DEF EndUtil, evalVars
<1>2. /\ ops \in Seq(traceop_t) /\ opnum = Len(ops) /\ Len(ops) \in Nat /\ HeapOK
  BY <1>1, InTrace DEF IInv, InPass
<1>3. PICK t, b : /\ t = ops /\ Layout(t, b, Len(t)) /\ mem_brk = b[Len(t)]
                  /\ IsPeak(t, Len(t), max_total_size)
  <2>1. \E b : Layout(ops, b, Len(ops)) /\ mem_brk = b[opnum]
    <3>1. phase \in Judged /\ phase \in Measured
      BY <1>1 DEF Judged, Measured
    <3> QED BY <3>1, Zenon DEF IInv, Following
  <2>2. IsPeak(ops, opnum, max_total_size)
    BY <1>1 DEF UInv, Counting
  <2> QED BY <1>2, <2>1, <2>2
<1>4. max_total_size \in Int /\ mem_heapsize \in Int /\ max_total_size <= mem_heapsize
  <2>1. PICK k \in 0 .. Len(t) : max_total_size = Total(t, k)
    BY <1>3 DEF IsPeak
  <2>2. Len(t) \in 0 .. Len(t) /\ t \in Seq(traceop_t) /\ k <= Len(t)
    BY <1>2, <1>3
  <2>3. /\ b[k] \in Nat /\ b[0] \in Nat /\ Total(t, k) \in Int /\ Total(t, k) <= b[k] - b[0]
        /\ b[Len(t)] \in Nat /\ b[k] <= b[Len(t)] /\ b[0] = mem_start_brk
    BY <1>3, <2>2, TotalBelowHeap DEF Layout
  <2>4. PICK x \in Int, lo \in Nat, at \in Nat, end \in Nat :
          x = Total(t, k) /\ lo = b[0] /\ at = b[k] /\ end = b[Len(t)] /\ x <= at - lo /\ at <= end
    BY <2>3
  <2>5. x <= end - lo
    <3>1. x <= at - lo /\ at <= end
      BY <2>4
    <3> QED BY <3>1
  <2>6. mem_heapsize = end - lo
    BY <1>3, <2>3, <2>4 DEF mem_heapsize
  <2> QED BY <2>1, <2>4, <2>5, <2>6
<1>5. StatsOK'
  <2>1. DOMAIN tracefiles' = DOMAIN tracefiles
    BY <1>1
  <2>2. PICK u \in Int, h \in Int : u = max_total_size /\ h = mem_heapsize /\ u <= h
    BY <1>4
  <2>3. PICK T, s : T = DOMAIN tracefiles /\ s = tracenum + 1
    OBVIOUS
  <2>4. mm_stats' = [mm_stats EXCEPT ![s].util = <<u, h>>]
    BY <1>1, <2>2, <2>3
  <2>5. ASSUME NEW i \in T
        PROVE  /\ mm_stats'[i] \in [valid : BOOLEAN, util : Int \X Int]
               /\ mm_stats'[i].util[1] <= mm_stats'[i].util[2]
    <3>1. mm_stats[i] \in [valid : BOOLEAN, util : Int \X Int] /\ mm_stats[i].util[1] <= mm_stats[i].util[2]
          /\ DOMAIN mm_stats = T
      BY <2>3 DEF UInv, StatsOK
    <3>2. CASE i = s
      <4>1. mm_stats'[i] = [mm_stats[i] EXCEPT !.util = <<u, h>>]
        BY <2>4, <3>1, <3>2
      <4> QED BY <2>2, <3>1, <4>1
    <3>3. CASE i # s
      <4>1. mm_stats'[i] = mm_stats[i]
        BY <2>4, <3>1, <3>3
      <4> QED BY <3>1, <4>1
    <3> QED BY <3>2, <3>3
  <2>6. mm_stats' = [i \in T |-> mm_stats'[i]]
    BY <2>3, <2>4 DEF UInv, StatsOK
  <2>7. mm_stats' \in [T -> [valid : BOOLEAN, util : Int \X Int]]
    BY <2>5, <2>6
  <2> QED BY <1>1, <2>1, <2>3, <2>5, <2>7 DEF UInv, StatsOK
<1> QED BY <1>1, <1>5 DEF UInv, Counting

LEMMA BeginUtilCounts ==
  ASSUME IInv, UInv, BeginUtil
  PROVE  UInv'
<1>1. /\ total_size' = 0 /\ max_total_size' = 0 /\ opnum' = 0
      /\ UNCHANGED <<mm_stats, tracefiles, block_sizes>> /\ tracenum' = tracenum
  BY DEF BeginUtil, evalVars
<1>2. ops' = ops
  BY <1>1 DEF ops
<1>3. 0 .. 0 = {0} /\ Total(ops, 0) = 0 /\ LiveAfter(ops, 0) = {}
  BY TotalZero, NoneLive
<1>4. IsPeak(ops, 0, 0)
  BY <1>3 DEF IsPeak
<1>5. Counting'
  <2>1. (Remembered(ops, opnum))'
    BY <1>1, <1>2, <1>3 DEF Remembered
  <2>2. IsPeak(ops', opnum', max_total_size') /\ total_size' = Total(ops', opnum')
    BY <1>1, <1>2, <1>3, <1>4
  <2> QED BY <2>1, <2>2 DEF Counting
<1> QED BY <1>1, <1>5, StatsKept DEF UInv

\* eval_mm_valid sets block_sizes when it keeps a block.
LEMMA ValidSizes ==
  ASSUME IInv, UInv, ValidAlloc \/ ValidRealloc
  PROVE  /\ block_sizes' \in [Ids -> Nat] /\ phase' # "util"
         /\ UNCHANGED <<mm_stats, tracefiles>>
<1>1. /\ phase = "valid" /\ MoreOps /\ AfterValidOp
  BY DEF ValidAlloc, ValidRealloc
<1>2. PICK p, rs, preserved : /\ preserved \in BOOLEAN
                              /\ \/ p = NULL /\ malloc_error(ranges)
                                 \/ p # NULL /\ Examine(op.index, p, op.size, rs, preserved)
  <2>1. CASE ValidAlloc
    BY <2>1 DEF ValidAlloc, valid_ALLOC
  <2>2. CASE ValidRealloc
    <3>1. PICK r : valid_REALLOC(op.index, op.size, r.ptr, DataPreserved(r))
      BY <2>2 DEF ValidRealloc
    <3>2. DataPreserved(r) \in BOOLEAN
      BY DEF DataPreserved
    <3> QED BY <3>1, <3>2 DEF valid_REALLOC
  <2> QED BY <2>1, <2>2
<1>3. \/ UNCHANGED block_sizes
      \/ block_sizes' = [block_sizes EXCEPT ![op.index] = op.size]
  BY <1>2 DEF malloc_error, assert_fails, Remember, Examine
<1>4. block_sizes' \in [Ids -> Nat]
  BY <1>1, <1>3, OpInTrace DEF InPass, UInv, StatsOK
<1>5. verdict' \in {"running", "invalid", "aborted"}
  <2>1. verdict = "running"
    BY <1>1 DEF IInv, Judging
  <2> QED BY <1>2, <2>1 DEF malloc_error, assert_fails, Remember, Examine
<1>6. phase' # "util" /\ UNCHANGED <<mm_stats, tracefiles>>
  BY <1>1, <1>5 DEF AfterValidOp, statVars
<1> QED BY <1>4, <1>6

LEMMA EndValidCounts ==
  ASSUME UInv, EndValid
  PROVE  UInv'
<1>1. /\ mm_stats' = [mm_stats EXCEPT ![tracenum + 1].valid = TRUE] /\ phase' = "begin_util"
      /\ UNCHANGED tracefiles /\ UNCHANGED block_sizes
  BY DEF EndValid, valid_return
<1>2. StatsOK'
  <2>1. PICK T, s : T = DOMAIN tracefiles /\ s = tracenum + 1
    OBVIOUS
  <2>2. ASSUME NEW i \in T
        PROVE  /\ mm_stats'[i] \in [valid : BOOLEAN, util : Int \X Int]
               /\ mm_stats'[i].util[1] <= mm_stats'[i].util[2]
    <3>1. mm_stats[i] \in [valid : BOOLEAN, util : Int \X Int] /\ mm_stats[i].util[1] <= mm_stats[i].util[2]
          /\ DOMAIN mm_stats = T
      BY <2>1 DEF UInv, StatsOK
    <3>2. CASE i = s
      <4>1. mm_stats'[i] = [mm_stats[i] EXCEPT !.valid = TRUE]
        BY <1>1, <2>1, <3>1, <3>2
      <4> QED BY <3>1, <4>1
    <3>3. CASE i # s
      <4>1. mm_stats'[i] = mm_stats[i]
        BY <1>1, <2>1, <3>1, <3>3
      <4> QED BY <3>1, <4>1
    <3> QED BY <3>2, <3>3
  <2>3. mm_stats' = [i \in T |-> mm_stats'[i]]
    BY <1>1, <2>1 DEF UInv, StatsOK
  <2>4. mm_stats' \in [T -> [valid : BOOLEAN, util : Int \X Int]]
    BY <2>2, <2>3
  <2> QED BY <1>1, <2>1, <2>2, <2>4 DEF UInv, StatsOK
<1> QED BY <1>1, <1>2 DEF UInv, Counting

LEMMA NextUInv ==
  ASSUME IInv, UInv, [Next]_vars
  PROVE  UInv'
<1>1. CASE UtilAlloc
  BY <1>1, UtilAllocCounts
<1>2. CASE UtilRealloc
  BY <1>2, UtilReallocCounts
<1>3. CASE UtilFree
  BY <1>3, UtilFreeCounts
<1>4. CASE EndUtil
  BY <1>4, EndUtilCounts
<1>5. CASE BeginUtil
  BY <1>5, BeginUtilCounts
<1>6. CASE EndValid
  BY <1>6, EndValidCounts
<1>7. CASE ValidAlloc \/ ValidRealloc
  BY <1>7, ValidSizes DEF UInv, StatsOK, Counting
<1>8. CASE ReadTrace
  <2>1. block_sizes' = [i \in Ids |-> 0] /\ phase' # "util" /\ UNCHANGED <<mm_stats, tracefiles>>
    BY <1>8 DEF ReadTrace, statVars
  <2> QED BY <2>1 DEF UInv, StatsOK, Counting
<1>9. CASE \/ BeginValid \/ ValidFree \/ BeginSpeed \/ SpeedAlloc \/ SpeedRealloc \/ SpeedFree
           \/ EndSpeed \/ NextTrace \/ Report
  <2>1. phase' # "util" /\ UNCHANGED <<mm_stats, tracefiles, block_sizes>>
    <3>1. CASE BeginValid
      BY <3>1 DEF BeginValid, valid_begin, statVars
    <3>2. CASE ValidFree
      <4>1. verdict' = "running"
        BY <3>2 DEF ValidFree, valid_FREE, IInv, Judging
      <4> QED BY <3>2, <4>1 DEF ValidFree, valid_FREE, AfterValidOp, statVars
    <3>3. CASE BeginSpeed
      BY <3>3 DEF BeginSpeed, evalVars, statVars
    <3>4. CASE SpeedAlloc \/ SpeedRealloc
      BY <3>4 DEF SpeedAlloc, SpeedRealloc, SpeedCall, SpeedKeep, statVars
    <3>5. CASE SpeedFree \/ EndSpeed \/ NextTrace \/ Report
      BY <3>5 DEF SpeedFree, EndSpeed, NextTrace, Report, evalVars, statVars
    <3> QED BY <1>9, <3>1, <3>2, <3>3, <3>4, <3>5
  <2> QED BY <2>1, StatsKept DEF UInv, Counting
<1>10. CASE Exited \/ UNCHANGED vars
  <2>1. /\ UNCHANGED <<mm_stats, tracefiles, block_sizes>> /\ UNCHANGED <<phase, opnum, tracenum>>
        /\ UNCHANGED <<total_size, max_total_size>>
    BY <1>10 DEF Exited, vars, statVars, evalVars
  <2>2. ops' = ops
    BY <2>1 DEF ops
  <2>3. Counting'
    BY <2>1, <2>2 DEF UInv, Counting, Remembered
  <2> QED BY <2>1, <2>3, StatsKept DEF UInv
<1> QED
  BY <1>1, <1>2, <1>3, <1>4, <1>5, <1>6, <1>7, <1>8, <1>9, <1>10 DEF Next

LEMMA InitUInv == Init => UInv
<1> SUFFICES ASSUME Init PROVE UInv
  OBVIOUS
<1>1. mm_stats = [t \in DOMAIN tracefiles |-> [valid |-> FALSE, util |-> <<0, 0>>]]
      /\ block_sizes = [i \in Ids |-> 0] /\ phase = "read"
  BY DEF Init
<1> QED BY <1>1 DEF UInv, StatsOK, Counting

LEMMA CountsShow ==
  ASSUME IInv, UInv
  PROVE  TotalIsLiveBytes
<1>1. ASSUME phase = "util"
      PROVE  /\ total_size = LiveBytes(opnum)
             /\ max_total_size = Max({LiveBytes(n) : n \in 0 .. opnum})
  <2>1. ops \in Seq(traceop_t) /\ opnum \in 0 .. Len(ops) /\ Len(ops) \in Nat
    BY <1>1, InTrace DEF IInv, InPass
  <2>2. total_size = Total(ops, opnum) /\ IsPeak(ops, opnum, max_total_size)
    BY <1>1 DEF UInv, Counting
  <2>3. \A n \in 0 .. opnum : LiveBytes(n) = Total(ops, n)
    BY LiveBytesIs
  <2>4. ASSUME NEW n \in 0 .. opnum PROVE Total(ops, n) \in Int
    <3>1. CASE n = 0
      BY <3>1, TotalZero
    <3>2. CASE n # 0
      <4>1. n - 1 \in Nat /\ n - 1 < Len(ops) /\ (n - 1) + 1 = n
        BY <2>1, <3>2
      <4> QED BY <2>1, <4>1, TotalNext
    <3> QED BY <3>1, <3>2
  <2> DEFINE S == {LiveBytes(n) : n \in 0 .. opnum}
  <2>5. max_total_size \in S /\ \A y \in S : max_total_size >= y /\ y \in Int
    BY <2>2, <2>3, <2>4 DEF IsPeak
  <2> HIDE DEF S
  <2>6. \A x \in S : (\A y \in S : x >= y) => x = max_total_size
    BY <2>5
  <2>7. Max(S) = max_total_size
    BY <2>5, <2>6 DEF Max
  <2>8. opnum \in 0 .. opnum
    BY <2>1
  <2> QED BY <2>2, <2>3, <2>7, <2>8 DEF S
<1>2. \A t \in DOMAIN mm_stats : mm_stats[t].util[1] <= mm_stats[t].util[2]
  BY DEF UInv, StatsOK
<1> QED BY <1>1, <1>2 DEF TotalIsLiveBytes

\* mdriver.c, eval_mm_util: total_size counts the payload bytes allocated at
\* every point of every trace, max_total_size is their peak, and the peak that
\* the utilization divides by the heap size is never larger than the heap.
THEOREM TotalCounted ==
  ASSUME ALIGNMENT = 8, RoomAbove
  PROVE  Spec => []TotalIsLiveBytes
<1>1. IInv /\ UInv /\ [Next]_vars => UInv'
  BY NextUInv
<1>2. IInv /\ UInv => TotalIsLiveBytes
  BY CountsShow
<1> QED BY <1>1, <1>2, InitUInv, SpecIInv, PTL DEF Spec

-----------------------------------------------------------------------------
(* The heap that a trace takes *)

Takes(t, n) == SumOf([k \in Asked(t, n) |-> newsize(t[k].size)], Asked(t, n))

LEMMA AskedFinite ==
  ASSUME NEW t, NEW n \in Nat
  PROVE  IsFiniteSet(Asked(t, n))
<1>1. IsFiniteSet(1 .. n) /\ Asked(t, n) \in SUBSET (1 .. n)
  BY FS_Interval DEF Asked
<1> QED BY <1>1, FS_Subset

LEMMA FootprintIs ==
  ASSUME NEW t, Len(t) \in Nat
  PROVE  Footprint(t) = Takes(t, Len(t))
<1> DEFINE S == Asked(t, Len(t))
           f == [k \in S |-> newsize(t[k].size)]
           P(g) == g = [s \in SUBSET S |->
                         IF s = {} THEN 0
                         ELSE newsize(t[CHOOSE x \in s : TRUE].size) + g[s \ {CHOOSE x \in s : TRUE}]]
<1>1. ASSUME NEW g, IsSum(g, f, S) PROVE P(g)
  <2>1. ASSUME NEW s \in SUBSET S, s # {} PROVE f[Any(s)] = newsize(t[Any(s)].size)
    BY <2>1, AnyIn
  <2> HIDE DEF f
  <2> QED BY <1>1, <2>1 DEF IsSum, Any
<1>2. ASSUME NEW g, P(g) PROVE IsSum(g, f, S)
  <2>1. ASSUME NEW s \in SUBSET S, s # {} PROVE f[Any(s)] = newsize(t[Any(s)].size)
    BY <2>1, AnyIn
  <2> HIDE DEF f
  <2> QED BY <1>2, <2>1 DEF IsSum, Any
<1>3. Footprint(t) = (CHOOSE g : P(g))[S]
  BY DEF Footprint, MapThenSumSet, MapThenFoldSet
<1> HIDE DEF P
<1>4. \E g : P(g)
  <2>1. PICK g : IsSum(g, f, S)
    BY AskedFinite, SumExists
  <2> QED BY <1>1, <2>1
<1>5. P(CHOOSE g : P(g))
  BY <1>4, Zenon
<1>6. IsSum(CHOOSE g : P(g), f, S)
  BY <1>2, <1>5
<1> QED BY <1>3, <1>6, AskedFinite, SumOfIs DEF Takes

LEMMA TakesNext ==
  ASSUME ALIGNMENT = 8, NEW t \in Seq(traceop_t), NEW n \in Nat, n < Len(t)
  PROVE  /\ Takes(t, n) \in Int /\ Takes(t, n + 1) \in Int /\ newsize(t[n + 1].size) \in Int
         /\ t[n + 1].type # "FREE" => Takes(t, n + 1) = Takes(t, n) + newsize(t[n + 1].size)
         /\ t[n + 1].type = "FREE" => Takes(t, n + 1) = Takes(t, n)
<1> DEFINE f(m) == [k \in Asked(t, m) |-> newsize(t[k].size)]
<1>1. ASSUME NEW k \in 1 .. Len(t) PROVE newsize(t[k].size) \in Int
  <2>1. t[k] \in traceop_t
    OBVIOUS
  <2>2. t[k].size \in 0 .. MaxInt
    BY <2>1 DEF traceop_t
  <2> QED BY <2>2, NewsizeBounds
<1>2. \A m \in 0 .. Len(t) : \A k \in Asked(t, m) : f(m)[k] = newsize(t[k].size) /\ f(m)[k] \in Int
  BY <1>1 DEF Asked
<1> HIDE DEF f
<1>3. n \in 0 .. Len(t) /\ n + 1 \in 0 .. Len(t) /\ n + 1 \in Nat /\ n + 1 \in 1 .. Len(t)
  OBVIOUS
<1>4. IsFiniteSet(Asked(t, n)) /\ IsFiniteSet(Asked(t, n + 1))
  BY <1>3, AskedFinite
<1>5. \A m : Takes(t, m) = SumOf(f(m), Asked(t, m))
  BY DEF Takes, f
<1>6. Takes(t, n) \in Int /\ Takes(t, n + 1) \in Int
  BY <1>2, <1>3, <1>4, <1>5, SumInt
<1>7. CASE t[n + 1].type # "FREE"
  <2>1. Asked(t, n + 1) = Asked(t, n) \cup {n + 1} /\ n + 1 \notin Asked(t, n)
    BY <1>7 DEF Asked
  <2>2. \A k \in Asked(t, n) : f(n + 1)[k] = f(n)[k]
    BY <1>2, <1>3, <2>1
  <2>3. SumOf(f(n + 1), Asked(t, n)) = SumOf(f(n), Asked(t, n))
    BY <1>4, <2>2, SumSame
  <2>4. \A k \in Asked(t, n) \cup {n + 1} : f(n + 1)[k] \in Int
    BY <1>2, <1>3, <2>1
  <2>5. SumOf(f(n + 1), Asked(t, n) \cup {n + 1}) = f(n + 1)[n + 1] + SumOf(f(n + 1), Asked(t, n))
    BY <1>4, <2>1, <2>4, SumInsert
  <2>6. f(n + 1)[n + 1] = newsize(t[n + 1].size)
    BY <1>2, <1>3, <2>1
  <2>7. Takes(t, n + 1) = newsize(t[n + 1].size) + Takes(t, n)
    BY <1>5, <2>1, <2>3, <2>5, <2>6
  <2> QED BY <1>1, <1>3, <1>6, <1>7, <2>7
<1>8. CASE t[n + 1].type = "FREE"
  <2>1. Asked(t, n + 1) = Asked(t, n)
    BY <1>8 DEF Asked
  <2>2. Takes(t, n + 1) = Takes(t, n)
    BY <1>5, <2>1 DEF f
  <2> QED BY <1>1, <1>3, <1>6, <1>8, <2>2
<1> QED BY <1>7, <1>8

LEMMA TakesZero == \A t : Takes(t, 0) = 0
<1>1. \A t : Asked(t, 0) = {}
  BY DEF Asked
<1> QED BY <1>1, SumEmpty DEF Takes

\* mem_brk stands where the sizes of the requests so far add up to.
LEMMA LayoutTakes ==
  ASSUME ALIGNMENT = 8, NEW t \in Seq(traceop_t), NEW m \in 0 .. Len(t), NEW b, Layout(t, b, m),
         NEW n \in 0 .. m
  PROVE  b[n] \in Nat /\ Takes(t, n) \in Int /\ b[n] = mem_start_brk + Takes(t, n)
<1> DEFINE Bad == {k \in 0 .. m : ~(Takes(t, k) \in Int /\ b[k] = mem_start_brk + Takes(t, k))}
<1>1. \A k \in 0 .. m : b[k] \in Nat
  BY DEF Layout
<1>2. b[0] = mem_start_brk /\ mem_start_brk \in Nat
  BY MemlibAssumption DEF Layout
<1>3. Bad = {}
  <2>1. SUFFICES ASSUME Bad # {} PROVE FALSE
    OBVIOUS
  <2>2. Bad \in SUBSET Nat
    OBVIOUS
  <2>3. PICK k \in Bad : \A l \in Bad : k <= l
    <3> HIDE DEF Bad
    <3> QED BY <2>1, <2>2, Least
  <2>4. k # 0
    BY <1>2, TakesZero
  <2>5. PICK p \in 0 .. m : k = p + 1 /\ p \in Nat /\ p < Len(t) /\ p + 1 \in 1 .. m /\ (p + 1) - 1 = p
    <3>1. k - 1 \in 0 .. m /\ k = (k - 1) + 1 /\ k - 1 \in Nat /\ k - 1 < Len(t) /\ (k - 1) + 1 \in 1 .. m
          /\ ((k - 1) + 1) - 1 = k - 1
      BY <2>4
    <3> QED BY <3>1
  <2>6. Takes(t, p) \in Int /\ b[p] = mem_start_brk + Takes(t, p)
    <3>1. p \notin Bad
      BY <2>3, <2>5
    <3> QED BY <3>1
  <2>7. b[p + 1] = mem_start_brk + Takes(t, p + 1)
    <3>1. CASE t[p + 1].type # "FREE"
      <4>1. b[p + 1] = b[p] + newsize(t[p + 1].size)
        BY <2>5, <3>1 DEF Layout
      <4>2. Takes(t, p + 1) = Takes(t, p) + newsize(t[p + 1].size) /\ newsize(t[p + 1].size) \in Int
        BY <2>5, <3>1, TakesNext
      <4> QED BY <1>2, <2>6, <4>1, <4>2
    <3>2. CASE t[p + 1].type = "FREE"
      <4>1. b[p + 1] = b[p]
        BY <2>5, <3>2 DEF Layout
      <4>2. Takes(t, p + 1) = Takes(t, p)
        BY <2>5, <3>2, TakesNext
      <4> QED BY <2>6, <4>1, <4>2
    <3> QED BY <3>1, <3>2
  <2>8. Takes(t, p + 1) \in Int
    BY <2>5, TakesNext
  <2> QED BY <2>5, <2>7, <2>8
<1> HIDE DEF Bad
<1>4. n \notin Bad
  BY <1>3
<1> QED BY <1>1, <1>4 DEF Bad

\* A layout for all of the trace: its blocks fit.
LEMMA LayoutFits ==
  ASSUME ALIGNMENT = 8, NEW t \in Seq(traceop_t), NEW b, Layout(t, b, Len(t))
  PROVE  FitsHeap(t)
<1>1. Len(t) \in Nat /\ Len(t) \in 0 .. Len(t)
  OBVIOUS
<1>2. ASSUME NEW k \in Asked(t, Len(t)) PROVE newsize(t[k].size) >= 0
  <2>1. k \in 1 .. Len(t) /\ k - 1 \in 0 .. Len(t) /\ k \in 0 .. Len(t) /\ t[k].type # "FREE"
    BY DEF Asked
  <2>2. t[k] \in traceop_t
    BY <2>1
  <2>3. PICK x \in Nat, z \in Nat, new \in Int :
          x = b[k - 1] /\ z = t[k].size /\ new = newsize(t[k].size)
    <3>1. t[k].size \in 0 .. MaxInt
      BY <2>2 DEF traceop_t
    <3>2. newsize(t[k].size) \in Int /\ t[k].size \in Nat
      BY <3>1, NewsizeBounds, MaxIntFacts
    <3>3. b[k - 1] \in Nat
      BY <2>1 DEF Layout
    <3> QED BY <3>2, <3>3
  <2>4. x + 8 + z <= x + new
    <3>1. b[k] = b[k - 1] + newsize(t[k].size) /\ b[k - 1] + 8 + t[k].size <= b[k]
      BY <2>1 DEF Layout
    <3> QED BY <2>3, <3>1
  <2>5. new >= 0
    BY <2>4
  <2> QED BY <2>3, <2>5
<1>3. Footprint(t) <= MAX_HEAP
  <2>1. /\ b[Len(t)] = mem_start_brk + Takes(t, Len(t)) /\ Takes(t, Len(t)) \in Int
        /\ b[Len(t)] <= mem_start_brk + MAX_HEAP
    BY <1>1, LayoutTakes DEF Layout, mem_max_addr
  <2>2. Takes(t, Len(t)) <= MAX_HEAP
    BY <2>1, MemlibAssumption, ConfigAssumption
  <2> QED BY <1>1, <2>2, FootprintIs
<1> QED BY <1>2, <1>3 DEF FitsHeap

\* The sums grow along the trace.
LEMMA TakesGrow ==
  ASSUME ALIGNMENT = 8, NEW t \in Seq(traceop_t), NEW n \in 0 .. Len(t),
         \A k \in Asked(t, Len(t)) : newsize(t[k].size) >= 0
  PROVE  Takes(t, n) <= Takes(t, Len(t)) /\ Takes(t, n) \in Int /\ Takes(t, Len(t)) \in Int
<1> DEFINE Bad == {k \in 0 .. Len(t) - n : ~(Takes(t, n + k) \in Int /\ Takes(t, n) <= Takes(t, n + k))}
<1>1. Takes(t, n) \in Int
  <2>1. CASE n = 0
    BY <2>1, TakesZero
  <2>2. CASE n # 0
    <3>1. n - 1 \in Nat /\ n - 1 < Len(t) /\ (n - 1) + 1 = n
      BY <2>2
    <3> QED BY <3>1, TakesNext
  <2> QED BY <2>1, <2>2
<1>2. Bad = {}
  <2>1. SUFFICES ASSUME Bad # {} PROVE FALSE
    OBVIOUS
  <2>2. Bad \in SUBSET Nat
    OBVIOUS
  <2>3. PICK k \in Bad : \A l \in Bad : k <= l
    <3> HIDE DEF Bad
    <3> QED BY <2>1, <2>2, Least
  <2>4. k # 0
    BY <1>1
  <2>5. PICK p \in Nat : k = p + 1 /\ p \in 0 .. Len(t) - n
    <3>1. k - 1 \in Nat /\ k = (k - 1) + 1 /\ k - 1 \in 0 .. Len(t) - n
      BY <2>4
    <3> QED BY <3>1
  <2>6. Takes(t, n + p) \in Int /\ Takes(t, n) <= Takes(t, n + p)
    <3>1. p \notin Bad
      BY <2>3, <2>5
    <3> QED BY <2>5, <3>1
  <2>7. PICK q \in Nat : q = n + p /\ q < Len(t) /\ q + 1 = n + k /\ q + 1 \in 1 .. Len(t)
    <3>1. n + p \in Nat /\ n + p < Len(t) /\ (n + p) + 1 = n + k /\ (n + p) + 1 \in 1 .. Len(t)
      BY <2>5
    <3> QED BY <3>1
  <2>8. Takes(t, q + 1) \in Int /\ Takes(t, q) <= Takes(t, q + 1)
    <3>1. CASE t[q + 1].type # "FREE"
      <4>1. newsize(t[q + 1].size) >= 0
        BY <2>7, <3>1 DEF Asked
      <4>2. PICK x \in Int, new \in Int, y \in Int :
              /\ x = Takes(t, q) /\ new = newsize(t[q + 1].size) /\ y = Takes(t, q + 1) /\ y = x + new
              /\ new >= 0
        BY <2>7, <3>1, <4>1, TakesNext
      <4>3. x <= y
        BY <4>2
      <4> QED BY <4>2, <4>3
    <3>2. CASE t[q + 1].type = "FREE"
      BY <2>6, <2>7, <3>2, TakesNext
    <3> QED BY <3>1, <3>2
  <2> QED BY <1>1, <2>5, <2>6, <2>7, <2>8
<1> HIDE DEF Bad
<1>3. Len(t) - n \notin Bad /\ Len(t) - n \in 0 .. Len(t) - n /\ n + (Len(t) - n) = Len(t)
  BY <1>2
<1> QED BY <1>1, <1>3 DEF Bad

\* The next request finds no room: the trace does not fit.
LEMMA TooLarge ==
  ASSUME ALIGNMENT = 8, NEW t \in Seq(traceop_t), NEW n \in Nat, n < Len(t), NEW b, Layout(t, b, n),
         HeapOK, mem_brk = b[n], t[n + 1].type # "FREE", ~Fits(t[n + 1].size)
  PROVE  ~FitsHeap(t)
<1> SUFFICES ASSUME FitsHeap(t) PROVE FALSE
  OBVIOUS
<1>1. n \in 0 .. Len(t) /\ n + 1 \in 0 .. Len(t) /\ n + 1 \in 1 .. Len(t) /\ n \in 0 .. n /\ Len(t) \in Nat
  OBVIOUS
<1>2. newsize(t[n + 1].size) >= 0
  BY <1>1 DEF FitsHeap, Asked
<1>3. mem_brk = mem_start_brk + Takes(t, n)
  BY <1>1, LayoutTakes
<1>4. Takes(t, n + 1) <= Takes(t, Len(t)) /\ Takes(t, Len(t)) \in Int
  BY <1>1, TakesGrow DEF FitsHeap
<1>5. Takes(t, Len(t)) <= MAX_HEAP
  BY <1>1, FootprintIs DEF FitsHeap
<1>6. PICK lo \in Nat, hi \in Nat, x \in Int, y \in Int, z \in Int, new \in Int :
        /\ lo = mem_start_brk /\ hi = MAX_HEAP /\ x = Takes(t, n) /\ y = Takes(t, n + 1)
        /\ z = Takes(t, Len(t)) /\ new = newsize(t[n + 1].size)
        /\ y = x + new /\ y <= z /\ z <= hi
  <2>1. /\ Takes(t, n) \in Int /\ Takes(t, n + 1) \in Int /\ newsize(t[n + 1].size) \in Int
        /\ Takes(t, n + 1) = Takes(t, n) + newsize(t[n + 1].size)
    BY TakesNext
  <2> QED BY <1>4, <1>5, <2>1, MemlibAssumption, ConfigAssumption
<1>7. (lo + x) + new <= lo + hi
  <2>1. y = x + new /\ y <= z /\ z <= hi
    BY <1>6
  <2> QED BY <2>1
<1>8. mem_brk + newsize(t[n + 1].size) <= mem_max_addr
  BY <1>3, <1>6, <1>7 DEF mem_max_addr
<1> QED BY <1>2, <1>8 DEF Fits

-----------------------------------------------------------------------------
(* The checks of eval_mm_valid never fail on mm.c *)

\* The payloads that the driver holds are filled with their index.
Intact(t, n) ==
  \A i \in LiveAfter(t, n) : \A j \in 0 .. SizeAfter(t, n, i) - 1 : mem[blocks[i] + j] = LowByte(i)

\* A block placed at mem_brk passes add_range.
LEMMA Accepted ==
  ASSUME ALIGNMENT = 8, HeapOK, NEW t \in Seq(traceop_t), NEW n \in 0 .. Len(t), NEW b,
         Layout(t, b, n), mem_brk = b[n], mem_brk % 8 = 0, NEW idx,
         NEW size \in 0 .. MaxInt, size > 0, NEW r, Fits(size), Places(r, size), mem_brk' = r.brk
  PROVE  Acceptable(OtherRanges(t, b, n, idx), range(r.ptr, size))
<1>1. PICK lo \in Nat, h \in Nat, hi \in Nat, new \in Int, w \in Nat :
        /\ lo = mem_start_brk /\ h = mem_brk /\ hi = mem_max_addr /\ new = newsize(size) /\ w = WordMod
        /\ lo > 0 /\ lo <= h /\ h + new <= hi /\ size + 8 <= new /\ hi < w /\ h % 8 = 0
  <2>1. newsize(size) \in Int /\ newsize(size) >= 0 /\ size + 8 <= newsize(size)
        /\ mem_brk + newsize(size) <= mem_max_addr
    BY NewsizeBounds DEF Fits
  <2>2. mem_max_addr < WordMod /\ WordMod \in Nat
    BY MemlibAssumption DEF mem_max_addr
  <2> QED BY <2>1, <2>2, HeapFacts
<1>2. r.ptr = h + 8 /\ mem_brk' = h + new
  BY <1>1 DEF Places
<1>3. (h + 8) % 8 = 0 /\ ALIGNMENT = 8
  BY <1>1
<1>4. h + 8 + size - 1 \in Nat /\ h + 8 + size - 1 < w /\ h + 8 + size - 1 <= h + new - 1
      /\ lo <= h + 8 /\ h + 8 <= h + new - 1 /\ lo <= h + 8 + size - 1
  <2>1. lo <= h /\ h + new <= hi /\ size + 8 <= new /\ hi < w /\ size \in Nat /\ size > 0
    BY <1>1, MaxIntFacts
  <2> QED BY <2>1
<1>5. range(r.ptr, size) = [lo |-> h + 8, hi |-> h + 8 + size - 1]
  <2>1. (h + 8 + size - 1) % w = h + 8 + size - 1
    BY <1>1, <1>4, ModSmall
  <2> QED BY <1>1, <1>2, <2>1 DEF range
<1>6. ASSUME NEW p \in OtherRanges(t, b, n, idx) PROVE p.lo \in Nat /\ p.hi \in Nat /\ p.hi < h
  <2>1. PICK i \in LiveAfter(t, n) : p = range(Ptr(t, b, n, i), SizeAfter(t, n, i))
    BY DEF OtherRanges
  <2>2. n \in 0 .. n
    OBVIOUS
  <2>3. PICK q \in Nat, z \in Nat : q = Ptr(t, b, n, i) /\ z = SizeAfter(t, n, i) /\ lo + 8 <= q /\ q + z <= h
    BY <1>1, <2>2, LayoutApart
  <2>4. q + z - 1 \in Nat /\ q + z - 1 < w /\ q + z - 1 < h
    <3>1. lo <= h /\ h + new <= hi /\ size + 8 <= new /\ hi < w /\ size \in Nat
      BY <1>1, MaxIntFacts
    <3>2. lo + 8 <= q /\ q + z <= h
      BY <2>3
    <3> QED BY <3>1, <3>2
  <2>5. (q + z - 1) % w = q + z - 1
    BY <1>1, <2>4, ModSmall
  <2>6. p.lo = q /\ p.hi = q + z - 1
    BY <1>1, <2>1, <2>3, <2>5 DEF range
  <2> QED BY <2>3, <2>4, <2>6
<1>7. ASSUME NEW p \in OtherRanges(t, b, n, idx) PROVE ~Overlaps([lo |-> h + 8, hi |-> h + 8 + size - 1], p)
  <2>1. PICK u \in Nat, v \in Nat : u = p.lo /\ v = p.hi /\ v < h
    BY <1>6
  <2>2. ~(h + 8 <= v) /\ ~(h + 8 + size - 1 <= v)
    BY <1>4, <2>1
  <2> QED BY <2>1, <2>2 DEF Overlaps
<1>8. WithinHeap(h + 8) /\ WithinHeap(h + 8 + size - 1)
  <2>1. mem_heap_hi' = h + new - 1
    BY <1>2 DEF mem_heap_hi
  <2> QED BY <1>1, <1>4, <2>1 DEF WithinHeap, mem_heap_lo
<1> QED BY <1>3, <1>5, <1>7, <1>8 DEF Acceptable, IS_ALIGNED

\* mm_realloc has copied what the driver filled the old block with.
LEMMA Copied ==
  ASSUME ALIGNMENT = 8, RoomAbove, LowIndices, HeapOK, NEW t \in Seq(traceop_t),
         NEW n \in 0 .. Len(t), NEW b, Layout(t, b, n), mem_brk = b[n], Holds(t, b, n), Intact(t, n),
         NEW i \in LiveAfter(t, n), i \in Ids, NEW size \in 0 .. MaxInt,
         NEW r, r = mm_realloc(blocks[i], size), r.ptr # NULL,
         NEW j \in 0 .. size - 1, j < SizeAfter(t, n, i)
  PROVE  SeesOwnFill(r.mem[r.ptr + j], i)
<1> DEFINE new == mm_malloc(size)
<1>1. new.ptr # NULL
  <2> SUFFICES ASSUME new.ptr = NULL PROVE FALSE
    OBVIOUS
  <2>1. r = Failed
    BY DEF mm_realloc
  <2> QED BY <2>1 DEF Failed
<1>2. /\ Fits(size) /\ new = [ptr |-> mem_brk + 8, brk |-> mem_brk + newsize(size),
                              mem |-> [mem EXCEPT ![mem_brk] = size]]
  BY <1>1, MallocPlaces
<1>3. r = [new EXCEPT !.mem = memcpy(new.mem, new.ptr, blocks[i], copySize(new.mem, blocks[i], size))]
  BY <1>1 DEF mm_realloc
<1>4. n \in 0 .. n
  OBVIOUS
<1>5. PICK lo \in Nat, h \in Nat, hi \in Nat, q \in Nat, z \in Nat, take \in Int :
        /\ lo = mem_start_brk /\ h = mem_brk /\ hi = mem_max_addr /\ take = newsize(size)
        /\ q = Ptr(t, b, n, i) /\ z = SizeAfter(t, n, i)
        /\ lo + 8 <= q /\ q + z <= h /\ h + take <= hi /\ size + 8 <= take /\ lo <= h
  <2>1. newsize(size) \in Int /\ newsize(size) >= 0 /\ size + 8 <= newsize(size)
        /\ mem_brk + newsize(size) <= mem_max_addr
    BY <1>2, NewsizeBounds DEF Fits
  <2>2. /\ Ptr(t, b, n, i) \in Nat /\ SizeAfter(t, n, i) \in Nat
        /\ mem_start_brk + 8 <= Ptr(t, b, n, i)
        /\ Ptr(t, b, n, i) + SizeAfter(t, n, i) <= mem_brk
    BY <1>4, LayoutApart
  <2> QED BY <2>1, <2>2, HeapFacts
<1>6. blocks[i] = q /\ mem[q - 8] = z /\ mem[q + j] = LowByte(i) /\ j < z
  <2>1. j \in 0 .. z - 1
    BY <1>5
  <2> QED BY <1>5, <2>1 DEF Holds, Intact
<1>7. HeapAddr = lo .. hi - 1 /\ mem = [x \in HeapAddr |-> mem[x]]
  BY <1>5, HeapFacts DEF HeapOK
<1> DEFINE m == new.mem
<1>8. m = [mem EXCEPT ![h] = size]
  BY <1>2, <1>5
<1>9. /\ q - 8 \in HeapAddr /\ q - 8 # h /\ q + j \in HeapAddr /\ q + j # h
      /\ h + 8 + j \in HeapAddr
  <2>0. /\ lo + 8 <= q /\ q + z <= h /\ h + take <= hi /\ size + 8 <= take /\ lo <= h /\ j < z
        /\ size \in Nat /\ j \in 0 .. size - 1
    BY <1>5, <1>6, MaxIntFacts, SMTT(30)
  <2>1. q - 8 \in lo .. hi - 1 /\ q - 8 # h
    BY <2>0
  <2>2. q + j \in lo .. hi - 1 /\ q + j # h
    BY <2>0
  <2>3. h + 8 + j \in lo .. hi - 1
    BY <2>0
  <2> QED BY <1>7, <2>1, <2>2, <2>3
<1>10. m[q - 8] = z /\ m[q + j] = LowByte(i) /\ DOMAIN m = HeapAddr
  BY <1>6, <1>7, <1>8, <1>9
<1>11. PICK c \in Nat : c = copySize(m, q, size) /\ j < c
  <2>1. copySize(m, q, size) = IF size < z THEN size ELSE z
    BY <1>10, HeaderSize DEF copySize
  <2>2. size \in Nat /\ j < size
    OBVIOUS
  <2> QED BY <1>6, <2>1, <2>2
<1>12. r.ptr = h + 8 /\ r.mem = memcpy(m, h + 8, q, c)
  BY <1>2, <1>3, <1>5, <1>6, <1>11
<1> HIDE DEF m, new
<1>13. r.mem[h + 8 + j] = m[q + j]
  <2>1. r.mem = [x \in HeapAddr |-> IF h + 8 <= x /\ x < h + 8 + c THEN m[q + (x - (h + 8))] ELSE m[x]]
    BY <1>10, <1>12 DEF memcpy
  <2>2. h + 8 <= h + 8 + j /\ h + 8 + j < h + 8 + c /\ (h + 8 + j) - (h + 8) = j
    BY <1>11
  <2> QED BY <1>9, <2>1, <2>2
<1>14. SeesOwnFill(LowByte(i), i)
  BY DEF LowIndices, SeesOwnFill, SChar
<1> QED BY <1>10, <1>12, <1>13, <1>14

\* The new block is filled, and the fills of the others are left alone.
LEMMA IntactAsk ==
  ASSUME NEW t \in Seq(traceop_t), NEW n \in Nat, n < Len(t), NEW b, Layout(t, b, n),
         t[n + 1].type # "FREE", HeapOK, mem_brk = b[n], Holds(t, b, n), Intact(t, n),
         blocks \in [Ids -> Nat],
         blocks' = [blocks EXCEPT ![t[n + 1].index] = mem_brk + 8],
         \A x \in HeapAddr : x < mem_brk => mem'[x] = mem[x],
         \A j \in 0 .. t[n + 1].size - 1 : mem'[mem_brk + 8 + j] = LowByte(t[n + 1].index)
  PROVE  Intact(t, n + 1)'
<1> DEFINE idx == t[n + 1].index
<1>1. /\ LiveAfter(t, n + 1) = LiveAfter(t, n) \cup {idx}
      /\ Last(t, n + 1, idx) = n + 1
      /\ \A i \in LiveAfter(t, n) \ {idx} : Last(t, n + 1, i) = Last(t, n, i)
  BY AskNext
<1>2. idx \in Ids /\ t[n + 1].size \in Nat /\ n + 1 \in Nat /\ LiveAfter(t, n) \subseteq Ids
      /\ n \in 0 .. Len(t) /\ n \in 0 .. n
  <2>1. n \in 0 .. Len(t) /\ n \in 0 .. n
    OBVIOUS
  <2> QED BY <2>1, Request, LiveIds
<1>3. ASSUME NEW j \in 0 .. SizeAfter(t, n + 1, idx) - 1 PROVE mem'[blocks'[idx] + j] = LowByte(idx)
  <2>1. idx \in LiveAfter(t, n + 1)
    BY <1>1
  <2>2. SizeAfter(t, n + 1, idx) = t[Last(t, n + 1, idx)].size
    BY <1>2, <2>1, LastIsAsk
  <2>3. blocks'[idx] = mem_brk + 8
    BY <1>2
  <2> QED BY <1>1, <2>2, <2>3
<1>4. ASSUME NEW i \in LiveAfter(t, n) \ {idx}, NEW j \in 0 .. SizeAfter(t, n + 1, i) - 1
      PROVE  mem'[blocks'[i] + j] = LowByte(i)
  <2>1. i \in LiveAfter(t, n) /\ i \in LiveAfter(t, n + 1)
    BY <1>1
  <2>2. SizeAfter(t, n + 1, i) = SizeAfter(t, n, i)
    BY <1>1, <1>2, <2>1, LastIsAsk
  <2>3. blocks'[i] = blocks[i] /\ blocks[i] = Ptr(t, b, n, i)
    BY <1>2, <2>1 DEF Holds
  <2>4. PICK q \in Nat, z \in Nat, lo \in Nat, h \in Nat, hi \in Nat :
          /\ q = Ptr(t, b, n, i) /\ z = SizeAfter(t, n, i) /\ lo = mem_start_brk /\ h = mem_brk
          /\ hi = mem_max_addr /\ lo + 8 <= q /\ q + z <= h /\ h <= hi
    BY <1>2, <2>1, LayoutApart, HeapFacts
  <2>5. j \in 0 .. z - 1
    BY <2>2, <2>4
  <2>6. q + j \in HeapAddr /\ q + j < h
    <3>1. q + j \in lo .. hi - 1 /\ q + j < h
      <4>1. lo + 8 <= q /\ q + z <= h /\ h <= hi /\ j \in 0 .. z - 1
        BY <2>4, <2>5
      <4> QED BY <4>1
    <3> QED BY <2>4, <3>1, HeapFacts
  <2>7. mem[blocks[i] + j] = LowByte(i)
    BY <2>1, <2>4, <2>5 DEF Intact
  <2> QED BY <2>3, <2>4, <2>6, <2>7
<1> HIDE DEF idx
<1> QED BY <1>1, <1>3, <1>4 DEF Intact

LEMMA IntactFree ==
  ASSUME NEW t, NEW n \in Nat, t[n + 1].type = "FREE", Intact(t, n), UNCHANGED <<blocks, mem>>
  PROVE  Intact(t, n + 1)'
<1>1. /\ LiveAfter(t, n + 1) = LiveAfter(t, n) \ {t[n + 1].index}
      /\ \A i \in LiveAfter(t, n) : Last(t, n + 1, i) = Last(t, n, i)
  BY FreeNext
<1>2. ASSUME NEW i \in LiveAfter(t, n + 1), NEW j \in 0 .. SizeAfter(t, n + 1, i) - 1
      PROVE  mem'[blocks'[i] + j] = LowByte(i)
  <2>1. i \in LiveAfter(t, n)
    BY <1>1
  <2>2. SizeAfter(t, n + 1, i) = SizeAfter(t, n, i)
    BY <1>1, <2>1, LastIsAsk
  <2> QED BY <2>1, <2>2 DEF Intact
<1> QED BY <1>2 DEF Intact

-----------------------------------------------------------------------------
(* The verdicts *)

\* What eval_mm_valid relies on while it plays a trace
Playing ==
  phase = "valid" => mem_brk % 8 = 0 /\ Remembered(ops, opnum) /\ Intact(ops, opnum)

\* The traces judged so far
JudgedUpTo(n) ==
  /\ \A t \in 1 .. n : mm_stats[t].valid <=> FitsHeap(tracefiles[t])
  /\ \A t \in DOMAIN tracefiles : t > n => ~mm_stats[t].valid

Rejected(n) == {t \in 1 .. n : ~mm_stats[t].valid}

Verdicts ==
  /\ JudgedUpTo(IF phase \in Judged THEN tracenum + 1 ELSE tracenum)
  /\ phase \in Judged => mm_stats[tracenum + 1].valid
  /\ phase # "aborted" => errors = Cardinality(Rejected(tracenum))

VInv == Playing /\ Verdicts

LEMMA RejectedFinite ==
  ASSUME NEW n \in Nat
  PROVE  IsFiniteSet(Rejected(n)) /\ Cardinality(Rejected(n)) \in Nat
<1>1. IsFiniteSet(1 .. n) /\ Rejected(n) \in SUBSET (1 .. n)
  BY FS_Interval DEF Rejected
<1> QED BY <1>1, FS_Subset, FS_CardinalityType

\* Steps that leave the verdicts alone
LEMMA VerdictsKept ==
  ASSUME Verdicts, UNCHANGED <<mm_stats, tracefiles, tracenum, errors>>,
         phase = "aborted" => phase' = "aborted",
         phase' \in Judged <=> phase \in Judged
  PROVE  Verdicts'
<1>1. \A n : JudgedUpTo(n) => JudgedUpTo(n)'
  BY DEF JudgedUpTo, FitsHeap
<1> QED BY <1>1 DEF Verdicts, Rejected

\* The trace at hand is rejected: it does not fit.
LEMMA TraceRejected ==
  ASSUME Control, Verdicts, phase = "valid", ~FitsHeap(ops), phase' = "read",
         tracenum' = tracenum + 1, errors' = errors + 1, UNCHANGED <<mm_stats, tracefiles>>
  PROVE  VInv'
<1>1. /\ tracenum \in Nat /\ tracenum + 1 \in DOMAIN tracefiles
      /\ phase \notin Judged /\ phase' \notin Judged
      /\ DOMAIN tracefiles \subseteq Nat
  <2>1. tracefiles \in Seq(Seq(traceop_t)) /\ tracenum \in 0 .. Len(tracefiles) /\ tracenum < Len(tracefiles)
    BY MDriverAssumption DEF Control, Before
  <2>2. tracenum \in Nat /\ Len(tracefiles) \in Nat /\ DOMAIN tracefiles = 1 .. Len(tracefiles)
    BY <2>1
  <2>3. tracenum + 1 \in 1 .. Len(tracefiles)
    BY <2>1, <2>2
  <2> QED BY <2>2, <2>3 DEF Judged
<1>2. JudgedUpTo(tracenum) /\ ~mm_stats[tracenum + 1].valid
  BY <1>1 DEF Verdicts, JudgedUpTo
<1>3. \A t \in 1 .. tracenum + 1 : t \in 1 .. tracenum \/ t = tracenum + 1
  BY <1>1
<1>4. JudgedUpTo(tracenum + 1)
  <2>1. \A t \in DOMAIN tracefiles : t > tracenum + 1 => t > tracenum
    BY <1>1
  <2> QED BY <1>2, <1>3, <2>1 DEF JudgedUpTo, ops
<1>5. JudgedUpTo(tracenum)'
  BY <1>4 DEF JudgedUpTo
<1>6. Rejected(tracenum + 1) = Rejected(tracenum) \cup {tracenum + 1} /\ tracenum + 1 \notin Rejected(tracenum)
  BY <1>1, <1>2, <1>3 DEF Rejected
<1>7. errors = Cardinality(Rejected(tracenum))
  BY DEF Verdicts
<1>8. errors' = Cardinality(Rejected(tracenum + 1))
  BY <1>1, <1>6, <1>7, RejectedFinite, FS_AddElement
<1>9. Rejected(tracenum)' = Rejected(tracenum + 1)
  BY DEF Rejected
<1> QED BY <1>1, <1>5, <1>8, <1>9 DEF VInv, Playing, Verdicts

\* eval_mm_valid serves a request that asks.
LEMMA ValidAskJudges ==
  ASSUME ALIGNMENT = 8, RoomAbove, IInv, UInv, VInv, phase = "valid", MoreOps, op.type # "FREE",
         NEW r, NEW rs, NEW preserved \in BOOLEAN,
         r.ptr = NULL => ~Fits(op.size),
         r.ptr # NULL => Fits(op.size) /\ Places(r, op.size) /\ preserved,
         \/ r.ptr = NULL /\ malloc_error(ranges)
         \/ r.ptr # NULL /\ Examine(op.index, r.ptr, op.size, rs, preserved),
         \A b : Layout(ops, b, opnum) /\ ranges = RangesOf(ops, b, opnum) /\ Holds(ops, b, opnum)
                => rs = OtherRanges(ops, b, opnum, op.index),
         mem_brk' = r.brk, Filled(r), AfterValidOp
  PROVE  VInv'
<1>1. /\ ops \in Seq(traceop_t) /\ opnum \in Nat /\ opnum < Len(ops)
      /\ op = ops[opnum + 1] /\ op.index \in Ids /\ op.size \in Nat /\ op.size \in 0 .. MaxInt
      /\ HeapOK /\ blocks \in [Ids -> Nat] /\ verdict = "running" /\ block_sizes \in [Ids -> Nat]
  BY OpInTrace DEF IInv, InPass, Control, Judging, UInv, StatsOK
<1>2. PICK t, n, b : /\ t = ops /\ n = opnum /\ t \in Seq(traceop_t) /\ n \in Nat /\ n < Len(t)
                     /\ n \in 0 .. Len(t) /\ op = t[n + 1] /\ Layout(t, b, n) /\ mem_brk = b[n]
                     /\ Holds(t, b, n) /\ ranges = RangesOf(t, b, n)
                     /\ Remembered(t, n) /\ Intact(t, n) /\ mem_brk % 8 = 0
  <2>1. \E b : Layout(ops, b, opnum) /\ mem_brk = b[opnum] /\ Holds(ops, b, opnum) /\ ranges = RangesOf(ops, b, opnum)
    BY DEF IInv, Judging
  <2>2. Remembered(ops, opnum) /\ Intact(ops, opnum) /\ mem_brk % 8 = 0
    BY DEF VInv, Playing
  <2>3. opnum \in 0 .. Len(ops)
    BY <1>1
  <2> QED BY <1>1, <2>1, <2>2, <2>3
<1>3. UNCHANGED <<mm_stats, tracefiles>>
  BY DEF AfterValidOp, statVars
<1>4. CASE r.ptr = NULL
  <2>1. /\ errors' = errors + 1 /\ verdict' = "invalid" /\ phase' = "read" /\ tracenum' = tracenum + 1
    BY <1>4 DEF malloc_error, AfterValidOp
  <2>2. ~FitsHeap(ops)
    <3>1. ~Fits(t[n + 1].size) /\ t[n + 1].type # "FREE"
      BY <1>2, <1>4
    <3> QED BY <1>1, <1>2, <3>1, TooLarge
  <2> QED BY <1>3, <2>1, <2>2, TraceRejected DEF IInv, VInv
<1>5. CASE r.ptr # NULL /\ op.size <= 0
  <2>1. assert_fails(rs)
    BY <1>1, <1>5 DEF Examine
  <2>2. verdict' = "aborted" /\ phase' = "aborted" /\ UNCHANGED <<tracenum, errors>>
    BY <2>1 DEF assert_fails, AfterValidOp
  <2>3. Verdicts'
    BY <1>3, <2>2, VerdictsKept DEF VInv, Judged
  <2> QED BY <2>2, <2>3 DEF VInv, Playing
<1>6. CASE r.ptr # NULL /\ op.size > 0
  <2>1. Fits(op.size) /\ Places(r, op.size) /\ preserved
    BY <1>6
  <2>2. Acceptable(rs, range(r.ptr, op.size))
    <3>1. rs = OtherRanges(t, b, n, op.index)
      BY <1>2
    <3> QED BY <1>1, <1>2, <1>6, <2>1, <3>1, Accepted
  <2>3. Remember(op.index, r.ptr, op.size, rs)
    BY <1>1, <1>6, <2>1, <2>2 DEF Examine
  <2>4. /\ blocks' = [blocks EXCEPT ![t[n + 1].index] = r.ptr]
        /\ block_sizes' = [block_sizes EXCEPT ![t[n + 1].index] = t[n + 1].size]
        /\ errors' = errors /\ verdict' = "running"
        /\ phase' = "valid" /\ opnum' = n + 1 /\ tracenum' = tracenum
    BY <1>1, <1>2, <2>3 DEF Remember, AfterValidOp, Advance
  <2>5. ops' = t
    BY <1>2, <1>3, <2>4 DEF ops
  <2>6. Remembered(t, n + 1)'
    BY <1>1, <1>2, <2>4, RememberAsk
  <2>7. /\ t[n + 1].type # "FREE" /\ t[n + 1].size \in 0 .. MaxInt
        /\ r.ptr = mem_brk + 8 /\ r.mem = [x \in HeapAddr |-> r.mem[x]]
        /\ \A x \in HeapAddr : x < mem_brk => r.mem[x] = mem[x]
        /\ mem_brk' = mem_brk + newsize(t[n + 1].size)
        /\ mem' = memset(r.mem, r.ptr, LowByte(t[n + 1].index), t[n + 1].size)
    BY <1>1, <1>2, <2>1, <2>4 DEF Places, Filled
  <2>8. PICK lo \in Nat, h \in Nat, hi \in Nat, new \in Int, z \in Nat :
          /\ lo = mem_start_brk /\ h = mem_brk /\ hi = mem_max_addr /\ new = newsize(t[n + 1].size)
          /\ z = t[n + 1].size
          /\ lo <= h /\ h + new <= hi /\ z + 8 <= new /\ new % 8 = 0 /\ new >= 0 /\ h % 8 = 0
    <3>1. /\ newsize(t[n + 1].size) \in Int /\ newsize(t[n + 1].size) >= 0
          /\ t[n + 1].size + 8 <= newsize(t[n + 1].size) /\ newsize(t[n + 1].size) % 8 = 0
          /\ mem_brk + newsize(t[n + 1].size) <= mem_max_addr
      BY <1>2, <2>1, <2>7, NewsizeBounds DEF Fits
    <3> QED BY <1>1, <1>2, <3>1, HeapFacts
  <2>9. mem_brk' % 8 = 0
    <3>1. (h + new) % 8 = 0
      <4>1. h % 8 = 0 /\ new % 8 = 0 /\ new \in Nat
        BY <2>8
      <4> QED BY <4>1
    <3> QED BY <2>7, <2>8, <3>1
  <2>10. mem' = [x \in HeapAddr |-> IF h + 8 <= x /\ x < (h + 8) + z THEN LowByte(t[n + 1].index) ELSE r.mem[x]]
    <3>1. DOMAIN r.mem = HeapAddr
      BY <2>7
    <3> QED BY <2>7, <2>8, <3>1 DEF memset
  <2>11. \A x \in HeapAddr : x < mem_brk => mem'[x] = mem[x]
    <3>1. \A x \in HeapAddr : x < h => ~(h + 8 <= x)
      BY <1>1, HeapFacts
    <3> QED BY <2>7, <2>8, <2>10, <3>1
  <2>12. ASSUME NEW j \in 0 .. t[n + 1].size - 1 PROVE mem'[mem_brk + 8 + j] = LowByte(t[n + 1].index)
    <3>1. j \in 0 .. z - 1 /\ lo <= h /\ h + new <= hi /\ z + 8 <= new
      BY <2>8
    <3>2. h + 8 + j \in lo .. hi - 1 /\ h + 8 <= h + 8 + j /\ h + 8 + j < (h + 8) + z
      BY <3>1
    <3>3. h + 8 + j \in HeapAddr
      BY <1>1, <2>8, <3>2, HeapFacts
    <3> QED BY <2>8, <2>10, <3>2, <3>3
  <2>13. Intact(t, n + 1)'
    BY <1>1, <1>2, <2>4, <2>7, <2>11, <2>12, IntactAsk
  <2>14. Playing'
    <3>1. (Remembered(ops, opnum) /\ Intact(ops, opnum))'
      BY <2>4, <2>5, <2>6, <2>13 DEF Remembered, Intact
    <3> QED BY <2>9, <3>1 DEF Playing
  <2>15. Verdicts'
    BY <1>3, <2>4, VerdictsKept DEF VInv, Judged
  <2> QED BY <2>14, <2>15 DEF VInv
<1> QED BY <1>1, <1>4, <1>5, <1>6

LEMMA ValidAllocJudges ==
  ASSUME ALIGNMENT = 8, RoomAbove, IInv, UInv, VInv, ValidAlloc
  PROVE  VInv'
<1>1. phase = "valid" /\ MoreOps /\ op.type = "ALLOC" /\ AfterValidOp
  BY DEF ValidAlloc
<1>2. PICK r : /\ r = mm_malloc(op.size) /\ mem_brk' = r.brk
               /\ valid_ALLOC(op.index, op.size, r.ptr) /\ Filled(r)
  BY DEF ValidAlloc
<1>3. HeapOK /\ op.size \in 0 .. MaxInt /\ op.index \notin LiveAfter(ops, opnum)
  BY <1>1, OpInTrace DEF IInv, InPass, Control
<1>4. /\ r.ptr = NULL => ~Fits(op.size)
      /\ r.ptr # NULL => Fits(op.size) /\ Places(r, op.size) /\ TRUE
  BY <1>2, <1>3, MallocPlaces
<1>5. PICK rs : rs = ranges
  OBVIOUS
<1>6. \A b : Layout(ops, b, opnum) /\ ranges = RangesOf(ops, b, opnum) /\ Holds(ops, b, opnum)
             => rs = OtherRanges(ops, b, opnum, op.index)
  <2>1. LiveAfter(ops, opnum) \ {op.index} = LiveAfter(ops, opnum)
    BY <1>3
  <2> QED BY <1>5, <2>1 DEF RangesOf, OtherRanges
<1>7. \/ r.ptr = NULL /\ malloc_error(ranges)
      \/ r.ptr # NULL /\ Examine(op.index, r.ptr, op.size, rs, TRUE)
  BY <1>2, <1>5 DEF valid_ALLOC
<1> QED BY <1>1, <1>2, <1>4, <1>6, <1>7, ValidAskJudges

LEMMA ValidReallocJudges ==
  ASSUME ALIGNMENT = 8, RoomAbove, LowIndices, IInv, UInv, VInv, ValidRealloc
  PROVE  VInv'
<1>1. phase = "valid" /\ MoreOps /\ op.type = "REALLOC" /\ AfterValidOp
  BY DEF ValidRealloc
<1>2. PICK r : /\ r = mm_realloc(blocks[op.index], op.size) /\ mem_brk' = r.brk
               /\ valid_REALLOC(op.index, op.size, r.ptr, DataPreserved(r)) /\ Filled(r)
  BY DEF ValidRealloc
<1>3. /\ HeapOK /\ op.size \in 0 .. MaxInt /\ op.index \in LiveAfter(ops, opnum) /\ op.index \in Ids
      /\ ops \in Seq(traceop_t) /\ opnum \in 0 .. Len(ops) /\ opnum \in 0 .. opnum
  <2>1. ops \in Seq(traceop_t) /\ opnum \in Nat /\ opnum < Len(ops)
    BY <1>1, OpInTrace DEF InPass
  <2>2. opnum \in 0 .. Len(ops) /\ opnum \in 0 .. opnum
    BY <2>1
  <2> QED BY <1>1, <2>1, <2>2, OpInTrace DEF IInv, InPass, Control
<1>4. PICK b : /\ Layout(ops, b, opnum) /\ mem_brk = b[opnum] /\ Holds(ops, b, opnum)
  BY <1>1 DEF IInv, Judging
<1>5. r.ptr # NULL => DataPreserved(r)
  <2> SUFFICES ASSUME r.ptr # NULL, NEW j \in 0 .. op.size - 1, j < block_sizes[op.index]
               PROVE  SeesOwnFill(r.mem[r.ptr + j], op.index)
    BY DEF DataPreserved
  <2>1. /\ Intact(ops, opnum) /\ block_sizes[op.index] = SizeAfter(ops, opnum, op.index)
    BY <1>1, <1>3 DEF VInv, Playing, Remembered
  <2>2. j < SizeAfter(ops, opnum, op.index)
    BY <2>1
  <2> QED BY <1>2, <1>3, <1>4, <2>1, <2>2, Copied
<1>6. PICK rs, preserved : /\ rs = remove_range(ranges, blocks[op.index])
                           /\ preserved = DataPreserved(r) /\ preserved \in BOOLEAN
  BY DEF DataPreserved
<1>7. /\ r.ptr = NULL => ~Fits(op.size)
      /\ r.ptr # NULL => Fits(op.size) /\ Places(r, op.size) /\ preserved
  BY <1>2, <1>3, <1>5, <1>6, ReallocPlaces
<1>8. ASSUME NEW c, Layout(ops, c, opnum), ranges = RangesOf(ops, c, opnum), Holds(ops, c, opnum)
      PROVE  rs = OtherRanges(ops, c, opnum, op.index)
  <2>1. blocks[op.index] = Ptr(ops, c, opnum, op.index)
    BY <1>3, <1>8 DEF Holds
  <2> QED BY <1>3, <1>6, <1>8, <2>1, RemoveOne
<1>9. \/ r.ptr = NULL /\ malloc_error(ranges)
      \/ r.ptr # NULL /\ Examine(op.index, r.ptr, op.size, rs, preserved)
  BY <1>2, <1>6 DEF valid_REALLOC
<1> QED BY <1>1, <1>2, <1>6, <1>7, <1>8, <1>9, ValidAskJudges

LEMMA ValidFreeJudges ==
  ASSUME IInv, VInv, ValidFree
  PROVE  VInv'
<1>1. /\ phase = "valid" /\ MoreOps /\ op.type = "FREE" /\ verdict' = "running"
      /\ UNCHANGED <<blocks, mem>> /\ UNCHANGED mem_brk /\ UNCHANGED block_sizes /\ UNCHANGED errors
  BY DEF ValidFree, valid_FREE, IInv, Judging, mmVars
<1>2. /\ phase' = "valid" /\ opnum' = opnum + 1 /\ tracenum' = tracenum
      /\ UNCHANGED <<mm_stats, tracefiles>>
  BY <1>1 DEF ValidFree, AfterValidOp, Advance, statVars
<1>3. PICK t, n : t = ops /\ n = opnum /\ n \in Nat /\ t[n + 1].type = "FREE"
                  /\ Remembered(t, n) /\ Intact(t, n) /\ mem_brk % 8 = 0
  BY <1>1, OpInTrace DEF InPass, VInv, Playing, op
<1>4. Remembered(t, n + 1)' /\ Intact(t, n + 1)'
  BY <1>1, <1>3, RememberFree, IntactFree
<1>5. ops' = t /\ opnum' = n + 1
  BY <1>2, <1>3 DEF ops
<1>6. Playing'
  <2>1. (Remembered(ops, opnum) /\ Intact(ops, opnum))'
    BY <1>4, <1>5 DEF Remembered, Intact
  <2> QED BY <1>1, <1>3, <2>1 DEF Playing
<1>7. Verdicts'
  BY <1>1, <1>2, VerdictsKept DEF VInv, Judged
<1> QED BY <1>6, <1>7 DEF VInv

\* eval_mm_valid has played all of a trace: it fits.
LEMMA EndValidJudges ==
  ASSUME ALIGNMENT = 8, IInv, UInv, VInv, EndValid
  PROVE  VInv'
<1>1. /\ phase = "valid" /\ ~MoreOps /\ phase' = "begin_util"
      /\ UNCHANGED tracefiles /\ UNCHANGED tracenum /\ UNCHANGED errors
      /\ mm_stats' = [mm_stats EXCEPT ![tracenum + 1].valid = TRUE]
  BY DEF EndValid, valid_return
<1>2. FitsHeap(ops)
  <2>1. ops \in Seq(traceop_t) /\ opnum = Len(ops)
    BY <1>1, InTrace DEF IInv, InPass
  <2>2. PICK b : Layout(ops, b, opnum)
    BY <1>1 DEF IInv, Judging
  <2> QED BY <2>1, <2>2, LayoutFits
<1>3. PICK T, n : /\ T = DOMAIN tracefiles /\ n = tracenum /\ n \in Nat /\ n + 1 \in T /\ T \subseteq Nat
                  /\ 1 .. n \subseteq T
  <2>1. tracefiles \in Workloads /\ tracenum \in Nat /\ tracenum < Len(tracefiles)
    BY <1>1, InTrace DEF IInv, InPass
  <2>2. Len(tracefiles) \in Nat /\ DOMAIN tracefiles = 1 .. Len(tracefiles)
    BY <2>1, MDriverAssumption
  <2>3. tracenum + 1 \in DOMAIN tracefiles /\ DOMAIN tracefiles \subseteq Nat
        /\ 1 .. tracenum \subseteq DOMAIN tracefiles
    BY <2>1, <2>2
  <2> QED BY <2>1, <2>3
<1>4. JudgedUpTo(n) /\ errors = Cardinality(Rejected(n))
  BY <1>1, <1>3 DEF VInv, Verdicts, Judged
<1>5. mm_stats'[n + 1].valid = TRUE /\ \A t \in T : t # n + 1 => mm_stats'[t].valid = mm_stats[t].valid
  <2>1. DOMAIN mm_stats = T /\ mm_stats[n + 1] \in [valid : BOOLEAN, util : Int \X Int]
    BY <1>3 DEF UInv, StatsOK
  <2> QED BY <1>1, <1>3, <2>1
<1>6. \A t \in 1 .. n + 1 : t \in T /\ (t = n + 1 \/ (t \in 1 .. n /\ t # n + 1))
  BY <1>3
<1>7. \A t \in T : t > n + 1 => t > n /\ t # n + 1
  BY <1>3
<1>8. JudgedUpTo(n + 1)'
  <2>1. \A t \in 1 .. n + 1 : mm_stats'[t].valid <=> FitsHeap(tracefiles[t])
    BY <1>2, <1>3, <1>4, <1>5, <1>6 DEF JudgedUpTo, ops
  <2>2. \A t \in T : t > n + 1 => ~mm_stats'[t].valid
    BY <1>3, <1>4, <1>5, <1>7 DEF JudgedUpTo
  <2> QED BY <1>1, <1>3, <2>1, <2>2 DEF JudgedUpTo
<1>9. Rejected(n)' = Rejected(n)
  <2>1. \A t \in 1 .. n : t \in T /\ t # n + 1
    BY <1>3
  <2> QED BY <1>3, <1>5, <2>1 DEF Rejected
<1> QED BY <1>1, <1>3, <1>4, <1>5, <1>8, <1>9 DEF VInv, Playing, Verdicts, JudgedUpTo, Rejected, Judged

\* The next trace, after one that is valid
LEMMA NextTraceJudges ==
  ASSUME IInv, VInv, NextTrace
  PROVE  VInv'
<1>1. /\ phase = "begin_speed" /\ phase' = "read" /\ tracenum' = tracenum + 1
      /\ UNCHANGED <<mm_stats, tracefiles, errors>>
  BY DEF NextTrace, statVars, evalVars
<1>2. JudgedUpTo(tracenum + 1) /\ mm_stats[tracenum + 1].valid /\ errors = Cardinality(Rejected(tracenum))
  BY <1>1 DEF VInv, Verdicts, Judged
<1>3. tracenum \in Nat
  BY MDriverAssumption DEF IInv, Control
<1>4. Rejected(tracenum + 1) = Rejected(tracenum)
  <2>1. \A t : t \in 1 .. tracenum + 1 <=> t \in 1 .. tracenum \/ t = tracenum + 1
    BY <1>3
  <2> QED BY <1>2, <2>1 DEF Rejected
<1>5. JudgedUpTo(tracenum)' /\ Rejected(tracenum)' = Rejected(tracenum + 1)
  BY <1>1, <1>2 DEF JudgedUpTo, Rejected
<1> QED BY <1>1, <1>2, <1>4, <1>5 DEF VInv, Playing, Verdicts, Judged

\* eval_mm_util enters its figures beside the verdict.
LEMMA EndUtilJudges ==
  ASSUME UInv, VInv, EndUtil
  PROVE  VInv'
<1>1. /\ phase = "util" /\ phase' = "begin_speed"
      /\ UNCHANGED tracefiles /\ UNCHANGED tracenum /\ UNCHANGED errors
      /\ mm_stats' = [mm_stats EXCEPT ![tracenum + 1].util = <<max_total_size, mem_heapsize>>]
  BY DEF EndUtil, evalVars
<1>2. \A t : mm_stats'[t].valid = mm_stats[t].valid
  <2>1. DOMAIN mm_stats' = DOMAIN mm_stats
    BY <1>1
  <2> QED BY <1>1, <2>1 DEF UInv, StatsOK
<1>3. \A n : (JudgedUpTo(n)' <=> JudgedUpTo(n)) /\ Rejected(n)' = Rejected(n)
  BY <1>1, <1>2 DEF JudgedUpTo, Rejected
<1> QED BY <1>1, <1>2, <1>3 DEF VInv, Playing, Verdicts, Judged

LEMMA BeginValidJudges ==
  ASSUME IInv, VInv, BeginValid
  PROVE  VInv'
<1>1. /\ phase = "begin_valid" /\ phase' = "valid" /\ opnum' = 0 /\ mem_brk' = mem_start_brk
      /\ UNCHANGED <<mm_stats, tracefiles, errors>> /\ UNCHANGED tracenum
  BY DEF BeginValid, valid_begin, mem_reset_brk, statVars
<1>2. mem_brk' % 8 = 0
  BY <1>1, MemlibAssumption
<1>3. (Remembered(ops, opnum) /\ Intact(ops, opnum))'
  BY <1>1, NoneLive DEF Remembered, Intact
<1>4. Verdicts'
  BY <1>1, VerdictsKept DEF VInv, Judged
<1> QED BY <1>2, <1>3, <1>4 DEF VInv, Playing

LEMMA NextVInv ==
  ASSUME ALIGNMENT = 8, RoomAbove, LowIndices, IInv, IInv', UInv, VInv, [Next]_vars
  PROVE  VInv'
<1>1. CASE BeginValid
  BY <1>1, BeginValidJudges
<1>2. CASE ValidAlloc
  BY <1>2, ValidAllocJudges
<1>3. CASE ValidRealloc
  BY <1>3, ValidReallocJudges
<1>4. CASE ValidFree
  BY <1>4, ValidFreeJudges
<1>5. CASE EndValid
  BY <1>5, EndValidJudges
<1>6. CASE EndUtil
  BY <1>6, EndUtilJudges
<1>7. CASE NextTrace
  BY <1>7, NextTraceJudges
<1>8. CASE ReadTrace \/ Report
  <2>1. /\ phase = "read" /\ phase' \in {"begin_valid", "exit0"}
        /\ UNCHANGED <<mm_stats, tracefiles, tracenum, errors>>
    BY <1>8 DEF ReadTrace, Report, statVars, evalVars
  <2> QED BY <2>1, VerdictsKept DEF VInv, Playing, Judged
<1>9. CASE BeginUtil \/ BeginSpeed \/ EndSpeed \/ UtilFree \/ SpeedFree
  <2>1. /\ phase \in Judged /\ phase' \in Judged
        /\ UNCHANGED <<mm_stats, tracefiles, tracenum, errors>>
    BY <1>9 DEF BeginUtil, BeginSpeed, EndSpeed, UtilFree, SpeedFree, Judged, evalVars, statVars
  <2> QED BY <2>1, VerdictsKept DEF VInv, Playing, Judged
<1>10. CASE UtilAlloc \/ UtilRealloc \/ SpeedAlloc \/ SpeedRealloc
  <2>1. phase' # "exit1"
    BY DEF IInv, Control, Before, Judged
  <2>2. /\ phase \in Judged /\ UNCHANGED phase
        /\ UNCHANGED <<mm_stats, tracefiles, tracenum, errors>>
    <3>1. CASE UtilAlloc
      BY <2>1, <3>1 DEF UtilAlloc, UtilGain, app_error, Judged
    <3>2. CASE UtilRealloc
      BY <2>1, <3>2 DEF UtilRealloc, UtilGain, app_error, Judged
    <3>3. CASE SpeedAlloc \/ SpeedRealloc
      BY <2>1, <3>3 DEF SpeedAlloc, SpeedRealloc, SpeedCall, SpeedKeep, statVars, Judged
    <3> QED BY <1>10, <3>1, <3>2, <3>3
  <2> QED BY <2>2, VerdictsKept DEF VInv, Playing, Judged
<1>11. CASE Exited \/ UNCHANGED vars
  <2>1. /\ UNCHANGED <<mm_stats, tracefiles, tracenum, errors>>
        /\ UNCHANGED <<phase, opnum, block_sizes, blocks, mem, mem_brk>>
    BY <1>11 DEF Exited, vars, mmVars, statVars, evalVars
  <2>2. ops' = ops
    BY <2>1 DEF ops
  <2>3. Playing'
    BY <2>1, <2>2 DEF VInv, Playing, Remembered, Intact
  <2> QED BY <2>1, <2>3, VerdictsKept DEF VInv
<1> QED
  BY <1>1, <1>2, <1>3, <1>4, <1>5, <1>6, <1>7, <1>8, <1>9, <1>10, <1>11 DEF Next

LEMMA InitVInv == Init => VInv
<1> SUFFICES ASSUME Init PROVE VInv
  OBVIOUS
<1>1. /\ mm_stats = [t \in DOMAIN tracefiles |-> [valid |-> FALSE, util |-> <<0, 0>>]]
      /\ phase = "read" /\ tracenum = 0 /\ errors = 0 /\ 1 .. 0 = {}
  BY DEF Init
<1>2. Rejected(0) = {}
  BY <1>1 DEF Rejected
<1>3. errors = Cardinality(Rejected(tracenum))
  BY <1>1, <1>2, FS_EmptySet
<1>4. JudgedUpTo(tracenum)
  BY <1>1 DEF JudgedUpTo
<1> QED BY <1>1, <1>3, <1>4 DEF VInv, Playing, Verdicts, Judged

LEMMA VerdictsShow ==
  ASSUME IInv, VInv
  PROVE  VerdictMatchesFootprint
<1>1. tracenum \in Nat
  BY MDriverAssumption DEF IInv, Control
<1>2. tracenum + 1 \in 1 .. tracenum + 1 /\ 1 .. tracenum \subseteq 1 .. tracenum + 1
  BY <1>1
<1>3. ASSUME phase = "begin_util" PROVE FitsHeap(ops)
  BY <1>2, <1>3 DEF VInv, Verdicts, JudgedUpTo, Judged, ops
<1>4. \A t \in 1 .. tracenum : mm_stats[t].valid <=> FitsHeap(tracefiles[t])
  BY <1>2 DEF VInv, Verdicts, JudgedUpTo
<1>5. phase \in {"read", "exit0"} => errors = Cardinality(Rejected(tracenum))
  BY DEF VInv, Verdicts
<1> QED BY <1>3, <1>4, <1>5 DEF VerdictMatchesFootprint, Rejected

\* mdriver.c, main and eval_mm_valid: whether mm.c passes a trace depends on the
\* trace alone, not on the traces before it.  It passes exactly if the blocks
\* of the trace fit into the heap one after the other, and a trace it fails
\* counts as one error.
THEOREM VerdictOfTrace ==
  ASSUME ALIGNMENT = 8, RoomAbove, LowIndices
  PROVE  Spec => []VerdictMatchesFootprint
<1>1. IInv /\ UInv /\ [Next]_vars => UInv'
  BY NextUInv
<1>2. IInv /\ IInv' /\ UInv /\ VInv /\ [Next]_vars => VInv'
  BY NextVInv
<1>3. IInv /\ VInv => VerdictMatchesFootprint
  BY VerdictsShow
<1> QED BY <1>1, <1>2, <1>3, InitUInv, InitVInv, SpecIInv, PTL DEF Spec

-----------------------------------------------------------------------------
(* The libc half of main *)

\* The indices in L have blocks of their own in H.
Own(b, L, H) ==
  /\ \A i \in L : b[i] \in H
  /\ \A i, j \in L : i # j => b[i] # b[j]

\* The trace at hand is the same in both halves.
LEMMA SameTraces ==
  /\ \A t, n : Libc!LiveAfter(t, n) = LiveAfter(t, n)
  /\ \A t : Libc!Sound(t) = Sound(t)
  /\ Libc!ops = ops /\ Libc!op = op /\ Libc!MoreOps = MoreOps
BY DEF Libc!LiveAfter, LiveAfter, Libc!Sound, Sound, Libc!ops, ops, Libc!op, op, Libc!MoreOps, MoreOps

LEMMA SameCardinality == \A S : Libc!Cardinality(S) = Cardinality(S)
  BY DEF Libc!Cardinality, Cardinality

\* A trace is being worked on.
LibcWorks == {"valid", "timing", "speed"}

LibcControl ==
  /\ tracefiles \in Workloads /\ tracenum \in 0 .. Len(tracefiles)
  /\ phase \in {"read", "mm", "exit1"} \cup LibcWorks
  /\ phase \in LibcWorks => tracenum < Len(tracefiles)
  /\ Libc!InPass => opnum \in 0 .. Len(ops)
  /\ DOMAIN blocks = Ids /\ runs \in Nat
  /\ libc_stats \in [DOMAIN tracefiles -> [valid : BOOLEAN, secs : Nat]]
  /\ IsFiniteSet(heap)

\* The passes over trace t that have ended, and the blocks that each has left
Passes(t) ==
  IF t <= tracenum THEN 1 + libc_stats[t].secs
  ELSE IF t = tracenum + 1 /\ phase \in {"timing", "speed"} THEN 1 + runs
  ELSE 0

LeftBy(t) == Cardinality(LiveAfter(tracefiles[t], Len(tracefiles[t])))

Charges == [t \in DOMAIN tracefiles |-> Passes(t) * LeftBy(t)]

InHand == IF Libc!InPass THEN Cardinality(LiveAfter(ops, opnum)) ELSE 0

Balance == phase # "exit1" => Cardinality(heap) = InHand + SumOf(Charges, DOMAIN tracefiles)

LibcInv ==
  /\ LibcControl
  /\ Libc!InPass => Own(blocks, LiveAfter(ops, opnum), heap)
  /\ Balance

LEMMA LibcTraceFacts ==
  ASSUME LibcControl, tracenum < Len(tracefiles)
  PROVE  /\ ops \in Seq(traceop_t) /\ Sound(ops) /\ Len(ops) \in Nat
         /\ tracenum \in Nat /\ tracenum + 1 \in DOMAIN tracefiles
         /\ ops = tracefiles[tracenum + 1]
<1>1. /\ tracefiles \in Seq(Seq(traceop_t)) /\ \A t \in DOMAIN tracefiles : WellFormed(tracefiles[t])
      /\ tracenum \in 0 .. Len(tracefiles)
  BY MDriverAssumption DEF LibcControl
<1>2. tracenum + 1 \in DOMAIN tracefiles
  BY <1>1
<1>3. WellFormed(ops)
  BY <1>1, <1>2 DEF ops
<1> QED BY <1>1, <1>2, <1>3 DEF WellFormed, ops

LEMMA ChargeFacts ==
  ASSUME LibcControl
  PROVE  /\ IsFiniteSet(DOMAIN tracefiles) /\ DOMAIN tracefiles \subseteq Nat
         /\ \A t \in DOMAIN tracefiles : LeftBy(t) \in Nat /\ Passes(t) \in Nat /\ Charges[t] \in Int
         /\ SumOf(Charges, DOMAIN tracefiles) \in Int
<1>1. /\ tracefiles \in Seq(Seq(traceop_t))
      /\ \A t \in DOMAIN tracefiles : WellFormed(tracefiles[t])
  BY MDriverAssumption DEF LibcControl
<1>2. IsFiniteSet(DOMAIN tracefiles) /\ DOMAIN tracefiles \subseteq Nat
  BY <1>1, FS_Interval
<1>3. ASSUME NEW t \in DOMAIN tracefiles
      PROVE  LeftBy(t) \in Nat /\ Passes(t) \in Nat /\ Charges[t] \in Int
  <2>1. tracefiles[t] \in Seq(traceop_t) /\ Len(tracefiles[t]) \in 0 .. Len(tracefiles[t])
    BY <1>1 DEF WellFormed
  <2>2. LeftBy(t) \in Nat
    BY <2>1, LiveFinite, FS_CardinalityType DEF LeftBy
  <2>3. libc_stats[t].secs \in Nat /\ runs \in Nat
    BY DEF LibcControl
  <2>4. Passes(t) \in Nat
    BY <2>3 DEF Passes
  <2>5. Charges[t] = Passes(t) * LeftBy(t)
    BY DEF Charges
  <2> QED BY <2>2, <2>4, <2>5
<1>4. SumOf(Charges, DOMAIN tracefiles) \in Int
  BY <1>2, <1>3, SumInt
<1> QED BY <1>2, <1>3, <1>4

\* What is left of H when request n + 1 of t has taken the old block of its index.
Spared(t, n, b, H) == IF t[n + 1].type = "ALLOC" THEN H ELSE H \ {b[t[n + 1].index]}

\* G has as many blocks more than M has indices as H has more than L.
InStep(G, M, H, L) ==
  /\ IsFiniteSet(G) /\ IsFiniteSet(M)
  /\ Cardinality(G) \in Nat /\ Cardinality(M) \in Nat
  /\ Cardinality(H) \in Nat /\ Cardinality(L) \in Nat
  /\ Cardinality(G) - Cardinality(M) = Cardinality(H) - Cardinality(L)

LEMMA OldBlockGoes ==
  ASSUME NEW t \in Seq(traceop_t), Sound(t), NEW n \in Nat, n < Len(t),
         NEW b, NEW H, IsFiniteSet(H), Own(b, LiveAfter(t, n), H)
  PROVE  /\ Own(b, LiveAfter(t, n) \ {t[n + 1].index}, Spared(t, n, b, H))
         /\ InStep(Spared(t, n, b, H), LiveAfter(t, n) \ {t[n + 1].index}, H, LiveAfter(t, n))
<1> DEFINE i == t[n + 1].index
           L == LiveAfter(t, n)
           G == Spared(t, n, b, H)
<1>1. IsFiniteSet(L) /\ Cardinality(L) \in Nat /\ Cardinality(H) \in Nat
  BY LiveFinite, FS_CardinalityType
<1>2. n + 1 \in 1 .. Len(t) /\ (n + 1) - 1 = n
  OBVIOUS
<1>3. (t[n + 1].type = "ALLOC") <=> (i \notin L)
  BY <1>2 DEF Sound
<1>4. G = IF t[n + 1].type = "ALLOC" THEN H ELSE H \ {b[i]}
  BY DEF Spared
<1>5. Own(b, L, H)
  OBVIOUS
<1> SUFFICES Own(b, L \ {i}, G) /\ InStep(G, L \ {i}, H, L)
  OBVIOUS
<1> HIDE DEF i, L, G
<1>6. CASE t[n + 1].type = "ALLOC"
  <2>1. G = H /\ L \ {i} = L
    BY <1>3, <1>4, <1>6
  <2> QED BY <1>1, <1>5, <2>1 DEF InStep
<1>7. CASE t[n + 1].type # "ALLOC"
  <2>1. G = H \ {b[i]} /\ i \in L /\ b[i] \in H
    BY <1>3, <1>4, <1>5, <1>7 DEF Own
  <2>2. IsFiniteSet(G) /\ Cardinality(G) = Cardinality(H) - 1
    BY <2>1, FS_RemoveElement
  <2>3. IsFiniteSet(L \ {i}) /\ Cardinality(L \ {i}) = Cardinality(L) - 1
    BY <1>1, <2>1, FS_RemoveElement
  <2>4. Cardinality(G) \in Nat /\ Cardinality(L \ {i}) \in Nat
    BY <2>2, <2>3, FS_CardinalityType
  <2>5. Own(b, L \ {i}, G)
    BY <1>5, <2>1 DEF Own
  <2> QED BY <1>1, <2>2, <2>3, <2>4, <2>5 DEF InStep
<1> QED BY <1>6, <1>7

LEMMA NewBlockComes ==
  ASSUME NEW t \in Seq(traceop_t), Sound(t), NEW n \in Nat, n < Len(t), t[n + 1].type # "FREE",
         NEW b, NEW H, IsFiniteSet(H), Own(b, LiveAfter(t, n), H),
         NEW p, p \notin Spared(t, n, b, H),
         NEW c, c[t[n + 1].index] = p, \A j \in Ids \ {t[n + 1].index} : c[j] = b[j]
  PROVE  /\ Own(c, LiveAfter(t, n + 1), Spared(t, n, b, H) \cup {p})
         /\ InStep(Spared(t, n, b, H) \cup {p}, LiveAfter(t, n + 1), H, LiveAfter(t, n))
<1> DEFINE i == t[n + 1].index
           L == LiveAfter(t, n) \ {i}
           G == Spared(t, n, b, H)
           M == LiveAfter(t, n + 1)
<1>1. Own(b, L, G) /\ InStep(G, L, H, LiveAfter(t, n))
  BY OldBlockGoes
<1>2. M = L \cup {i} /\ i \notin L
  BY AskNext
<1>3. LiveAfter(t, n) \subseteq Ids
  BY LiveIds
<1>4. \A j \in L : c[j] = b[j] /\ j # i
  BY <1>3
<1>5. c[i] = p /\ p \notin G
  OBVIOUS
<1> SUFFICES Own(c, M, G \cup {p}) /\ InStep(G \cup {p}, M, H, LiveAfter(t, n))
  OBVIOUS
<1> HIDE DEF i, L, G, M
<1>6. /\ Cardinality(G \cup {p}) = Cardinality(G) + 1 /\ IsFiniteSet(G \cup {p})
      /\ Cardinality(M) = Cardinality(L) + 1 /\ IsFiniteSet(M)
  BY <1>1, <1>2, <1>5, FS_AddElement DEF InStep
<1>7. Own(c, M, G \cup {p})
  BY <1>1, <1>2, <1>4, <1>5 DEF Own
<1>8. PICK k \in Nat, l \in Nat, m \in Nat, o \in Nat :
        /\ k = Cardinality(G) /\ l = Cardinality(L) /\ m = Cardinality(H)
        /\ o = Cardinality(LiveAfter(t, n)) /\ k - l = m - o
  BY <1>1 DEF InStep
<1>9. (k + 1) - (l + 1) = m - o /\ k + 1 \in Nat /\ l + 1 \in Nat
  <2>1. k - l = m - o
    BY <1>8
  <2> QED BY <2>1
<1>10. Cardinality(G \cup {p}) = k + 1 /\ Cardinality(M) = l + 1
  BY <1>6, <1>8, Zenon
<1>11. InStep(G \cup {p}, M, H, LiveAfter(t, n))
  BY <1>6, <1>8, <1>9, <1>10, Zenon DEF InStep
<1> QED BY <1>7, <1>11

-----------------------------------------------------------------------------
(* The steps of the libc half *)

\* A request changes nothing that the charges are counted from.
LEMMA SameCharges ==
  ASSUME UNCHANGED <<tracefiles, tracenum, phase, runs, libc_stats>>
  PROVE  Charges' = Charges
BY DEF Charges, Passes, LeftBy

LEMMA InLibcPass ==
  ASSUME LibcControl, Libc!InPass
  PROVE  /\ ops \in Seq(traceop_t) /\ Sound(ops) /\ Len(ops) \in Nat
         /\ phase \in {"valid", "speed"} /\ tracenum < Len(tracefiles) /\ opnum \in 0 .. Len(ops)
         /\ opnum \in Nat /\ (MoreOps => opnum < Len(ops) /\ opnum + 1 \in 0 .. Len(ops))
<1>1. phase \in {"valid", "speed"} /\ tracenum < Len(tracefiles) /\ opnum \in 0 .. Len(ops)
  BY DEF LibcControl, LibcWorks, Libc!InPass
<1>2. ops \in Seq(traceop_t) /\ Sound(ops) /\ Len(ops) \in Nat
  BY <1>1, LibcTraceFacts
<1> QED BY <1>1, <1>2 DEF MoreOps

\* The balance after a request
LEMMA RequestBalance ==
  ASSUME LibcControl, Balance, Libc!InPass, ops' = ops, opnum' = opnum + 1,
         UNCHANGED <<phase, tracefiles, tracenum, runs, libc_stats>>,
         InStep(heap', LiveAfter(ops, opnum + 1), heap, LiveAfter(ops, opnum))
  PROVE  Balance'
<1>1. SumOf(Charges, DOMAIN tracefiles)' = SumOf(Charges, DOMAIN tracefiles)
  BY SameCharges
<1>2. PICK k \in Int : k = SumOf(Charges, DOMAIN tracefiles)
  BY ChargeFacts
<1>3. InHand = Cardinality(LiveAfter(ops, opnum)) /\ phase # "exit1"
  BY DEF InHand, Libc!InPass
<1>4. InHand' = Cardinality(LiveAfter(ops, opnum + 1))
  BY DEF InHand, Libc!InPass
<1>5. PICK a \in Nat, b \in Nat, c \in Nat, d \in Nat :
        /\ a = Cardinality(heap') /\ b = Cardinality(LiveAfter(ops, opnum + 1))
        /\ c = Cardinality(heap) /\ d = Cardinality(LiveAfter(ops, opnum)) /\ a - b = c - d
  BY DEF InStep
<1>6. c = d + k
  BY <1>2, <1>3, <1>5 DEF Balance
<1>7. a = b + k
  BY <1>5, <1>6
<1> QED BY <1>1, <1>2, <1>4, <1>5, <1>7 DEF Balance

LEMMA LibcAsk ==
  ASSUME LibcInv, Libc!InPass, MoreOps, op.type # "FREE",
         NEW p, p \notin Spared(ops, opnum, blocks, heap),
         heap' = Spared(ops, opnum, blocks, heap) \cup {p},
         blocks' = [blocks EXCEPT ![op.index] = p], opnum' = opnum + 1,
         UNCHANGED <<phase, tracefiles, tracenum, runs, libc_stats>>
  PROVE  LibcInv'
<1>1. LibcControl /\ Own(blocks, LiveAfter(ops, opnum), heap) /\ Balance
  BY DEF LibcInv
<1>2. /\ ops \in Seq(traceop_t) /\ Sound(ops) /\ phase \in {"valid", "speed"}
      /\ opnum \in Nat /\ opnum < Len(ops) /\ opnum + 1 \in 0 .. Len(ops)
  BY <1>1, InLibcPass
<1>3. DOMAIN blocks = Ids /\ IsFiniteSet(heap)
  BY <1>1 DEF LibcControl
<1>4. /\ blocks'[ops[opnum + 1].index] = p /\ ops[opnum + 1].type # "FREE"
      /\ \A j \in Ids \ {ops[opnum + 1].index} : blocks'[j] = blocks[j]
  BY <1>2, <1>3, Request DEF op
<1>5. /\ Own(blocks', LiveAfter(ops, opnum + 1), heap')
      /\ InStep(heap', LiveAfter(ops, opnum + 1), heap, LiveAfter(ops, opnum))
  BY <1>1, <1>2, <1>3, <1>4, NewBlockComes
<1>6. ops' = ops /\ (Libc!InPass)' /\ phase \in LibcWorks
  BY <1>2 DEF ops, Libc!InPass, LibcWorks
<1>7. LibcControl'
  BY <1>1, <1>2, <1>5, <1>6 DEF LibcControl, Libc!InPass, InStep
<1>8. Balance'
  BY <1>1, <1>5, <1>6, RequestBalance
<1> QED BY <1>5, <1>6, <1>7, <1>8 DEF LibcInv

LEMMA LibcFree ==
  ASSUME LibcInv, Libc!Free
  PROVE  LibcInv'
<1>1. LibcControl /\ Own(blocks, LiveAfter(ops, opnum), heap) /\ Balance /\ Libc!InPass
  BY DEF LibcInv, Libc!Free
<1>2. /\ ops \in Seq(traceop_t) /\ Sound(ops) /\ phase \in {"valid", "speed"} /\ MoreOps
      /\ opnum \in Nat /\ opnum < Len(ops) /\ opnum + 1 \in 0 .. Len(ops)
  BY <1>1, InLibcPass, SameTraces DEF Libc!Free
<1>3. IsFiniteSet(heap)
  BY <1>1 DEF LibcControl
<1>4. /\ op.type = "FREE" /\ op = ops[opnum + 1] /\ heap' = heap \ {blocks[op.index]}
      /\ opnum' = opnum + 1 /\ UNCHANGED <<phase, tracefiles, tracenum, runs, libc_stats, blocks>>
  BY SameTraces DEF Libc!Free, Libc!Release, op, Libc!loopVars
<1>5. heap' = Spared(ops, opnum, blocks, heap)
  BY <1>4 DEF Spared
<1>6. LiveAfter(ops, opnum + 1) = LiveAfter(ops, opnum) \ {ops[opnum + 1].index}
  BY <1>2, <1>4, FreeNext
<1>7. /\ Own(blocks, LiveAfter(ops, opnum + 1), heap')
      /\ InStep(heap', LiveAfter(ops, opnum + 1), heap, LiveAfter(ops, opnum))
  BY <1>1, <1>2, <1>3, <1>5, <1>6, OldBlockGoes
<1>8. ops' = ops /\ (Libc!InPass)' /\ phase \in LibcWorks
  BY <1>2, <1>4 DEF ops, Libc!InPass, LibcWorks
<1>9. LibcControl'
  BY <1>1, <1>2, <1>4, <1>7, <1>8 DEF LibcControl, Libc!InPass, InStep
<1>10. Balance'
  BY <1>1, <1>4, <1>7, <1>8, RequestBalance
<1> QED BY <1>4, <1>7, <1>8, <1>9, <1>10 DEF LibcInv

\* libc has nothing left, or has freed a block on a realloc to size 0.
LEMMA LibcFails ==
  ASSUME LibcInv, phase' = "exit1", heap' \in SUBSET heap,
         UNCHANGED <<tracefiles, tracenum, runs, libc_stats, blocks>>
  PROVE  LibcInv'
<1>1. LibcControl'
  BY FS_Subset DEF LibcInv, LibcControl, Libc!InPass, LibcWorks
<1> QED BY <1>1 DEF LibcInv, Balance, Libc!InPass

LEMMA LibcCall ==
  ASSUME LibcInv, Libc!Alloc \/ Libc!Realloc
  PROVE  LibcInv'
<1>1. /\ Libc!InPass /\ MoreOps /\ op.type # "FREE"
      /\ UNCHANGED <<tracefiles, tracenum, runs, libc_stats>>
  BY SameTraces DEF Libc!Alloc, Libc!Realloc, Libc!loopVars
<1> DEFINE G == Spared(ops, opnum, blocks, heap)
<1>5. G = IF op.type = "ALLOC" THEN heap ELSE heap \ {blocks[op.index]}
  BY DEF Spared, op
<1> HIDE DEF G
<1>2. PICK p \in Cells \cup {NULL} :
        /\ p # NULL => p \notin G
        /\ heap' = G \cup ({p} \ {NULL})
        /\ Libc!Keep(p)
  <2>1. CASE Libc!Alloc
    <3>1. PICK p \in Cells \cup {NULL} :
            Libc!malloc(p) /\ heap' = heap \cup ({p} \ {NULL}) /\ Libc!Keep(p)
      BY <2>1 DEF Libc!Alloc
    <3>2. op.type = "ALLOC"
      BY <2>1, SameTraces DEF Libc!Alloc
    <3>3. p # NULL => p \notin heap
      BY <3>1 DEF Libc!malloc
    <3> QED BY <1>5, <3>1, <3>2, <3>3
  <2>2. CASE Libc!Realloc
    <3>1. op.type = "REALLOC"
      BY <2>2, SameTraces DEF Libc!Realloc
    <3>2. PICK p \in Cells \cup {NULL} :
            /\ Libc!realloc(blocks[op.index], op.size, p)
            /\ heap' = (heap \ {blocks[op.index]}) \cup ({p} \ {NULL})
            /\ Libc!Keep(p)
      BY <2>2, SameTraces DEF Libc!Realloc
    <3>3. p # NULL => p \notin heap \ {blocks[op.index]}
      BY <3>2 DEF Libc!realloc
    <3> QED BY <1>5, <3>1, <3>2, <3>3
  <2> QED BY <1>1, <2>1, <2>2
<1>3. CASE p = NULL
  <2>1. heap' \in SUBSET heap
    BY <1>2, <1>3, <1>5
  <2> QED BY <1>1, <1>2, <1>3, <2>1, LibcFails DEF Libc!Keep
<1>4. CASE p # NULL
  <2>1. blocks' = [blocks EXCEPT ![op.index] = p] /\ opnum' = opnum + 1 /\ phase' = phase
    BY <1>2, <1>4, SameTraces DEF Libc!Keep
  <2>2. heap' = G \cup {p} /\ p \notin G
    BY <1>2, <1>4
  <2> QED BY <1>1, <2>1, <2>2, LibcAsk DEF G
<1> QED BY <1>3, <1>4

LEMMA ChargesNext == (LibcControl => \A t \in DOMAIN tracefiles : Charges[t] \in Int)'
<1>1. LibcControl => \A t \in DOMAIN tracefiles : Charges[t] \in Int
  BY ChargeFacts
<1> QED BY <1>1, PTL

\* Between passes: what is in hand and what is charged for the trace at hand
\* change by the same amount, and nothing else is charged.
LEMMA BalanceKept ==
  ASSUME LibcControl, LibcControl', Balance, phase # "exit1", tracefiles' = tracefiles,
         NEW x \in DOMAIN tracefiles,
         \A t \in DOMAIN tracefiles \ {x} : Passes(t)' = Passes(t),
         InHand \in Int, InHand' \in Int,
         Charges'[x] + InHand' = Charges[x] + InHand, heap' = heap
  PROVE  Balance'
<1> DEFINE D == DOMAIN tracefiles
<1>1. IsFiniteSet(D) /\ (\A t \in D : Charges[t] \in Int) /\ SumOf(Charges, D) \in Int
  BY ChargeFacts
<1>2. \A t \in D : Charges'[t] \in Int
  BY ChargesNext
<1>3. \A t \in D \ {x} : Charges[t] = Charges'[t]
  BY DEF Charges, LeftBy
<1>4. SumOf(Charges', D) = SumOf(Charges, D) - Charges[x] + Charges'[x]
  <2> HIDE DEF D
  <2>1. x \in D
    BY DEF D
  <2> QED BY <1>1, <1>2, <1>3, <2>1, SumChange
<1>5. PICK k \in Int, a \in Int, b \in Int :
        k = SumOf(Charges, D) /\ a = Charges[x] /\ b = Charges'[x]
  BY <1>1, <1>2
<1>6. Cardinality(heap) = InHand + k
  BY <1>5 DEF Balance
<1>7. SumOf(Charges', D) = k - a + b /\ b + InHand' = a + InHand
  BY <1>4, <1>5
<1>8. Cardinality(heap) = InHand' + SumOf(Charges', D)
  BY <1>5, <1>6, <1>7
<1> QED BY <1>8 DEF Balance

\* The trace at hand
LEMMA AtHand ==
  ASSUME LibcControl, tracenum < Len(tracefiles)
  PROVE  /\ tracenum + 1 \in DOMAIN tracefiles /\ ops = tracefiles[tracenum + 1]
         /\ LeftBy(tracenum + 1) = Cardinality(LiveAfter(ops, Len(ops))) /\ LeftBy(tracenum + 1) \in Nat
         /\ Charges[tracenum + 1] =
              (IF phase \in {"timing", "speed"} THEN 1 + runs ELSE 0) * LeftBy(tracenum + 1)
<1>1. tracenum + 1 \in DOMAIN tracefiles /\ ops = tracefiles[tracenum + 1] /\ tracenum \in Nat
  BY LibcTraceFacts
<1>2. Charges[tracenum + 1] = Passes(tracenum + 1) * LeftBy(tracenum + 1)
  BY <1>1 DEF Charges
<1>3. LeftBy(tracenum + 1) \in Nat
  BY <1>1, ChargeFacts
<1>4. Passes(tracenum + 1) = IF phase \in {"timing", "speed"} THEN 1 + runs ELSE 0
  BY <1>1 DEF Passes
<1> QED BY <1>1, <1>2, <1>3, <1>4 DEF LeftBy

LEMMA LibcReadTrace ==
  ASSUME LibcInv, Libc!ReadTrace
  PROVE  LibcInv'
<1>1. /\ phase = "read" /\ phase' = "valid" /\ opnum' = 0 /\ blocks' = [i \in Ids |-> NULL]
      /\ tracenum < Len(tracefiles)
      /\ UNCHANGED <<tracefiles, tracenum, heap, runs, libc_stats>>
  BY DEF Libc!ReadTrace, Libc!loopVars
<1>2. LibcControl /\ Balance
  BY DEF LibcInv
<1>3. ops' = ops /\ Len(ops) \in Nat
  BY <1>1, <1>2, LibcTraceFacts DEF ops
<1>4. LibcControl'
  BY <1>1, <1>2, <1>3 DEF LibcControl, LibcWorks, Libc!InPass
<1>5. (Libc!InPass)' /\ ~Libc!InPass /\ LiveAfter(ops', opnum') = {}
  BY <1>1, NoneLive DEF Libc!InPass
<1>6. InHand = 0 /\ InHand' = 0
  BY <1>5, FS_EmptySet DEF InHand
<1>7. Charges' = Charges
  BY <1>1 DEF Charges, Passes, LeftBy
<1>8. Balance'
  BY <1>1, <1>2, <1>6, <1>7 DEF Balance
<1> QED BY <1>4, <1>5, <1>8 DEF LibcInv, Own

LEMMA LibcEndValid ==
  ASSUME LibcInv, Libc!EndValid
  PROVE  LibcInv'
<1> DEFINE x == tracenum + 1
<1>1. /\ phase = "valid" /\ ~MoreOps /\ phase' = "timing" /\ runs' = 0
      /\ libc_stats' = [libc_stats EXCEPT ![x].valid = TRUE]
      /\ UNCHANGED <<tracefiles, tracenum, opnum, heap, blocks>>
  BY SameTraces DEF Libc!EndValid, Libc!loopVars
<1>2. LibcControl /\ Balance /\ Libc!InPass
  BY <1>1 DEF LibcInv, Libc!InPass
<1>3. tracenum < Len(tracefiles) /\ opnum = Len(ops)
  BY <1>1, <1>2, InLibcPass DEF MoreOps
<1>4. x \in DOMAIN tracefiles /\ tracenum \in Nat
  BY <1>2, <1>3, LibcTraceFacts
<1>5. /\ libc_stats' \in [DOMAIN tracefiles -> [valid : BOOLEAN, secs : Nat]]
      /\ \A t \in DOMAIN tracefiles : libc_stats'[t].secs = libc_stats[t].secs
  BY <1>1, <1>2, <1>4 DEF LibcControl
<1>6. LibcControl'
  BY <1>1, <1>2, <1>3, <1>5 DEF LibcControl, LibcWorks, Libc!InPass
<1>7. \A t \in DOMAIN tracefiles \ {x} : Passes(t)' = Passes(t)
  BY <1>1, <1>4, <1>5 DEF Passes
<1>8. ~(Libc!InPass)' /\ InHand' = 0 /\ InHand = LeftBy(x) /\ LeftBy(x) \in Nat
  BY <1>1, <1>2, <1>3, AtHand DEF InHand, Libc!InPass
<1>9. Charges[x] = 0 * LeftBy(x) /\ Charges'[x] = (1 + 0) * LeftBy(x)
  <2>1. Charges[x] = 0 * LeftBy(x)
    BY <1>1, <1>2, <1>3, AtHand
  <2>2. Charges'[x] = Passes(x)' * LeftBy(x)
    BY <1>1, <1>4 DEF Charges, LeftBy
  <2>3. Passes(x)' = 1 + 0
    BY <1>1, <1>4 DEF Passes
  <2> QED BY <2>1, <2>2, <2>3
<1>10. Balance'
  BY <1>1, <1>2, <1>4, <1>6, <1>7, <1>8, <1>9, BalanceKept
<1> QED BY <1>6, <1>8, <1>10 DEF LibcInv

LEMMA LibcBeginSpeed ==
  ASSUME LibcInv, Libc!BeginSpeed
  PROVE  LibcInv'
<1>1. /\ phase = "timing" /\ phase' = "speed" /\ opnum' = 0
      /\ UNCHANGED <<tracefiles, tracenum, heap, blocks, runs, libc_stats>>
  BY DEF Libc!BeginSpeed, Libc!loopVars
<1>2. LibcControl /\ Balance /\ tracenum < Len(tracefiles)
  BY <1>1 DEF LibcInv, LibcControl, LibcWorks
<1>3. ops' = ops /\ Len(ops) \in Nat
  BY <1>1, <1>2, LibcTraceFacts DEF ops
<1>4. LibcControl'
  BY <1>1, <1>2, <1>3 DEF LibcControl, LibcWorks, Libc!InPass
<1>5. (Libc!InPass)' /\ ~Libc!InPass /\ LiveAfter(ops', opnum') = {}
  BY <1>1, NoneLive DEF Libc!InPass
<1>6. InHand = 0 /\ InHand' = 0
  BY <1>5, FS_EmptySet DEF InHand
<1>7. Charges' = Charges
  BY <1>1 DEF Charges, Passes, LeftBy
<1>8. Balance'
  BY <1>1, <1>2, <1>6, <1>7 DEF Balance
<1> QED BY <1>4, <1>5, <1>8 DEF LibcInv, Own

LEMMA LibcEndSpeed ==
  ASSUME LibcInv, Libc!EndSpeed
  PROVE  LibcInv'
<1> DEFINE x == tracenum + 1
<1>1. /\ phase = "speed" /\ ~MoreOps /\ phase' = "timing" /\ runs' = runs + 1
      /\ UNCHANGED <<tracefiles, tracenum, opnum, heap, blocks, libc_stats>>
  BY SameTraces DEF Libc!EndSpeed, Libc!loopVars
<1>2. LibcControl /\ Balance /\ Libc!InPass /\ runs \in Nat
  BY <1>1 DEF LibcInv, Libc!InPass, LibcControl
<1>3. tracenum < Len(tracefiles) /\ opnum = Len(ops)
  BY <1>1, <1>2, InLibcPass DEF MoreOps
<1>4. x \in DOMAIN tracefiles /\ tracenum \in Nat
  BY <1>2, <1>3, LibcTraceFacts
<1>5. LibcControl'
  BY <1>1, <1>2, <1>3 DEF LibcControl, LibcWorks, Libc!InPass
<1>6. \A t \in DOMAIN tracefiles \ {x} : Passes(t)' = Passes(t)
  BY <1>1, <1>4 DEF Passes
<1>7. ~(Libc!InPass)' /\ InHand' = 0 /\ InHand = LeftBy(x) /\ LeftBy(x) \in Nat
  BY <1>1, <1>2, <1>3, AtHand DEF InHand, Libc!InPass
<1>8. Charges'[x] + 0 = Charges[x] + LeftBy(x)
  <2>1. Charges[x] = (1 + runs) * LeftBy(x)
    BY <1>1, <1>2, <1>3, AtHand
  <2>2. Charges'[x] = Passes(x)' * LeftBy(x)
    BY <1>1, <1>4 DEF Charges, LeftBy
  <2>3. Passes(x)' = 1 + (runs + 1)
    BY <1>1, <1>4 DEF Passes
  <2>4. \A r, l \in Nat : (1 + (r + 1)) * l + 0 = (1 + r) * l + l
    OBVIOUS
  <2> QED BY <1>2, <1>7, <2>1, <2>2, <2>3, <2>4
<1>9. Balance'
  BY <1>1, <1>2, <1>4, <1>5, <1>6, <1>7, <1>8, BalanceKept
<1> QED BY <1>5, <1>7, <1>9 DEF LibcInv

LEMMA LibcNextTrace ==
  ASSUME LibcInv, Libc!NextTrace
  PROVE  LibcInv'
<1> DEFINE x == tracenum + 1
<1>1. /\ phase = "timing" /\ phase' = "read" /\ tracenum' = tracenum + 1
      /\ libc_stats' = [libc_stats EXCEPT ![x].secs = runs]
      /\ UNCHANGED <<tracefiles, opnum, heap, blocks, runs>>
  BY DEF Libc!NextTrace, Libc!loopVars
<1>2. LibcControl /\ Balance /\ tracenum < Len(tracefiles) /\ runs \in Nat
  BY <1>1 DEF LibcInv, LibcControl, LibcWorks
<1>3. x \in DOMAIN tracefiles /\ tracenum \in Nat /\ Len(tracefiles) \in Nat /\ DOMAIN tracefiles \subseteq Nat
  BY <1>2, LibcTraceFacts, ChargeFacts DEF LibcControl
<1>4. /\ libc_stats' \in [DOMAIN tracefiles -> [valid : BOOLEAN, secs : Nat]]
      /\ \A t \in DOMAIN tracefiles \ {x} : libc_stats'[t].secs = libc_stats[t].secs
      /\ libc_stats'[x].secs = runs
  BY <1>1, <1>2, <1>3 DEF LibcControl
<1>5. LibcControl'
  BY <1>1, <1>2, <1>3, <1>4 DEF LibcControl, LibcWorks, Libc!InPass
<1>6. \A t \in DOMAIN tracefiles : Passes(t)' = Passes(t)
  <2> SUFFICES ASSUME NEW t \in DOMAIN tracefiles PROVE Passes(t)' = Passes(t)
    OBVIOUS
  <2>1. CASE t = x
    BY <1>1, <1>3, <1>4, <2>1 DEF Passes
  <2>2. CASE t # x
    <3>1. t \in Nat /\ (t <= tracenum + 1 <=> t <= tracenum)
      BY <1>3, <2>2
    <3> QED BY <1>1, <1>3, <1>4, <2>2, <3>1 DEF Passes
  <2> QED BY <2>1, <2>2
<1>7. Charges' = Charges
  BY <1>1, <1>6 DEF Charges, LeftBy
<1>8. InHand = 0 /\ InHand' = 0 /\ ~(Libc!InPass)'
  BY <1>1 DEF InHand, Libc!InPass
<1>9. Balance'
  BY <1>1, <1>2, <1>7, <1>8 DEF Balance
<1> QED BY <1>5, <1>8, <1>9 DEF LibcInv

LEMMA LibcIdle ==
  ASSUME LibcInv, Libc!Done \/ Libc!Over \/ UNCHANGED Libc!vars
  PROVE  LibcInv'
<1>1. CASE Libc!Done
  <2>1. /\ phase = "read" /\ phase' = "mm"
        /\ UNCHANGED <<tracefiles, tracenum, opnum, heap, blocks, runs, libc_stats>>
    BY <1>1 DEF Libc!Done, Libc!loopVars
  <2>2. LibcControl' /\ InHand' = 0 /\ InHand = 0 /\ ~(Libc!InPass)'
    BY <2>1 DEF LibcInv, LibcControl, LibcWorks, Libc!InPass, InHand
  <2>3. Charges' = Charges
    BY <2>1 DEF Charges, Passes, LeftBy
  <2> QED BY <2>1, <2>2, <2>3 DEF LibcInv, Balance
<1>2. CASE UNCHANGED Libc!vars
  <2>1. UNCHANGED <<tracefiles, tracenum, phase, opnum, heap, blocks, runs, libc_stats>>
    BY <1>2 DEF Libc!vars, Libc!loopVars
  <2>2. Charges' = Charges /\ InHand' = InHand
    BY <2>1 DEF Charges, Passes, LeftBy, InHand, Libc!InPass, ops
  <2> QED BY <2>1, <2>2 DEF LibcInv, LibcControl, Balance, Libc!InPass, ops
<1> QED BY <1>1, <1>2 DEF Libc!Over

LEMMA LibcInit == Libc!Init => LibcInv
<1> SUFFICES ASSUME Libc!Init PROVE LibcInv
  OBVIOUS
<1>1. /\ tracefiles \in Workloads /\ tracenum = 0 /\ phase = "read" /\ heap = {}
      /\ blocks = [i \in Ids |-> NULL] /\ runs = 0
      /\ libc_stats = [t \in DOMAIN tracefiles |-> [valid |-> FALSE, secs |-> 0]]
  BY DEF Libc!Init
<1>2. Len(tracefiles) \in Nat /\ DOMAIN tracefiles = 1 .. Len(tracefiles)
  BY <1>1, MDriverAssumption
<1>3. LibcControl
  BY <1>1, <1>2, FS_EmptySet DEF LibcControl, LibcWorks, Libc!InPass
<1>4. \A t \in DOMAIN tracefiles : Charges[t] = 0
  <2> SUFFICES ASSUME NEW t \in DOMAIN tracefiles PROVE Charges[t] = 0
    OBVIOUS
  <2>1. Passes(t) = 0 /\ LeftBy(t) \in Nat
    BY <1>1, <1>2, <1>3, ChargeFacts DEF Passes
  <2>2. Charges[t] = Passes(t) * LeftBy(t)
    BY DEF Charges
  <2> QED BY <2>1, <2>2
<1>5. SumOf(Charges, DOMAIN tracefiles) = 0
  BY <1>3, <1>4, ChargeFacts, SumZero
<1>6. Balance
  BY <1>1, <1>5, FS_EmptySet DEF Balance, InHand, Libc!InPass
<1> QED BY <1>1, <1>3, <1>6 DEF LibcInv, Libc!InPass

LEMMA LibcStep ==
  ASSUME LibcInv, [Libc!Next]_(Libc!vars)
  PROVE  LibcInv'
<1>1. CASE Libc!ReadTrace
  BY <1>1, LibcReadTrace
<1>2. CASE Libc!Alloc \/ Libc!Realloc
  BY <1>2, LibcCall
<1>3. CASE Libc!Free
  BY <1>3, LibcFree
<1>4. CASE Libc!EndValid
  BY <1>4, LibcEndValid
<1>5. CASE Libc!BeginSpeed
  BY <1>5, LibcBeginSpeed
<1>6. CASE Libc!EndSpeed
  BY <1>6, LibcEndSpeed
<1>7. CASE Libc!NextTrace
  BY <1>7, LibcNextTrace
<1>8. CASE Libc!Done \/ Libc!Over \/ UNCHANGED Libc!vars
  BY <1>8, LibcIdle
<1> QED BY <1>1, <1>2, <1>3, <1>4, <1>5, <1>6, <1>7, <1>8 DEF Libc!Next

\* The same charges, with the counts of LibcDriver
LEMMA LibcCounts ==
  ASSUME LibcInv
  PROVE  Libc!HeapIsWhatPassesLeft
<1> DEFINE D == DOMAIN tracefiles
           ended == [t \in D |-> IF t <= tracenum THEN 1 + libc_stats[t].secs
                                 ELSE IF t = tracenum + 1 /\ phase \in {"timing", "speed"} THEN 1 + runs
                                 ELSE 0]
<1>1. \A t \in D : ended[t] * Libc!Left(t) = Charges[t]
  BY SameTraces, SameCardinality DEF Charges, Passes, LeftBy, Libc!Left
<1>2. IsFiniteSet(D)
  BY ChargeFacts DEF LibcInv
<1>3. Libc!MapThenSumSet(LAMBDA t : ended[t] * Libc!Left(t), D) = SumOf(Charges, D)
  <2> DEFINE P(g) == g = [s \in SUBSET D |-> IF s = {} THEN 0
                            ELSE ended[CHOOSE x \in s : TRUE] * Libc!Left(CHOOSE x \in s : TRUE)
                                   + g[s \ {CHOOSE x \in s : TRUE}]]
  <2>1. Libc!MapThenSumSet(LAMBDA t : ended[t] * Libc!Left(t), D) = (CHOOSE g : P(g))[D]
    BY DEF Libc!MapThenSumSet, Libc!MapThenFoldSet
  <2>2. \A g : P(g) <=> IsSum(g, Charges, D)
    <3> HIDE DEF ended
    <3>1. \A s \in SUBSET D : s # {} => ended[Any(s)] * Libc!Left(Any(s)) = Charges[Any(s)]
      BY <1>1, AnyIn
    <3> QED BY <3>1 DEF IsSum, Any
  <2> HIDE DEF P
  <2>3. \E g : P(g)
    BY <1>2, <2>2, SumExists
  <2>4. P(CHOOSE g : P(g))
    BY <2>3, Zenon
  <2> QED BY <1>2, <2>1, <2>2, <2>4, SumOfIs
<1>4. phase # "exit1" =>
        Libc!Cardinality(heap) =
          (IF Libc!InPass THEN Libc!Cardinality(Libc!LiveAfter(Libc!ops, opnum)) ELSE 0) + SumOf(Charges, D)
  BY SameTraces, SameCardinality DEF LibcInv, Balance, InHand
<1> QED BY <1>3, <1>4 DEF Libc!HeapIsWhatPassesLeft

-----------------------------------------------------------------------------
(* Both halves of main *)

\* What the half on libc leaves as it was at the start, for the half on mm.c
Untested ==
  /\ HeapOK /\ errors = 0
  /\ mm_stats = [t \in DOMAIN tracefiles |-> [valid |-> FALSE, util |-> <<0, 0>>]]
  /\ block_sizes = [i \in Ids |-> 0]

\* errors counts failures of libc too, but then the program has ended.
LibcHalfInv ==
  /\ half \in {"libc", "mm"}
  /\ half = "libc" => LibcInv /\ (phase # "exit1" => Untested)

LEMMA MainInitInv == MainInit => LibcHalfInv /\ (half = "mm" => IInv /\ UInv /\ VInv)
<1> SUFFICES ASSUME MainInit PROVE LibcHalfInv /\ (half = "mm" => IInv /\ UInv /\ VInv)
  OBVIOUS
<1>1. Init /\ half \in {"libc", "mm"}
  BY DEF MainInit
<1>2. Libc!Init
  BY DEF MainInit, Init, Libc!Init
<1>3. HeapOK
  BY <1>1, InitIInv DEF IInv, Control
<1>4. Untested
  BY <1>1, <1>3 DEF Init, Untested
<1> QED BY <1>1, <1>2, <1>4, LibcInit, InitIInv, InitUInv, InitVInv DEF LibcHalfInv

\* The half on libc goes on only as long as it has counted no error.
LEMMA LibcGoesOn ==
  ASSUME Libc!Next, phase' # "exit1"
  PROVE  phase # "exit1" /\ UNCHANGED <<errors, tracefiles>>
<1>1. CASE Libc!Alloc
  <2>1. PICK p \in Cells \cup {NULL} : Libc!Keep(p)
    BY <1>1 DEF Libc!Alloc
  <2> QED BY <1>1, <2>1 DEF Libc!Alloc, Libc!Keep, Libc!InPass, Libc!loopVars
<1>2. CASE Libc!Realloc
  <2>1. PICK p \in Cells \cup {NULL} : Libc!Keep(p)
    BY <1>2 DEF Libc!Realloc
  <2> QED BY <1>2, <2>1 DEF Libc!Realloc, Libc!Keep, Libc!InPass, Libc!loopVars
<1>3. CASE Libc!Free
  BY <1>3 DEF Libc!Free, Libc!InPass, Libc!loopVars
<1>4. CASE Libc!ReadTrace \/ Libc!EndValid \/ Libc!BeginSpeed \/ Libc!EndSpeed \/ Libc!NextTrace \/ Libc!Done
  BY <1>4 DEF Libc!ReadTrace, Libc!EndValid, Libc!BeginSpeed, Libc!EndSpeed, Libc!NextTrace,
     Libc!Done, Libc!loopVars
<1>5. CASE Libc!Over
  BY <1>5 DEF Libc!Over, Libc!vars, Libc!loopVars
<1> QED BY <1>1, <1>2, <1>3, <1>4, <1>5 DEF Libc!Next

LEMMA LibcHalfStep ==
  ASSUME LibcHalfInv, [MainNext]_mainVars
  PROVE  LibcHalfInv'
<1>1. CASE LibcHalf
  <2>1. LibcInv'
    BY <1>1, LibcStep DEF LibcHalf, LibcHalfInv
  <2>2. ASSUME phase' # "exit1" PROVE Untested'
    <3>1. Untested /\ UNCHANGED <<errors, tracefiles>>
      BY <1>1, <2>2, LibcGoesOn DEF LibcHalf, LibcHalfInv
    <3> QED BY <1>1, <3>1 DEF LibcHalf, Untested, HeapOK, mmVars, statVars
  <2> QED BY <1>1, <2>1, <2>2 DEF LibcHalf, LibcHalfInv
<1>2. CASE TestMM \/ MMHalf
  BY <1>2 DEF TestMM, MMHalf, LibcHalfInv
<1>3. CASE UNCHANGED mainVars
  <2>1. UNCHANGED Libc!vars /\ UNCHANGED <<phase, half>>
    BY <1>3 DEF mainVars, vars, evalVars, libcVars, Libc!vars, Libc!loopVars
  <2>2. half = "libc" => LibcInv'
    BY <2>1, LibcStep DEF LibcHalfInv
  <2>3. Untested => Untested'
    BY <1>3 DEF mainVars, vars, evalVars, mmVars, statVars, Untested, HeapOK
  <2> QED BY <2>1, <2>2, <2>3 DEF LibcHalfInv
<1> QED BY <1>1, <1>2, <1>3 DEF MainNext

\* The half on mm.c begins as MDriver does ...
LEMMA TestMMBegins ==
  ASSUME LibcHalfInv, TestMM
  PROVE  (IInv /\ UInv /\ VInv)'
<1>1. /\ Untested /\ tracefiles \in Workloads /\ phase' = "read" /\ tracenum' = 0
      /\ blocks' = [i \in Ids |-> NULL]
      /\ UNCHANGED <<mem_brk, mem, mm_stats, block_sizes, errors, tracefiles>>
  BY DEF TestMM, LibcHalfInv, LibcInv, LibcControl, mmVars, statVars
<1>2. HeapOK'
  BY <1>1 DEF Untested, HeapOK
<1>3. 0 \in 0 .. Len(tracefiles)
  BY <1>1, MDriverAssumption
<1>4. IInv'
  BY <1>1, <1>2, <1>3 DEF IInv, Control, Judging, Following, Before, InPass, Judged
<1>5. UInv'
  BY <1>1 DEF Untested, UInv, StatsOK, Counting
<1>6. VInv'
  <2>1. 1 .. 0 = {} /\ Rejected(0)' = {}
    BY DEF Rejected
  <2>2. errors' = Cardinality(Rejected(0)')
    BY <1>1, <2>1, FS_EmptySet DEF Untested
  <2>3. JudgedUpTo(0)'
    BY <1>1 DEF Untested, JudgedUpTo
  <2> QED BY <1>1, <2>2, <2>3 DEF VInv, Playing, Verdicts, Judged
<1> QED BY <1>4, <1>5, <1>6

\* ... and goes on as it does.
LEMMA MMHalfStep ==
  ASSUME half = "mm", [MainNext]_mainVars
  PROVE  half' = "mm" /\ [Next]_vars
BY DEF MainNext, LibcHalf, TestMM, MMHalf, mainVars

\* mdriver.c, main: what is proved of the three passes over mm.c holds also after the
\* half on libc, which has used the same i, errors and trace files: the
\* failures counted in errors are those of mm.c, the pointers in blocks are those
\* of its passes, and the statistics are right.
THEOREM LibcLeavesNoTrace ==
  ASSUME ALIGNMENT = 8, RoomAbove, LowIndices
  PROVE  MainSpec =>
           [](half = "mm" => /\ PointersAreOfThisPass /\ LayoutReproduced /\ NoAppError
                             /\ TotalIsLiveBytes /\ VerdictMatchesFootprint)
<1> DEFINE J == LibcHalfInv /\ (half = "mm" => IInv /\ UInv /\ VInv)
<1>1. J /\ [MainNext]_mainVars => J'
  <2> SUFFICES ASSUME J, [MainNext]_mainVars, half' = "mm" PROVE (IInv /\ UInv /\ VInv)'
    BY LibcHalfStep
  <2>1. CASE half = "mm"
    <3>1. [Next]_vars
      BY <2>1, MMHalfStep
    <3>2. IInv' /\ UInv'
      BY <2>1, <3>1, NextIInv, NextUInv
    <3> QED BY <2>1, <3>1, <3>2, NextVInv
  <2>2. CASE half # "mm"
    <3>1. TestMM
      BY <2>2 DEF MainNext, LibcHalf, MMHalf, mainVars
    <3> QED BY <3>1, TestMMBegins
  <2> QED BY <2>1, <2>2
<1>2. J => (half = "mm" => /\ PointersAreOfThisPass /\ LayoutReproduced /\ NoAppError
                           /\ TotalIsLiveBytes /\ VerdictMatchesFootprint)
  BY FreshPointers, MeasuredLayout, NoFailure, CountsShow, VerdictsShow
<1> HIDE DEF J
<1>3. MainInit => J
  BY MainInitInv DEF J
<1> QED BY <1>1, <1>2, <1>3, PTL DEF MainSpec

\* mdriver.c, eval_libc_valid and eval_libc_speed: no pass frees or reallocates
\* a block twice, or one of an earlier pass.
THEOREM LibcBlocksAreOwn == MainSpec => []HoldsLiveBlocks
<1>1. LibcHalfInv => HoldsLiveBlocks
  BY SameTraces DEF LibcHalfInv, LibcInv, Own, HoldsLiveBlocks, Libc!HoldsLiveBlocks
<1>2. MainInit => LibcHalfInv
  BY MainInitInv
<1> QED BY <1>1, <1>2, LibcHalfStep, PTL DEF MainSpec

\* mdriver.c, main with -l: what is allocated in libc is what the pass at hand
\* holds and what each pass before it has left, once for the judgement and once
\* for every call that was timed.
THEOREM LibcHeapIsAccountedFor == MainSpec => []HeapIsWhatPassesLeft
<1>1. LibcHalfInv => HeapIsWhatPassesLeft
  BY LibcCounts DEF LibcHalfInv, HeapIsWhatPassesLeft
<1>2. MainInit => LibcHalfInv
  BY MainInitInv
<1> QED BY <1>1, <1>2, LibcHalfStep, PTL DEF MainSpec
=============================================================================
