------------------------------- MODULE BestOf -------------------------------
(***************************************************************************)
(* What fcyc promises its caller, with nothing said about how: one after   *)
(* the other it draws samples of f's running time, until the k smallest of *)
(* all that were drawn are within epsilon of the best, or maxsamples were  *)
(* drawn.  Then it answers with the best one.                              *)
(***************************************************************************)
EXTENDS Integers, FiniteSets, Sequences

CONSTANT Samples   \* the times that may be measured

VARIABLES
  scheme,   \* [k, maxsamples, epsilon]; epsilon is a quotient <<num, den>>
  drawn,    \* the samples of this measurement, in the order they were drawn
  busy,     \* a measurement is going on
  best      \* the last answer

Drawn == {drawn[i] : i \in DOMAIN drawn}

\* x is among the k smallest samples.
AmongKBest(x) ==
  Cardinality({i \in DOMAIN drawn : drawn[i] < x}) < scheme.k

\* (1 + epsilon) * best >= the k-th best
Converged ==
  /\ Len(drawn) >= scheme.k
  /\ \A x, y \in Drawn : AmongKBest(y) =>
       (scheme.epsilon[2] + scheme.epsilon[1]) * x >= scheme.epsilon[2] * y
       \/ \E z \in Drawn : z < x

Enough == drawn # <<>> /\ (Converged \/ Len(drawn) >= scheme.maxsamples)

Start ==
  /\ ~busy
  /\ busy' = TRUE /\ drawn' = <<>>
  /\ UNCHANGED <<scheme, best>>

Draw(x) ==
  /\ busy /\ ~Enough
  /\ drawn' = Append(drawn, x)
  /\ UNCHANGED <<scheme, busy, best>>

Answer ==
  /\ busy /\ Enough
  /\ best' \in Drawn /\ \A x \in Drawn : best' <= x
  /\ busy' = FALSE /\ drawn' = <<>>
  /\ UNCHANGED scheme

\* The caller changes the parameters between two measurements.
Configure == ~busy /\ UNCHANGED <<drawn, busy, best>>

\* The process ends: no memory to clear the cache with.
GiveUp == busy /\ busy' = FALSE /\ UNCHANGED <<scheme, drawn, best>>

Init == drawn = <<>> /\ busy = FALSE

Next == Start \/ (\E x \in Samples : Draw(x)) \/ Answer \/ Configure \/ GiveUp

Spec == Init /\ [][Next]_<<scheme, drawn, busy, best>>
=============================================================================
