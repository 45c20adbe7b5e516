------------------------------- MODULE MC_Main -------------------------------
(* main on every well-formed trace of up to MaxLen requests, followed by a   *)
(* second trace, with and without the half on libc.                         *)
EXTENDS Main, MC_MDriver, TLC

\* A balanced trace that needs two blocks, and one that leaves a block.
BalancedOrNot ==
  {<<a(1, 1), a(0, 1), r(1, 1), f(0), f(1)>>, <<a(1, 1), r(1, 1)>>}

MainWorkloads == {<<t, u>> : t \in TracesUpTo(MaxLen), u \in BalancedOrNot}

\* libc may hand out any block.
AnyCell == Permutations(Cells)
=============================================================================
