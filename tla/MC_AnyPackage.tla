---------------------------- MODULE MC_AnyPackage ----------------------------
(* Packages that answer with good, unaligned and out-of-heap addresses on a *)
(* heap of a few alignment units.                                           *)
EXTENDS AnyPackage

\* 72 lies below the heap, 98 is not aligned, 128 lies above it.
MCAnswers == {72, 80, 88, 96, 98, 128}
MCSizes == {0, 4, 20}
=============================================================================
