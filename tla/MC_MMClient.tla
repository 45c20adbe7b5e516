----------------------------- MODULE MC_MMClient -----------------------------
(* mm.c on a heap that fits three small blocks. *)
EXTENDS MMClient

\* 113 is the least size whose newsize overflows an int when WordMod is 256, 127
\* the largest int, and 240 the largest size for which newsize does not wrap;
\* 8 fills an alignment unit and 9 spills over it.
MCSizes == {8, 9, 113, 127, 240}

ASSUME MCSizesFit == RequestsFit
=============================================================================
