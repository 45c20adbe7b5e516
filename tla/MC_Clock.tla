------------------------------ MODULE MC_Clock ------------------------------
(* clock.c with small words and short interrupts.                            *)
EXTENDS Clock

MCStartTscs == {0, 250}
=============================================================================
