---------------------------- MODULE MC_Prioritize ----------------------------
EXTENDS Prioritize

MCElements == 1 .. 5
MCSelected == {2, 3, 5}
=============================================================================
