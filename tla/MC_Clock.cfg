SPECIFICATION Spec
CONSTANTS
  Platforms = {"i386", "alpha"}
  Word = 16
  NEVENT = 2
  THRESHOLD = 2
  RECORDTHRESH = 3
  TickCost = 4
  Period = 6
  Poll = 1
  StartTscs <- MCStartTscs
  MaxElapsed = 40
INVARIANTS CountIsElapsed EstimateCoversTick NeverOvercounts
