SPECIFICATION Spec
CONSTANTS
  ALIGNMENT = 8
  MAX_HEAP = 32
  mem_start_brk = 80
  WordMod = 256
  CharMod = 6
  Ids = {0, 1, 2}
  Sizes <- MCSizes
  Answers <- MCAnswers
  Incrs = {16, 32}
  MaxTraces = 2
INVARIANT AcceptedPayloadsDisjoint
