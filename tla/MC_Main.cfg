SPECIFICATION MainSpec
CONSTANTS
  ALIGNMENT = 8
  MAX_HEAP = 64
  mem_start_brk = 48
  WordMod = 256
  sizeof_size_t = 4
  CharMod = 4
  Ids = {0, 1}
  Junk = 3
  MaxRuns = 2
  MaxLen = 4
  TraceSizes = {0, 1}
  Cells = {c1, c2, c3}
  Workloads <- MainWorkloads
SYMMETRY AnyCell
INVARIANTS HoldsLiveBlocks HeapIsWhatPassesLeft
