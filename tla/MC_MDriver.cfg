SPECIFICATION Spec
CONSTANTS
  ALIGNMENT = 8
  MAX_HEAP = 64
  mem_start_brk = 48
  WordMod = 256
  sizeof_size_t = 4
  CharMod = 4
  Ids = {0, 1}
  Junk = 3
  MaxRuns = 2
  MaxLen = 4
  TraceSizes = {1, 9}
  Workloads <- MCWorkloads
INVARIANTS PointersAreOfThisPass LayoutReproduced TotalIsLiveBytes
  VerdictMatchesFootprint NoAppError
PROPERTY Termination
