SPECIFICATION FsecsSpec
CONSTANTS
  Ks = {1, 2, 3}
  MaxSamples <- MCMaxSamples
  Epsilons <- MCEpsilons
  CacheSizes = {8, 16}
  CacheBlocks = {4, 8}
  Counts = {2, 3, 5, 6}
  CompCounts <- MCCompCounts
  sizeof_int = 4
  FcycK = 3
  FcycMaxSamples = 4
  FcycEpsilon <- MCFcycEpsilon
  Mhzs = {7}
  n = 2
  usec_per_sec = 3
  MAX_ETIME = 4
  Settings <- MCSettings
  MaxTime = 9
INVARIANTS ValuesAreKBest BufferFits MeasuresCalls
PROPERTIES KeepsPromise MeasurementEnds
