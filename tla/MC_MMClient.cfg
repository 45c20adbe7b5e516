SPECIFICATION Spec
CONSTANTS
  mem_start_brk = 80
  MAX_HEAP = 48
  WordMod = 256
  ALIGNMENT = 8
  sizeof_size_t = 4
  Ids = {0, 1, 2}
  Sizes <- MCSizes
  Bytes = {5}
  Junk = 77
INVARIANTS TypeOK InHeap Disjoint HeadersIntact
PROPERTIES KeepsContract HeapNeverShrinks NoSpuriousFailure
