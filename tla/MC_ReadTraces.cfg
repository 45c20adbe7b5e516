SPECIFICATION ReadTracesSpec
CONSTANTS
  Files <- MCFiles
  Garbage = {5}
  MaxLines = 3
  HeaderIds = {1, 2}
  HeaderOps = {0, 1, 2, 3}
  Probes <- MCProbes
  Names = {"one.rep", "two.rep"}
  Dirs = {"dir/", "other/"}
  TRACEDIR = "traces/"
  DEFAULT_TRACEFILES = "default files"
  MaxOptions = 4
INVARIANTS ReturnedMatchesHeader ListingReadOrRefused AskedIsRead
