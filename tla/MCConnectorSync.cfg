\* Two syncs at once, files edited once, two messages of which one call returns
\* one.  The raw format is the threaded one of messages without a thread.
CONSTANTS
  Jobs = {j1, j2}
  Files = {f1, f2}
  Paths = {p1, p2}
  Rows = {r1, r2}
  MaxVersion = 2
  Channels = {ch1, ch2}
  Formats = {"threaded"}
  Targets = {t1}
  MaxMessages = 2
  Limit = 1
  Setups <- MCSetups
  Null = Null
SPECIFICATION Spec
SYMMETRY Symmetry
CONSTRAINT OneFailure
INVARIANTS TypeOK RowIsNotAheadOfCopy MarkPassesOnlyWhatWasSeen
