\* Three items: the first is proposed, the second merged, the third merged again.
CONSTANTS
  Candidates = {c1, c2}
  Items = {i1, i2, i3}
  Facts = {f1}
  Passes = {p1, p2}
  MaxPasses = 2
  None = None
SPECIFICATION DistillSpec
CHECK_DEADLOCK FALSE
SYMMETRY Symmetry
INVARIANTS DistillTypeOK DuplicatesAreExplained
PROPERTY SourcesAreKept
