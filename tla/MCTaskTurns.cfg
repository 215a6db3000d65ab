\* Three turns on one thread or by themselves, one clear.
CONSTANTS
  Threads = {th1}
  Tasks = {a, b, c}
  MaxClears = 1
  None = None
SPECIFICATION Spec
INVARIANTS TypeOK OverlapIsBounded HistoryIsFIFO RowMatchesResult RunningHasRun
PROPERTY TurnsSettle
