\* One execution, two redirects for the same turn, two turns.
CONSTANTS
  Agents = 2
  Ctrls = {c1, c2, c3}
  Execs = {e1}
  Reqs = {q1}
  Redirects = {r1, r2}
  None = None
SPECIFICATION FairSpec
PROPERTIES CancelledExecutionEnds QueuedRedirectIsRead
