\* Two executions that may share a control, one handler at a time beside them.
\* Two agents: a turn to be stopped before and a turn that comes too late.
CONSTANTS
  Agents = 2
  Ctrls = {c1, c2, c3}
  Execs = {e1, e2}
  Reqs = {q1}
  Redirects = {r1}
  None = None
SPECIFICATION Spec
INVARIANTS TypeOK ControlIsReachable StopsWithinOneTurn
PROPERTY RedirectTakenOnce
SYMMETRY Symmetry
