\* Two handlers: a resume of a paused session and another start or resume.
CONSTANTS
  Agents = 1
  Ctrls = {c1, c2}
  Execs = {e1, e2}
  Reqs = {q1, q2}
  Redirects = {}
  None = None
SPECIFICATION Spec
PROPERTY ResumeStartsNoSecondExecution
