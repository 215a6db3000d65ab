\* One page with two calls: what another page's call appends is to it an event
\* nobody broadcasts, which a refused re-read leaves too.
CONSTANTS
  Pages = {p}
  Jobs = {j1, j2}
  Calls = {c1, c2}
  MaxEvents = 3
SPECIFICATION PageSpec
SYMMETRY Symmetry
CONSTRAINT Waiting
INVARIANTS PageTypeOK LastEventIsShown
