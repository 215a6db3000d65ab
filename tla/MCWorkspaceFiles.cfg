\* Three requests in flight; contents that share a line at another place.
CONSTANTS
  Changes = {c1}
  Contents <- MCContents
  Jobs = {j1, j2, j3}
  None = None
SPECIFICATION Spec
SYMMETRY Symmetry
INVARIANTS TypeOK DecisionMatchesFile DiffShowsChange RowMatchesImport
PROPERTY DecisionIsFinal
