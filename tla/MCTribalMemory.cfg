\* An entry, the one that replaces it and one more; two candidates reviewed at once.
CONSTANTS
  Entries = {e1, e2, e3}
  Candidates = {c1, c2}
  Jobs = {j1, j2}
  None = None
SPECIFICATION Spec
SYMMETRY Symmetry
INVARIANTS TypeOK SupersededIsReplaced ReplacedIsRetired PromotionIsRecorded
