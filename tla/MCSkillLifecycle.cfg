\* Two reviews in flight, up to four recorded, a chain of up to three versions.
CONSTANTS
  Ids = {s1, s2, s3}
  Contents = {v1}
  Txs = {t1, t2}
  MaxReviews = 4
  None = None
SPECIFICATION Spec
SYMMETRY Symmetry
INVARIANTS TypeOK ReviewExplainsStatus SupersededHasSuccessor
