\* Three users are needed for two receivers of the same driver, two transactions
\* for their race.
CONSTANTS
  Users = {u1, u2, u3}
  NoUser = NoUser
  Txs = {t1, t2}
SPECIFICATION Spec
INVARIANTS TypeOK SingleDriver
PROPERTIES HandoverIsExclusive TokenSpec
SYMMETRY Symmetry
