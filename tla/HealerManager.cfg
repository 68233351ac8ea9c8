SPECIFICATION Spec
CONSTANTS
  Resolvers = {r1, r2}
  Healers = {h1, h2}
  Pubs = {p1, p2}
  None = None
  MaxChanges = 3
SYMMETRY Symmetry
INVARIANTS TypeOK ExactWhenQuiet StopsOnce HealerIsFed
CHECK_DEADLOCK FALSE
