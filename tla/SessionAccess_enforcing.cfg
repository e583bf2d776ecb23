SPECIFICATION Spec
CONSTANTS
  Session = {s1, s2}
  Request = {r1}
  Admin = {a1}
  Migrated = TRUE
  Ordered = TRUE
SYMMETRY Symmetry
INVARIANTS
  GrantsConfined
CHECK_DEADLOCK FALSE
