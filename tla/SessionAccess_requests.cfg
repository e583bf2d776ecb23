SPECIFICATION Spec
CONSTANTS
  Session = {s1, s2}
  Request = {r1, r2}
  Admin = {a1}
  Migrated = TRUE
  Ordered = TRUE
SYMMETRY Symmetry
INVARIANTS
  SnapshotAuthorized
PROPERTIES
  ForwardsWhatIsAllowed
  RunsConfined
  StaleNeverGrants
CHECK_DEADLOCK FALSE
