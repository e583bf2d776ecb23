SPECIFICATION Spec
CONSTANTS
  Id = {u1, u2}
  Name = {n1, n2}
  Password = {p1, p2}
  Login = {l1}
  Op = {o1, o2}
  Conn = {c1}
  Ttl = 2
  MaxVersion = 1
  Serial = {k1, k2}
  NoOne = NoOne
  MaxChanges = 2
  MaxUnderWay = 2
SYMMETRY Symmetry
CONSTRAINT WithinBounds
INVARIANTS
  TokenProvesPassword
  ConfirmedMeansGone
  LogoutHolds
CHECK_DEADLOCK FALSE
