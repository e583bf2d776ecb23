INIT Parts
NEXT Next
CONSTANTS
  ann = ann
  ben = ben
  c1 = c1
  c2 = c2
  k1 = k1
  k2 = k2
  s1 = s1
  User = {ann, ben}
  Session = {s1}
  Event = {q1}
  Client = {c1, c2}
  UserOf <- Owners
  Mine <- Nothing
  Answer = {a1, a2}
  Creation = {n1, n2}
  Stream = {k1, k2}
  ChannelOf <- Channels
  MaxPending = 2
  MaxSaves = 1
  MaxEmits = 1
  MaxLate = 1
SYMMETRY Same
CONSTRAINT Distinct
INVARIANT HeardIsAllowed
PROPERTIES AnsweredOnceByItsReader GrantedMayAnswer
CHECK_DEADLOCK FALSE
