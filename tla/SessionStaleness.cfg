\* One user, three requests, one change of the row; the users:update routes.
CONSTANTS
  u1 = u1  r1 = r1  r2 = r2  r3 = r3
  Users = {u1}
  Requests = {r1, r2, r3}
  UserOf <- OneUser
  Needs <- UpdateUsers
  Rows <- Rows6
  Ttl = 2
  MaxDelay = 1
  MaxTime = 5
  MaxVersions = 2
SPECIFICATION Spec
INVARIANTS
  StalenessBounded
  SessionInvariant
  AdmittedWasEntitled
SYMMETRY Symmetry
