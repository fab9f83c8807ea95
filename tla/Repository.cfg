\* Three requests, each any operation, on a table with one row and two columns.
CONSTANTS
  r1 = r1  r2 = r2  r3 = r3  c1 = c1  c2 = c2
  Requests = {r1, r2, r3}
  Existing = x
  Columns = {c1, c2}
SYMMETRY RequestSymmetry
SPECIFICATION Spec
INVARIANTS
  AnsweredHolds
  NoTraceIsLost
  TrailExplainsTable
