\* One reader of any list, up to three rows on a page, four rows.  A list that
\* nobody reads any more may be empty and full, so nothing stops.
CONSTANTS
  c1 = c1  a = a  b = b  c = c  d = d
  Rows = {a, b, c, d}
  Readers = {c1}
  Limits = {1, 2, 3}
SYMMETRY RowSymmetry
SPECIFICATION Spec
INVARIANTS
  OldRowsAreSeen
  RepeatsHaveAReason
