CONSTANTS
  t1 = t1
  t2 = t2
  c1 = c1
  c2 = c2
  Tenant = {t1, t2}
  Caller = {c1, c2}
  MaxVersion = 2
SPECIFICATION Spec
SYMMETRY Alike
INVARIANTS FreshAfterInvalidate
CHECK_DEADLOCK FALSE
