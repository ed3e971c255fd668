SPECIFICATION CacheSpec
CONSTANTS
  EndPoints = {e1, e2}
  Pems = {p, q, r}
  Allowance = 1
  MaxMinute = 2
  Limit = 3
  None = None
SYMMETRY CacheSymmetry
INVARIANTS TypeOK SpansDisjoint OneSpanPerKey HeldCountsKeys
PROPERTIES CoverageIsStable
