SPECIFICATION ClearsSpec
CONSTANTS
  e = e
  p = p
  EndPoints = {e}
  Pems = {p}
  Allowance = 1
  MaxMinute = 3
  Limit = 2
  None = None
  Calls = {c1, c2, c3}
  Tasks = {t1, t2, t3}
  Asked <- OneUrl
  Clock = {3}
  Answers <- OneAnswer
  MaxClears = 1
SYMMETRY CallSymmetry
INVARIANTS OneFetchSinceClear
