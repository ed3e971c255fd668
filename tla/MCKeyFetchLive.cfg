SPECIFICATION FairSpec
CONSTANTS
  e = e
  p = p
  q = q
  EndPoints = {e}
  Pems = {p}
  Allowance = 1
  MaxMinute = 2
  Limit = 2
  None = None
  Calls = {c1, c2, c3}
  Tasks = {t1, t2}
  Asked <- Undated
  Clock = {2}
  Answers <- SameMinuteAnswer
INVARIANTS FetchTypeOK
PROPERTIES EveryCallReturns CacheSpec
