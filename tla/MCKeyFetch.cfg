SPECIFICATION Spec
CONSTANTS
  e = e
  p = p
  q = q
  EndPoints = {e}
  Pems = {p, q}
  Allowance = 1
  MaxMinute = 3
  Limit = 2
  None = None
  Calls = {c1, c2, c3}
  Tasks = {t1, t2}
  Asked <- TwoUrls
  Clock = {1, 3}
  Answers <- MixedAnswers
SYMMETRY CallSymmetry
INVARIANTS EntryIsLed WaitsOnItsLeader NoLostWakeup OneFetchPerUrl
PROPERTIES SharesOutcome StatedSpanNeedsNoRequest
