SPECIFICATION VerifySpec
CONSTANTS
  EndPoints = {e}
  Creator = e
  Pems = {p, q, s}
  Allowance = 1
  MaxMinute = 4
  Limit = 2
  None = None
  Resolution = 2
  Now = 7
  Signings = {0, 3, 4, 6, 9}
  StartTicks <- WholeMinutes
  Schedules <- Spaced
  Verifiers = {v1, v2}
SYMMETRY VerifySymmetry
INVARIANTS GenuineIsJudged RetiredKeyCannotSign CacheDoesNotShow NoLaterKeyStarted
