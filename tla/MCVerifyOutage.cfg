SPECIFICATION VerifySpec
CONSTANTS
  EndPoints = {e}
  Creator = e
  Pems = {p, q, s}
  Allowance = 1
  MaxMinute = 5
  Limit = 2
  None = None
  Resolution = 1
  Now = 3
  Signings = {0, 1, 2, 3, 4}
  StartTicks <- WholeMinutes
  Schedules <- Spaced
  Verifiers = {v1}
SYMMETRY VerifySymmetry
INVARIANTS OutageIsNotForgery
