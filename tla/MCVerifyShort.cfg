SPECIFICATION VerifySpec
CONSTANTS
  EndPoints = {e}
  Creator = e
  Pems = {p, q, s}
  Allowance = 1
  MaxMinute = 5
  Limit = 2
  None = None
  Resolution = 2
  Now = 6
  Signings = {0, 1, 2, 3, 4, 5}
  StartTicks = {0, 2, 3}
  Schedules <- Crowded
  Verifiers = {v1}
SYMMETRY VerifySymmetry
INVARIANTS NoLaterKeyStarted
