SPECIFICATION RotationSpec
CONSTANTS
  EndPoints = {e}
  Creator = e
  Pems = {p, q, s}
  Requests = {r1, r2}
  Allowance = 2
  MaxDrift = 1
  MaxLatency = 1
  MaxMinute = 4
  Limit = 2
  None = None
SYMMETRY RotationSymmetry
INVARIANTS HeldIsInForce ExplicitIsWhole
