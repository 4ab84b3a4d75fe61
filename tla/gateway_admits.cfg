SPECIFICATION Spec
CONSTANTS
  Request = {r1, r2}
  Served = {"/trips", "/vehicles", "/login"}
  None = None
  Setting = {old, new}
  Second = 2
  Cost = 2
  RateEnv <- FleetRate
  DefaultRate <- Defaults
  TtlEnv <- TwoSeconds
  DefaultTtl = 3
  MaxTime = 5
  MaxTokens = 1
  MaxStarts = 1
  Faults = {"restart"}
SYMMETRY Symmetry
INVARIANTS AdmissionTypeOK WithinLimit FreshTokenAccepted ServedWithToken
PROPERTIES RefusedAtLimit
CHECK_DEADLOCK FALSE
