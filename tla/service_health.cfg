SPECIFICATION FairSpec
CONSTANTS
  Polled <- FourServices
  MaxFaults = 2
INVARIANTS HealthTypeOK HiddenByTwo
PROPERTIES StatusAnswered ServesInTheEnd
CHECK_DEADLOCK FALSE
