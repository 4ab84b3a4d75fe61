SPECIFICATION Spec
CONSTANTS
  shelters = shelters
  shelter1 = shelter1
  trips = trips
  vehicles = vehicles
  shelterRow = shelterRow
  tripRow = tripRow
  vehicleRow = vehicleRow
  Key = {shelters, shelter1}
  Prefix = {"/shelters"}
  PrefixOf <- OnePrefixOf
  Data = {shelterRow}
  DataOf <- OneDataOf
  Touches <- OneTouches
  Request = {r1, r2, r3}
  None = None
  MaxVersion = 2
  Discipline = {"quiet"}
  Faults = {}
SYMMETRY Symmetry
INVARIANTS CacheTypeOK StaleIsDoomed ReadsSeeAnswered
CHECK_DEADLOCK FALSE
