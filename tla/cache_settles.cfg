SPECIFICATION FairSpec
CONSTANTS
  shelters = shelters
  shelter1 = shelter1
  trips = trips
  vehicles = vehicles
  shelterRow = shelterRow
  tripRow = tripRow
  vehicleRow = vehicleRow
  Key = {trips, vehicles}
  Prefix = {"/trips", "/vehicles"}
  PrefixOf <- FleetPrefixOf
  Data = {tripRow, vehicleRow}
  DataOf <- FleetDataOf
  Touches <- FleetTouches
  Request = {r1, r2}
  None = None
  MaxVersion = 1
  Discipline = {}
  Faults = {"redis", "late_error"}
PROPERTIES FreshInTheEnd
CHECK_DEADLOCK FALSE
