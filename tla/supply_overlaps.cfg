SPECIFICATION SupplySpec
CONSTANTS
  Shelter = {s1}
  Request = {r1, r2}
  None = None
  MaxCapacity = 2
  ShelterOps = {"Create", "Update", "Occupancy", "Delete"}
  Discipline = {"update_alone"}
  DatabaseFails = TRUE
  Resource = {x1, x2}
  Dispatcher = {d1, d2}
  MaxQuantity = 1
  SupplyOps = {"CreateResource", "UpdateResource", "DeleteResource", "Dispatch"}
  OneByOne = {x1}
  SupplyDiscipline = {"shelter_still"}
  MongoFails = TRUE
SYMMETRY Symmetry
INVARIANTS OccupancyFits SupplyTypeOK StockNotNegative StockCovered
PROPERTIES StatusChangesOnRequest SentToWelcoming DispatchIsAtomic
CHECK_DEADLOCK FALSE
