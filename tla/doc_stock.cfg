SPECIFICATION SupplySpec
CONSTANTS
  Shelter = {s1}
  Request = {r1}
  None = None
  MaxCapacity = 1
  ShelterOps = {"Create", "Update"}
  Discipline = {}
  DatabaseFails = FALSE
  Resource = {x1}
  Dispatcher = {d1, d2}
  MaxQuantity = 2
  SupplyOps = {"CreateResource", "Dispatch"}
  OneByOne = {}
  SupplyDiscipline = {}
  MongoFails = FALSE
SYMMETRY Symmetry
INVARIANTS StockSufficient
CHECK_DEADLOCK FALSE
