SPECIFICATION Spec
CONSTANTS
  Vehicle = {v1}
  Volunteer = {d1}
  Trip = {t1, t2}
  Incident = {i1}
  Request = {r1, r2}
  None = None
  Seeds = {v1}
  Ops = {"CreateTrip", "CreateVolunteer"}
  ConsoleStatus = {}
  StaffStatus = {}
  PutTripStatus = {"COMPLETED"}
  DriverIdAsText = {FALSE}
  Discipline = {}
  Faults = {}
SYMMETRY Symmetry
INVARIANTS NoDoubleBooking
CHECK_DEADLOCK FALSE
