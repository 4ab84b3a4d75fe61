SPECIFICATION Spec
CONSTANTS
  Vehicle = {v1, v2}
  Volunteer = {d1}
  Trip = {t1, t2}
  Incident = {i1}
  Request = {r1, r2}
  None = None
  Seeds = {v1}
  Ops = {"DeleteVehicle", "CreateTrip", "UpdateTrip", "DeleteTrip", "CreateVolunteer", "DeleteVolunteer", "UpdateVolunteer", "Assign"}
  ConsoleStatus = {}
  StaffStatus = {"AVAILABLE"}
  PutTripStatus = {"COMPLETED"}
  DriverIdAsText = {FALSE}
  Discipline = {"answered_trips"}
  Faults = {"drop", "timeout", "restart"}
SYMMETRY Symmetry
INVARIANTS TypeOK HeldVehicle BusyNamesIncident
PROPERTIES NoResurrection
CHECK_DEADLOCK FALSE
