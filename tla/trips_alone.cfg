SPECIFICATION Spec
CONSTANTS
  Vehicle = {v1, v2}
  Volunteer = {d1, d2}
  Trip = {t1, t2}
  Incident = {i1}
  Request = {r1, r2}
  None = None
  Seeds = {v1}
  Ops = {"CreateVehicle", "UpdateVehicle", "CreateTrip", "UpdateTrip", "DeleteTrip", "CreateVolunteer", "Assign", "SetIncident"}
  ConsoleStatus = {"OUT_OF_SERVICE"}
  StaffStatus = {}
  PutTripStatus = {"COMPLETED", "CANCELLED"}
  DriverIdAsText = {FALSE}
  Discipline = {"vehicle_alone", "volunteer_alone", "finish_once"}
  Faults = {"drop", "timeout"}
SYMMETRY Symmetry
INVARIANTS NoDoubleBooking AvailableVehicleIsFree
PROPERTIES BookingIsAtomic AssignedHasNoTrip AssignmentKept
CHECK_DEADLOCK FALSE
