---------------------------- MODULE TripDispatch ----------------------------
(***************************************************************************)
(* The fleet service and the volunteer service, as far as a trip couples   *)
(* them.  fleet-service keeps vehicles and trips (MongoDB), the volunteer  *)
(* service keeps volunteers (PostgreSQL); neither uses a transaction, and  *)
(* a handler is a sequence of single-document reads and writes and HTTP    *)
(* calls.  Each action below is one such read or write: what happens       *)
(* between two of them is up to the other requests.                        *)
(*                                                                         *)
(* A Request is a handler invocation.  The PUT /volunteers/{id} that the   *)
(* fleet service sends has a life of its own in put[r]: the caller waits   *)
(* for it at most 5 seconds, the callee finishes it whenever it does.      *)
(***************************************************************************)
EXTENDS Naturals, FiniteSets

CONSTANTS
  Vehicle, Volunteer, Trip, Incident,  \* identifiers; none is ever reused
  Request,                             \* handler invocations in progress
  None,                                \* "no such value"
  Seeds,                               \* vehicles inserted when there is none
  Ops,              \* the requests that clients send
  ConsoleStatus,    \* vehicle statuses written by PUT /vehicles/{id}
  StaffStatus,      \* volunteer statuses written by PUT /volunteers/{id}
  PutTripStatus,    \* trip statuses written by PUT /trips/{id}
  DriverIdAsText,   \* may driverId arrive as a JSON string, as a number
  Discipline,       \* what the clients promise (see MayUseVehicle)
  Faults            \* what can go wrong (see DropPut, WaitOver, restarts)

VehicleStatus == {"AVAILABLE", "IN_USE", "OUT_OF_SERVICE"}
VolunteerStatus == {"AVAILABLE", "IN_USE", "BUSY", "OFF_DUTY"}
\* CANCELLED stands for every text the trips_for_volunteer query does not know.
TripStatus == {"SCHEDULED", "IN_PROGRESS", "BUSY", "COMPLETED", "CANCELLED"}
ActiveTripStatus == {"SCHEDULED", "IN_PROGRESS", "BUSY"}
IncidentStatus == {"ACTIVE", "IN_PROGRESS", "RESOLVED"}
Role == {"DRIVER", "RESCUE"}
Gone == {"new", "deleted"}

AllOps == {"CreateVehicle", "UpdateVehicle", "DeleteVehicle", "CreateTrip",
           "UpdateTrip", "DeleteTrip", "CreateVolunteer", "UpdateVolunteer",
           "DeleteVolunteer", "Assign", "SetIncident"}

ASSUME InputsAssumption ==
  /\ Seeds \subseteq Vehicle
  /\ Ops \subseteq AllOps
  /\ ConsoleStatus \subseteq VehicleStatus
  /\ StaffStatus \subseteq VolunteerStatus
  /\ PutTripStatus \subseteq TripStatus
  /\ DriverIdAsText \subseteq BOOLEAN
  /\ Discipline \subseteq {"vehicle_alone", "volunteer_alone",
                         "answered_trips", "finish_once"}
  /\ Faults \subseteq {"drop", "timeout", "mongo", "restart"}

ASSUME NoneAssumption ==
  None \notin Vehicle \cup Volunteer \cup Trip \cup Incident

ASSUME SeedsAssumption == IsFiniteSet(Vehicle)

VARIABLES
  vehicles,    \* status of each vehicle
  trips,       \* [status, vehicle, driver, text] of each trip
  volunteers,  \* [status, role, incident] of each volunteer
  incidents,   \* status of each incident, as the incident service answers
  pc, call,    \* per request: where the handler is, and its arguments
  put, row     \* per request: the volunteer call in flight, and the row read

vars == <<vehicles, trips, volunteers, incidents, pc, call, put, row>>

TripRow == [status : TripStatus \cup Gone, vehicle : Vehicle \cup {None},
            driver : Volunteer \cup {None}, text : BOOLEAN]
VolunteerRow == [status : VolunteerStatus \cup Gone, role : Role,
                 incident : Incident \cup {None}]
Call == [op : {"none", "CreateTrip", "UpdateTrip", "DeleteTrip", "Assign"},
         trip : Trip \cup {None}, vehicle : Vehicle \cup {None},
         driver : Volunteer \cup {None}, text : BOOLEAN,
         incident : Incident \cup {None}, status : TripStatus \cup {"none"}]
Put == [at : {"none", "sent", "read"}, driver : Volunteer \cup {None},
        status : VolunteerStatus \cup {"keep"}, role : Role \cup {"keep"}]
Pc == {"idle", "getDriver", "getCargo", "markVehicle", "awaitMark",
       "release", "finishTrip", "getIncident", "getTrips", "writeAssign"}

NewTrip == [status |-> "new", vehicle |-> None, driver |-> None, text |-> FALSE]
NewVolunteer == [status |-> "new", role |-> "RESCUE", incident |-> None]
NoCall == [op |-> "none", trip |-> None, vehicle |-> None, driver |-> None,
           text |-> FALSE, incident |-> None, status |-> "none"]
NoPut == [at |-> "none", driver |-> None, status |-> "keep", role |-> "keep"]

TypeOK ==
  /\ vehicles \in [Vehicle -> VehicleStatus \cup Gone]
  /\ trips \in [Trip -> TripRow]
  /\ volunteers \in [Volunteer -> VolunteerRow]
  /\ incidents \in [Incident -> IncidentStatus \cup Gone]
  /\ pc \in [Request -> Pc]
  /\ call \in [Request -> Call]
  /\ put \in [Request -> Put]
  /\ row \in [Request -> VolunteerRow]

Init ==
  /\ vehicles = [v \in Vehicle |-> IF v \in Seeds THEN "AVAILABLE" ELSE "new"]
  /\ trips = [t \in Trip |-> NewTrip]
  /\ volunteers = [d \in Volunteer |-> NewVolunteer]
  /\ incidents \in [Incident -> {"new", "ACTIVE"}]
  /\ pc = [r \in Request |-> "idle"]
  /\ call = [r \in Request |-> NoCall]
  /\ put = [r \in Request |-> NoPut]
  /\ row = [r \in Request |-> NewVolunteer]

-----------------------------------------------------------------------------
(* Helpers shared by the handlers.                                         *)

VehicleExists(v) == vehicles[v] \notin Gone
TripExists(t) == trips[t].status \notin Gone
VolunteerExists(d) == volunteers[d].status \notin Gone
IncidentExists(i) == incidents[i] \notin Gone

\* No request under way is about vehicle v, or about volunteer d: neither a
\* handler nor a PUT whose caller has already given it up.
VehicleQuiet(v) == \A r \in Request : call[r].vehicle # v
VolunteerQuiet(d) == \A r \in Request : d \notin {call[r].driver, put[r].driver}

\* What the clients may promise: to send a request about a vehicle, or about a
\* volunteer, only when the last one about it has ended.
MayUseVehicle(v) == "vehicle_alone" \in Discipline => VehicleQuiet(v)
MayUseVolunteer(d) == "volunteer_alone" \in Discipline => VolunteerQuiet(d)

\* A trip id is answered once POST /trips has returned it; a client may also
\* read it from GET /trips before that, unless it promises to wait.
TripAddressable(t) ==
  "answered_trips" \in Discipline =>
     \A r \in Request : call[r].op = "CreateTrip" => call[r].trip # t

Free(r) == pc[r] = "idle" /\ put[r].at = "none"

Goto(r, where) == pc' = [pc EXCEPT ![r] = where]

\* The handler answers its client; a call it gave up on stays in put[r].
Answer(r) ==
  /\ Goto(r, "idle")
  /\ call' = [call EXCEPT ![r] = NoCall]

\* Mutant: the update is an upsert.
WriteVehicleUpsert(v, s) == vehicles' = [vehicles EXCEPT ![v] = s]

\* vehicles.update_one matches nothing when the vehicle is gone; its exceptions
\* are caught and only logged, which leaves the vehicle as it was.
WriteVehicle(v, s) ==
  \/ /\ vehicles' = IF VehicleExists(v) THEN [vehicles EXCEPT ![v] = s]
                                        ELSE vehicles
  \/ /\ "mongo" \in Faults
     /\ UNCHANGED vehicles

SendPut(r, d, s, ro) ==
  put' = [put EXCEPT ![r] = [at |-> "sent", driver |-> d, status |-> s, role |-> ro]]

\* requests.put(..., timeout=5): the caller goes on when the call is answered,
\* or when it has waited long enough.
WaitOver(r) == put[r].at = "none" \/ "timeout" \in Faults

\* Mutant: a trip that is only scheduled does not count as active.
HasStartedTrip(d) ==
  \E t \in Trip : /\ trips[t].driver = d
                  /\ ~trips[t].text
                  /\ trips[t].status \in ActiveTripStatus \ {"SCHEDULED"}

\* trips_for_volunteer compares the stored driver_id with an int.
HasActiveTrip(d) ==
  \E t \in Trip : /\ trips[t].driver = d
                  /\ ~trips[t].text
                  /\ trips[t].status \in ActiveTripStatus

-----------------------------------------------------------------------------
(* fleet-service: vehicles.  Each of these is one MongoDB operation.       *)

CreateVehicle(v) ==
  /\ "CreateVehicle" \in Ops
  /\ vehicles[v] = "new"
  /\ vehicles' = [vehicles EXCEPT ![v] = "AVAILABLE"]
  /\ UNCHANGED <<trips, volunteers, incidents, pc, call, put, row>>

\* Any status text is accepted, whatever trips the vehicle has.
UpdateVehicle(v, s) ==
  /\ "UpdateVehicle" \in Ops
  /\ VehicleExists(v)
  /\ vehicles' = [vehicles EXCEPT ![v] = s]
  /\ UNCHANGED <<trips, volunteers, incidents, pc, call, put, row>>

DeleteVehicle(v) ==
  /\ "DeleteVehicle" \in Ops
  /\ VehicleExists(v)
  /\ vehicles' = [vehicles EXCEPT ![v] = "deleted"]
  /\ UNCHANGED <<trips, volunteers, incidents, pc, call, put, row>>

-----------------------------------------------------------------------------
(* fleet-service: create_trip.                                             *)

\* Mutant: the vehicle's status is not checked.
StartCreateTripUnchecked(r, v, d, x) ==
  /\ "CreateTrip" \in Ops
  /\ Free(r) /\ MayUseVehicle(v) /\ MayUseVolunteer(d)
  /\ VehicleExists(v)
  /\ call' = [call EXCEPT ![r] = [NoCall EXCEPT !.op = "CreateTrip",
                 !.vehicle = v, !.driver = d, !.text = x]]
  /\ Goto(r, "getDriver")
  /\ UNCHANGED <<vehicles, trips, volunteers, incidents, put, row>>

\* The request arrives and its first read finds the vehicle available.
StartCreateTrip(r, v, d, x) ==
  /\ "CreateTrip" \in Ops
  /\ Free(r) /\ MayUseVehicle(v) /\ MayUseVolunteer(d)
  /\ vehicles[v] = "AVAILABLE"
  /\ call' = [call EXCEPT ![r] = [NoCall EXCEPT !.op = "CreateTrip",
                 !.vehicle = v, !.driver = d, !.text = x]]
  /\ Goto(r, "getDriver")
  /\ UNCHANGED <<vehicles, trips, volunteers, incidents, put, row>>

\* GET /volunteers/{driver_id}: only the role is looked at, not the status.
CheckDriver(r) ==
  /\ pc[r] = "getDriver"
  /\ LET d == call[r].driver IN
       \/ /\ VolunteerExists(d) /\ volunteers[d].role = "DRIVER"
          /\ Goto(r, "getCargo")
          /\ UNCHANGED call
       \/ /\ \/ ~VolunteerExists(d)
             \/ volunteers[d].role # "DRIVER"
             \/ Faults \cap {"drop", "timeout"} # {}
          /\ Answer(r)
  /\ UNCHANGED <<vehicles, trips, volunteers, incidents, put, row>>

\* The resource or the shelter service answers no, or not at all, or the
\* insert fails: 400, 404, 503 or 500.  Those services are not modelled here.
RefuseTrip(r) ==
  /\ pc[r] = "getCargo"
  /\ Answer(r)
  /\ UNCHANGED <<vehicles, trips, volunteers, incidents, put, row>>

\* The resource exists, the shelter is OPEN: the trip is inserted under a fresh
\* id.  The vehicle is not looked at again.
InsertTrip(r, t) ==
  /\ pc[r] = "getCargo"
  /\ trips[t].status = "new"
  /\ trips' = [trips EXCEPT ![t] =
                 [status |-> "SCHEDULED", vehicle |-> call[r].vehicle,
                  driver |-> call[r].driver, text |-> call[r].text]]
  /\ call' = [call EXCEPT ![r].trip = t]
  /\ Goto(r, "markVehicle")
  /\ UNCHANGED <<vehicles, volunteers, incidents, put, row>>

\* Mutant: the vehicle is looked up by its id as a string only.
MarkVehicleByString(r) ==
  /\ pc[r] = "markVehicle"
  /\ SendPut(r, call[r].driver, "IN_USE", "keep")
  /\ Goto(r, "awaitMark")
  /\ UNCHANGED <<vehicles, trips, volunteers, incidents, call, row>>

MarkVehicle(r) ==
  /\ pc[r] = "markVehicle"
  /\ WriteVehicle(call[r].vehicle, "IN_USE")
  /\ SendPut(r, call[r].driver, "IN_USE", "keep")
  /\ Goto(r, "awaitMark")
  /\ UNCHANGED <<trips, volunteers, incidents, call, row>>

\* 201, whatever became of the driver's PUT.
FinishCreateTrip(r) ==
  /\ pc[r] = "awaitMark"
  /\ WaitOver(r)
  /\ Answer(r)
  /\ UNCHANGED <<vehicles, trips, volunteers, incidents, put, row>>

-----------------------------------------------------------------------------
(* fleet-service: update_trip_status and delete_trip.                      *)

FinishCall(op, t, s) ==
  [NoCall EXCEPT !.op = op, !.trip = t, !.vehicle = trips[t].vehicle,
                 !.driver = trips[t].driver, !.status = s]

\* The handler reads the trip; its current status is not looked at.  Only
\* COMPLETED, spelled so, releases the vehicle and the driver.
StartUpdateTrip(r, t, s) ==
  /\ "UpdateTrip" \in Ops
  /\ Free(r) /\ TripExists(t) /\ TripAddressable(t)
  /\ MayUseVehicle(trips[t].vehicle) /\ MayUseVolunteer(trips[t].driver)
  /\ "finish_once" \in Discipline => trips[t].status # "COMPLETED"
  /\ call' = [call EXCEPT ![r] = FinishCall("UpdateTrip", t, s)]
  /\ Goto(r, IF s = "COMPLETED" THEN "release" ELSE "finishTrip")
  /\ UNCHANGED <<vehicles, trips, volunteers, incidents, put, row>>

\* Mutant: delete_trip only deletes.
StartDeleteTripOnly(r, t) ==
  /\ "DeleteTrip" \in Ops
  /\ Free(r) /\ TripExists(t) /\ TripAddressable(t)
  /\ MayUseVehicle(trips[t].vehicle) /\ MayUseVolunteer(trips[t].driver)
  /\ call' = [call EXCEPT ![r] = FinishCall("DeleteTrip", t, "none")]
  /\ Goto(r, "finishTrip")
  /\ UNCHANGED <<vehicles, trips, volunteers, incidents, put, row>>

\* Mutant: delete_trip releases the vehicle of a COMPLETED trip too, which may be
\* on its next trip.
StartDeleteTripAlways(r, t) ==
  /\ "DeleteTrip" \in Ops
  /\ Free(r) /\ TripExists(t) /\ TripAddressable(t)
  /\ MayUseVehicle(trips[t].vehicle) /\ MayUseVolunteer(trips[t].driver)
  /\ call' = [call EXCEPT ![r] = FinishCall("DeleteTrip", t, "none")]
  /\ Goto(r, "release")
  /\ UNCHANGED <<vehicles, trips, volunteers, incidents, put, row>>

\* delete_trip decides from the status it reads here.
StartDeleteTrip(r, t) ==
  /\ "DeleteTrip" \in Ops
  /\ Free(r) /\ TripExists(t) /\ TripAddressable(t)
  /\ MayUseVehicle(trips[t].vehicle) /\ MayUseVolunteer(trips[t].driver)
  /\ call' = [call EXCEPT ![r] = FinishCall("DeleteTrip", t, "none")]
  /\ Goto(r, IF trips[t].status # "COMPLETED" THEN "release" ELSE "finishTrip")
  /\ UNCHANGED <<vehicles, trips, volunteers, incidents, put, row>>

\* Mutant: the vehicle is released, the driver is not.
ReleaseVehicleOnly(r) ==
  /\ pc[r] = "release"
  /\ WriteVehicle(call[r].vehicle, "AVAILABLE")
  /\ Goto(r, "finishTrip")
  /\ UNCHANGED <<trips, volunteers, incidents, call, put, row>>

\* The vehicle is made AVAILABLE, then the driver's PUT is sent.
ReleaseVehicle(r) ==
  /\ pc[r] = "release"
  /\ WriteVehicle(call[r].vehicle, "AVAILABLE")
  /\ SendPut(r, call[r].driver, "AVAILABLE", "keep")
  /\ Goto(r, "finishTrip")
  /\ UNCHANGED <<trips, volunteers, incidents, call, row>>

\* The last write of both handlers; it matches nothing when the trip is gone.
WriteTrip(t, s) ==
  \/ trips' = IF TripExists(t) THEN [trips EXCEPT ![t].status = s] ELSE trips
  \/ /\ "mongo" \in Faults
     /\ UNCHANGED trips

SetTripStatus(r) ==
  /\ pc[r] = "finishTrip" /\ call[r].op = "UpdateTrip"
  /\ WaitOver(r)
  /\ WriteTrip(call[r].trip, call[r].status)
  /\ Answer(r)
  /\ UNCHANGED <<vehicles, volunteers, incidents, put, row>>

DeleteTripRow(r) ==
  /\ pc[r] = "finishTrip" /\ call[r].op = "DeleteTrip"
  /\ WaitOver(r)
  /\ WriteTrip(call[r].trip, "deleted")
  /\ Answer(r)
  /\ UNCHANGED <<vehicles, volunteers, incidents, put, row>>

-----------------------------------------------------------------------------
(* volunteer-service: volunteers.                                          *)

CreateVolunteer(d, ro) ==
  /\ "CreateVolunteer" \in Ops
  /\ volunteers[d].status = "new"
  /\ volunteers' = [volunteers EXCEPT ![d] =
                      [status |-> "AVAILABLE", role |-> ro, incident |-> None]]
  /\ UNCHANGED <<vehicles, trips, incidents, pc, call, put, row>>

DeleteVolunteer(d) ==
  /\ "DeleteVolunteer" \in Ops
  /\ VolunteerExists(d)
  /\ volunteers' = [volunteers EXCEPT ![d].status = "deleted"]
  /\ UNCHANGED <<vehicles, trips, incidents, pc, call, put, row>>

\* PUT /volunteers/{id} from a client: a status alone, or name, role and phone
\* with an optional status.
StartUpdateVolunteer(r, d, s, ro) ==
  /\ "UpdateVolunteer" \in Ops
  /\ Free(r) /\ MayUseVolunteer(d)
  /\ <<s, ro>> # <<"keep", "keep">>
  /\ SendPut(r, d, s, ro)
  /\ UNCHANGED <<vehicles, trips, volunteers, incidents, pc, call, row>>

\* UpdateVolunteer, first half: GetByID.
ReadVolunteer(r) ==
  /\ put[r].at = "sent"
  /\ IF VolunteerExists(put[r].driver)
       THEN /\ put' = [put EXCEPT ![r].at = "read"]
            /\ row' = [row EXCEPT ![r] = volunteers[put[r].driver]]
       ELSE /\ put' = [put EXCEPT ![r] = NoPut]
            /\ UNCHANGED row
  /\ UNCHANGED <<vehicles, trips, volunteers, incidents, pc, call>>

\* Mutant: INSERT ... ON CONFLICT UPDATE.
WriteVolunteerUpsert(d, new) == volunteers' = [volunteers EXCEPT ![d] = new]

\* repository.Update replaces every column of the row, if there is one.
WriteVolunteer(d, new) ==
  volunteers' = IF VolunteerExists(d) THEN [volunteers EXCEPT ![d] = new]
                                      ELSE volunteers

\* Mutant: a status that was not provided is written all the same.
WithFieldsBlank(old, p) ==
  [old EXCEPT !.status = p.status, !.role = IF p.role = "keep" THEN @ ELSE p.role]

\* Mutant: the row is built anew from the request instead of from the old row.
WithFieldsFresh(old, p) ==
  [status |-> IF p.status = "keep" THEN old.status ELSE p.status,
   role |-> IF p.role = "keep" THEN old.role ELSE p.role,
   incident |-> None]

\* The fields that the request gives, over the row it read.
WithFields(old, p) ==
  [old EXCEPT !.status = IF p.status = "keep" THEN @ ELSE p.status,
              !.role = IF p.role = "keep" THEN @ ELSE p.role]

\* UpdateVolunteer, second half: the row read earlier, with the new fields.
UpdateVolunteer(r) ==
  /\ put[r].at = "read"
  /\ WriteVolunteer(put[r].driver, WithFields(row[r], put[r]))
  /\ put' = [put EXCEPT ![r] = NoPut]
  /\ row' = [row EXCEPT ![r] = NewVolunteer]
  /\ UNCHANGED <<vehicles, trips, incidents, pc, call>>

\* The call is lost, or the volunteer service fails before its write.
DropPut(r) ==
  /\ "drop" \in Faults
  /\ put[r].at # "none"
  /\ put' = [put EXCEPT ![r] = NoPut]
  /\ row' = [row EXCEPT ![r] = NewVolunteer]
  /\ UNCHANGED <<vehicles, trips, volunteers, incidents, pc, call>>

-----------------------------------------------------------------------------
(* volunteer-service: Assign.  The row is read first, the incident service *)
(* and the fleet service are asked, and the row read first is written back.*)

StartAssign(r, d, i) ==
  /\ "Assign" \in Ops
  /\ Free(r) /\ MayUseVolunteer(d)
  /\ volunteers[d].status = "AVAILABLE"
  /\ row' = [row EXCEPT ![r] = volunteers[d]]
  /\ call' = [call EXCEPT ![r] = [NoCall EXCEPT !.op = "Assign", !.driver = d,
                                                !.incident = i]]
  /\ Goto(r, "getIncident")
  /\ UNCHANGED <<vehicles, trips, volunteers, incidents, put>>

EndAssign(r) ==
  /\ Answer(r)
  /\ row' = [row EXCEPT ![r] = NewVolunteer]

CheckIncident(r) ==
  /\ pc[r] = "getIncident"
  /\ LET i == call[r].incident IN
       \/ /\ IncidentExists(i) /\ incidents[i] # "RESOLVED"
          /\ Goto(r, "getTrips")
          /\ UNCHANGED <<call, row>>
       \/ /\ \/ ~IncidentExists(i)
             \/ incidents[i] = "RESOLVED"
             \/ Faults \cap {"drop", "timeout"} # {}
          /\ EndAssign(r)
  /\ UNCHANGED <<vehicles, trips, volunteers, incidents, put>>

CheckTrips(r) ==
  /\ pc[r] = "getTrips"
  /\ \/ /\ ~HasActiveTrip(call[r].driver)
        /\ Goto(r, "writeAssign")
        /\ UNCHANGED <<call, row>>
     \/ /\ HasActiveTrip(call[r].driver) \/ Faults \cap {"drop", "timeout"} # {}
        /\ EndAssign(r)
  /\ UNCHANGED <<vehicles, trips, volunteers, incidents, put>>

\* The write may also fail: 500, the row unchanged.
WriteAssign(r) ==
  /\ pc[r] = "writeAssign"
  /\ \/ WriteVolunteer(call[r].driver,
          [row[r] EXCEPT !.status = "BUSY", !.incident = call[r].incident])
     \/ "drop" \in Faults /\ UNCHANGED volunteers
  /\ EndAssign(r)
  /\ UNCHANGED <<vehicles, trips, incidents, put>>

-----------------------------------------------------------------------------
(* The environment: the incident service, and the restarts of a container. *)

\* CreateIncident, UpdateStatus and Delete of the incident service.
SetIncident(i, s) ==
  /\ "SetIncident" \in Ops
  /\ \/ incidents[i] = "new" /\ s = "ACTIVE"
     \/ IncidentExists(i) /\ s \in IncidentStatus \cup {"deleted"}
  /\ incidents' = [incidents EXCEPT ![i] = s]
  /\ UNCHANGED <<vehicles, trips, volunteers, pc, call, put, row>>

FleetOps == {"CreateTrip", "UpdateTrip", "DeleteTrip"}

\* init_db seeds the vehicles when the collection is empty (fewer only when the
\* model runs out of identifiers).
Reseeded(S) ==
  IF \E v \in Vehicle : VehicleExists(v)
    THEN S = {}
    ELSE LET fresh == {v \in Vehicle : vehicles[v] = "new"} IN
           /\ S \subseteq fresh
           /\ S = fresh \/ Cardinality(S) = Cardinality(Seeds)

\* The fleet service dies with every handler it runs and comes back; the
\* volunteer service still finishes the calls it has received.
RestartFleet ==
  /\ "restart" \in Faults
  /\ \E r \in Request : call[r].op \in FleetOps
  /\ LET dead == {r \in Request : call[r].op \in FleetOps} IN
       /\ pc' = [r \in Request |-> IF r \in dead THEN "idle" ELSE pc[r]]
       /\ call' = [r \in Request |-> IF r \in dead THEN NoCall ELSE call[r]]
  /\ \E S \in SUBSET Vehicle :
       /\ Reseeded(S)
       /\ vehicles' = [v \in Vehicle |-> IF v \in S THEN "AVAILABLE" ELSE vehicles[v]]
  /\ UNCHANGED <<trips, volunteers, incidents, put, row>>

\* The volunteer service dies with its handlers: every assignment under way and
\* every PUT it was working on, whose callers see an error.
RestartVolunteer ==
  /\ "restart" \in Faults
  /\ \E r \in Request : call[r].op = "Assign" \/ put[r].at # "none"
  /\ LET dead == {r \in Request : call[r].op = "Assign"} IN
       /\ pc' = [r \in Request |-> IF r \in dead THEN "idle" ELSE pc[r]]
       /\ call' = [r \in Request |-> IF r \in dead THEN NoCall ELSE call[r]]
  /\ put' = [r \in Request |-> NoPut]
  /\ row' = [r \in Request |-> NewVolunteer]
  /\ UNCHANGED <<vehicles, trips, volunteers, incidents>>

-----------------------------------------------------------------------------
CreateTripStep(r) ==
  \/ CheckDriver(r) \/ RefuseTrip(r) \/ MarkVehicle(r) \/ FinishCreateTrip(r)
  \/ \E t \in Trip : InsertTrip(r, t)

FinishTripStep(r) == ReleaseVehicle(r) \/ SetTripStatus(r) \/ DeleteTripRow(r)

AssignStep(r) == CheckIncident(r) \/ CheckTrips(r) \/ WriteAssign(r)

HandlerStep(r) == CreateTripStep(r) \/ FinishTripStep(r) \/ AssignStep(r)

PutStep(r) == ReadVolunteer(r) \/ UpdateVolunteer(r)

Arrival(r) ==
  \/ \E v \in Vehicle, d \in Volunteer, x \in DriverIdAsText : StartCreateTrip(r, v, d, x)
  \/ \E t \in Trip, s \in PutTripStatus : StartUpdateTrip(r, t, s)
  \/ \E t \in Trip : StartDeleteTrip(r, t)
  \/ \E d \in Volunteer, s \in StaffStatus \cup {"keep"}, ro \in Role \cup {"keep"} :
        StartUpdateVolunteer(r, d, s, ro)
  \/ \E d \in Volunteer, i \in Incident : StartAssign(r, d, i)

Console ==
  \/ \E v \in Vehicle : CreateVehicle(v) \/ DeleteVehicle(v)
  \/ \E v \in Vehicle, s \in ConsoleStatus : UpdateVehicle(v, s)
  \/ \E d \in Volunteer : DeleteVolunteer(d)
  \/ \E d \in Volunteer, ro \in Role : CreateVolunteer(d, ro)

Environment ==
  \/ \E i \in Incident, s \in IncidentStatus \cup {"deleted"} : SetIncident(i, s)
  \/ RestartFleet
  \/ RestartVolunteer

Next ==
  \/ \E r \in Request : Arrival(r) \/ HandlerStep(r) \/ PutStep(r) \/ DropPut(r)
  \/ Console
  \/ Environment

Spec == Init /\ [][Next]_vars

\* A handler that runs is scheduled, in either service, also when its caller has
\* stopped waiting for it.  Nobody has to send a request, and nothing has to fail.
Fairness == \A r \in Request : WF_vars(HandlerStep(r)) /\ WF_vars(PutStep(r))

FairSpec == Spec /\ Fairness

-----------------------------------------------------------------------------
(* What the two services should guarantee.                                 *)

Unfinished(t) == TripExists(t) /\ trips[t].status # "COMPLETED"

\* A vehicle that is IN_USE is in use by some trip: however create_trip,
\* update_trip_status and delete_trip interleave, time out or are cut short by
\* a restart, no vehicle stays IN_USE once every trip that named it is COMPLETED
\* or deleted (clients address a trip only once its POST is answered).
HeldVehicle ==
  \A v \in Vehicle : vehicles[v] = "IN_USE" =>
     \E t \in Trip : Unfinished(t) /\ trips[t].vehicle = v

\* A BUSY volunteer names the incident it is busy with, although every writer
\* of the row writes all its columns back from a copy it may have read long ago.
BusyNamesIncident ==
  \A d \in Volunteer : volunteers[d].status = "BUSY" => volunteers[d].incident # None

\* An id that was deleted stays deleted, even when an update that read the row
\* before the DELETE writes after it: no update is an upsert.
NoResurrection ==
  [][ /\ \A v \in Vehicle : vehicles[v] = "deleted" => vehicles'[v] = "deleted"
      /\ \A t \in Trip : trips[t].status = "deleted" => trips'[t].status = "deleted"
      /\ \A d \in Volunteer :
            volunteers[d].status = "deleted" => volunteers'[d].status = "deleted"
    ]_vars

\* No two unfinished trips share a vehicle (create_trip verifies the vehicle's
\* availability before it inserts the trip).
NoDoubleBooking ==
  \A t, u \in Trip : t # u /\ Unfinished(t) /\ Unfinished(u) =>
                        trips[t].vehicle # trips[u].vehicle

\* Between the requests about it, a vehicle offered as AVAILABLE is on no
\* unfinished trip.
AvailableVehicleIsFree ==
  \A v \in Vehicle : vehicles[v] = "AVAILABLE" /\ VehicleQuiet(v) =>
     \A t \in Trip : Unfinished(t) => trips[t].vehicle # v

\* The same as a refinement: create_trip's read, its three calls and its two
\* writes amount to one step that books a free vehicle, and the two writes of
\* update_trip_status or delete_trip to one that gives it back.  No trip comes
\* back, changes its vehicle or ends twice.
OnVehicle(v) == {t \in Trip : Unfinished(t) /\ trips[t].vehicle = v}
BookedTrips == [v \in Vehicle |-> OnVehicle(v)]
PastTrips == {t \in Trip : trips[t].status \in {"COMPLETED", "deleted"}}

Bookings == INSTANCE Booking WITH on <- BookedTrips, past <- PastTrips

BookingIsAtomic == Bookings!Spec

GetsIncident(d) == /\ volunteers'[d].incident # None
                   /\ volunteers'[d].incident # volunteers[d].incident

\* Assign does not take a driver off an active trip: when it links a volunteer to
\* an incident, no active trip names that volunteer as its driver.
AssignedHasNoTrip ==
  [][\A d \in Volunteer : GetsIncident(d) =>
        ~\E t \in Trip : trips[t].driver = d /\ trips[t].status \in ActiveTripStatus]_vars

\* A volunteer that was linked to an incident keeps a link: no later update of
\* the status, the role or the name loses it.
AssignmentKept ==
  [][\A d \in Volunteer :
        volunteers[d].incident # None => volunteers'[d].incident # None]_vars

\* A volunteer is linked only to an incident that exists and is not RESOLVED.
AssignedIncidentOpen ==
  [][\A d \in Volunteer : GetsIncident(d) =>
        incidents[volunteers'[d].incident] \notin Gone \cup {"RESOLVED"}]_vars

\* A volunteer is linked to an incident only while it is assigned to a vehicle,
\* that is while an active trip names it as its driver.
AssignedHasVehicle ==
  [][\A d \in Volunteer : GetsIncident(d) => HasActiveTrip(d)]_vars

\* delete_trip makes the vehicle available only if the trip is not already
\* completed, for then the vehicle may be on its next trip.
ReleaseOnlyUncompleted ==
  [][\A r \in Request :
        pc[r] = "release" /\ call[r].op = "DeleteTrip" /\ pc'[r] = "finishTrip" =>
           trips[call[r].trip].status # "COMPLETED"]_vars

\* Completing or deleting a trip takes its driver out of IN_USE: the caller may
\* stop waiting and other trips may book the driver meanwhile, but as long as the
\* call itself is not lost, the driver's row says so at some time after.
DriverFreed ==
  \A r \in Request, d \in Volunteer :
     pc[r] = "release" /\ call[r].driver = d ~> volunteers[d].status # "IN_USE"

=============================================================================
