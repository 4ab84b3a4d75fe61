------------------------ MODULE TripDispatch_proofs -------------------------
(***************************************************************************)
(* Theorems about TripDispatch, for any number of vehicles, volunteers,    *)
(* trips, incidents and requests.                                          *)
(***************************************************************************)
EXTENDS TripDispatch, TLAPS

\* TypeOK is not inductive alone: update_trip_status writes the status it was
\* given, and the volunteer service reads the row its caller named.
ArgumentsNamed ==
  /\ \A t \in Trip : trips[t].status # "new" => trips[t].driver \in Volunteer
  /\ \A r \in Request :
        /\ pc[r] # "idle" => call[r].driver \in Volunteer
        /\ call[r].op = "UpdateTrip" => call[r].status \in TripStatus
        /\ put[r].at # "none" => put[r].driver \in Volunteer

TypeInv == TypeOK /\ ArgumentsNamed

LEMMA NoneFacts == NoCall \in Call /\ NoPut \in Put /\ NewVolunteer \in VolunteerRow
                     /\ NewTrip \in TripRow
  BY DEF NoCall, Call, NoPut, Put, NewVolunteer, VolunteerRow, NewTrip, TripRow, Role, Gone

LEMMA TypeInit == Init => TypeInv
  <1> SUFFICES ASSUME Init PROVE TypeInv
    OBVIOUS
  <1>1. vehicles \in [Vehicle -> VehicleStatus \cup Gone]
    BY DEF Init, VehicleStatus, Gone
  <1>2. incidents \in [Incident -> IncidentStatus \cup Gone]
    BY DEF Init, IncidentStatus, Gone
  <1>3. /\ trips \in [Trip -> TripRow] /\ volunteers \in [Volunteer -> VolunteerRow]
        /\ pc \in [Request -> Pc] /\ call \in [Request -> Call]
        /\ put \in [Request -> Put] /\ row \in [Request -> VolunteerRow]
    BY NoneFacts DEF Init, Pc
  <1>4. /\ \A t \in Trip : trips[t].status = "new"
        /\ \A r \in Request : pc[r] = "idle" /\ call[r].op = "none" /\ put[r].at = "none"
    BY DEF Init, NoCall, NoPut, NewTrip
  <1> QED
    BY <1>1, <1>2, <1>3, <1>4 DEF TypeInv, TypeOK, ArgumentsNamed

\* What an answered request, a jump and a PUT leave behind.
LEMMA AnswerType ==
  ASSUME TypeInv, NEW r \in Request, Answer(r)
  PROVE  /\ pc' \in [Request -> Pc] /\ call' \in [Request -> Call]
         /\ pc'[r] = "idle" /\ call'[r].op = "none"
         /\ \A q \in Request : q # r => pc'[q] = pc[q] /\ call'[q] = call[q]
  <1>1. pc' = [pc EXCEPT ![r] = "idle"] /\ call' = [call EXCEPT ![r] = NoCall]
    BY DEF Answer, Goto
  <1>2. "idle" \in Pc /\ NoCall.op = "none"
    BY DEF Pc, NoCall
  <1> QED
    BY <1>1, <1>2, NoneFacts DEF TypeInv, TypeOK

LEMMA GotoType ==
  ASSUME TypeInv, NEW r \in Request, NEW where \in Pc, Goto(r, where)
  PROVE  /\ pc' \in [Request -> Pc] /\ pc'[r] = where
         /\ \A q \in Request : q # r => pc'[q] = pc[q]
  BY DEF Goto, TypeInv, TypeOK

LEMMA SendPutType ==
  ASSUME TypeInv, NEW r \in Request, NEW d \in Volunteer,
         NEW s \in VolunteerStatus \cup {"keep"}, NEW ro \in Role \cup {"keep"},
         SendPut(r, d, s, ro)
  PROVE  /\ put' \in [Request -> Put] /\ put'[r].driver \in Volunteer
         /\ \A q \in Request : q # r => put'[q] = put[q]
  BY DEF SendPut, Put, TypeInv, TypeOK

LEMMA WriteVehicleType ==
  ASSUME TypeInv, NEW v, NEW s \in VehicleStatus, WriteVehicle(v, s)
  PROVE  vehicles' \in [Vehicle -> VehicleStatus \cup Gone]
  BY DEF WriteVehicle, TypeInv, TypeOK

\* create_trip.
LEMMA TypeCreateTrip ==
  ASSUME TypeInv, NEW r \in Request,
         \/ CreateTripStep(r)
         \/ \E v \in Vehicle, d \in Volunteer, x \in DriverIdAsText : StartCreateTrip(r, v, d, x)
  PROVE  TypeInv'
  <1> USE DEF TypeInv, TypeOK, ArgumentsNamed
  <1>0. "getDriver" \in Pc /\ "getCargo" \in Pc /\ "markVehicle" \in Pc /\ "awaitMark" \in Pc
    BY DEF Pc
  <1>1. CASE CheckDriver(r)
    <2>1. CASE Answer(r)
      BY <1>1, <2>1, AnswerType DEF CheckDriver
    <2>2. CASE Goto(r, "getCargo") /\ UNCHANGED call
      BY <1>1, <2>2, <1>0, GotoType DEF CheckDriver
    <2> QED
      BY <1>1, <2>1, <2>2 DEF CheckDriver
  <1>2. CASE RefuseTrip(r) \/ FinishCreateTrip(r)
    BY <1>2, AnswerType DEF RefuseTrip, FinishCreateTrip
  <1>3. CASE MarkVehicle(r)
    <2>1. vehicles' \in [Vehicle -> VehicleStatus \cup Gone]
      BY <1>3, WriteVehicleType DEF MarkVehicle, VehicleStatus
    <2>2. /\ put' \in [Request -> Put] /\ put'[r].driver \in Volunteer
          /\ \A q \in Request : q # r => put'[q] = put[q]
      BY <1>3, SendPutType DEF MarkVehicle, VolunteerStatus
    <2> QED
      BY <1>3, <1>0, <2>1, <2>2, GotoType DEF MarkVehicle
  <1>4. CASE \E t \in Trip : InsertTrip(r, t)
    <2> PICK t \in Trip : InsertTrip(r, t)
      BY <1>4
    <2>1. trips' \in [Trip -> TripRow] /\ trips'[t].driver \in Volunteer
      BY DEF InsertTrip, TripRow, TripStatus, Call
    <2>2. call' \in [Request -> Call]
      BY DEF InsertTrip, Call
    <2> QED
      BY <1>0, <2>1, <2>2, GotoType DEF InsertTrip, Call
  <1>5. CASE \E v \in Vehicle, d \in Volunteer, x \in DriverIdAsText : StartCreateTrip(r, v, d, x)
    <2> PICK v \in Vehicle, d \in Volunteer, x \in DriverIdAsText : StartCreateTrip(r, v, d, x)
      BY <1>5
    <2>1. /\ call' \in [Request -> Call] /\ call'[r].driver = d /\ call'[r].op = "CreateTrip"
          /\ \A q \in Request : q # r => call'[q] = call[q]
      BY InputsAssumption DEF StartCreateTrip, Call, NoCall
    <2>2. /\ pc' \in [Request -> Pc] /\ \A q \in Request : q # r => pc'[q] = pc[q]
      BY <1>0, GotoType DEF StartCreateTrip
    <2>3. UNCHANGED <<vehicles, trips, volunteers, incidents, put, row>>
      BY DEF StartCreateTrip
    <2> QED
      BY <2>1, <2>2, <2>3
  <1> QED
    BY <1>1, <1>2, <1>3, <1>4, <1>5 DEF CreateTripStep

\* update_trip_status and delete_trip.
LEMMA TypeFinishTrip ==
  ASSUME TypeInv, NEW r \in Request,
         \/ FinishTripStep(r)
         \/ \E t \in Trip, s \in PutTripStatus : StartUpdateTrip(r, t, s)
         \/ \E t \in Trip : StartDeleteTrip(r, t)
  PROVE  TypeInv'
  <1> USE DEF TypeInv, TypeOK, ArgumentsNamed
  <1>0. "release" \in Pc /\ "finishTrip" \in Pc
    BY DEF Pc
  <1>1. ASSUME NEW t \in Trip, NEW s, WriteTrip(t, s), s \in TripStatus \cup {"deleted"}
        PROVE  /\ trips' \in [Trip -> TripRow]
               /\ \A u \in Trip : trips'[u].status # "new" => trips'[u].driver \in Volunteer
    BY <1>1 DEF WriteTrip, TripExists, TripRow, TripStatus, Gone
  <1>2. ASSUME NEW s, WriteTrip(None, s)
        PROVE  /\ trips' \in [Trip -> TripRow]
               /\ \A u \in Trip : trips'[u] = trips[u]
    BY <1>2, NoneAssumption DEF WriteTrip
  <1>3. CASE ReleaseVehicle(r)
    <2>1. vehicles' \in [Vehicle -> VehicleStatus \cup Gone]
      BY <1>3, WriteVehicleType DEF ReleaseVehicle, VehicleStatus
    <2>2. /\ put' \in [Request -> Put] /\ put'[r].driver \in Volunteer
          /\ \A q \in Request : q # r => put'[q] = put[q]
      BY <1>3, SendPutType DEF ReleaseVehicle, VolunteerStatus
    <2> QED
      BY <1>3, <1>0, <2>1, <2>2, GotoType DEF ReleaseVehicle
  <1>4. CASE SetTripStatus(r) \/ DeleteTripRow(r)
    <2>1. call[r].trip \in Trip \cup {None}
      BY DEF Call
    <2>2. /\ trips' \in [Trip -> TripRow]
          /\ \A u \in Trip : trips'[u].status # "new" => trips'[u].driver \in Volunteer
      BY <1>1, <1>2, <1>4, <2>1 DEF SetTripStatus, DeleteTripRow
    <2> QED
      BY <1>4, <2>2, AnswerType DEF SetTripStatus, DeleteTripRow
  <1>5. ASSUME NEW t \in Trip, NEW s \in TripStatus \cup {"none"}, TripExists(t),
               NEW op \in {"UpdateTrip", "DeleteTrip"},
               op = "UpdateTrip" => s \in TripStatus,
               call' = [call EXCEPT ![r] = FinishCall(op, t, s)]
        PROVE  /\ call' \in [Request -> Call] /\ call'[r].driver \in Volunteer
               /\ call'[r].op = "UpdateTrip" => call'[r].status \in TripStatus
               /\ \A q \in Request : q # r => call'[q] = call[q]
    <2>1. FinishCall(op, t, s) \in Call
      BY <1>5 DEF FinishCall, Call, NoCall, TripRow
    <2>2. FinishCall(op, t, s).driver = trips[t].driver
      BY DEF FinishCall, NoCall
    <2>3. FinishCall(op, t, s).op = op /\ FinishCall(op, t, s).status = s
      BY DEF FinishCall, NoCall
    <2>4. trips[t].driver \in Volunteer
      BY <1>5 DEF TripExists, Gone
    <2> QED
      BY <1>5, <2>1, <2>2, <2>3, <2>4
  <1>6. CASE \E t \in Trip, s \in PutTripStatus : StartUpdateTrip(r, t, s)
    <2> PICK t \in Trip, s \in PutTripStatus : StartUpdateTrip(r, t, s)
      BY <1>6
    <2>1. s \in TripStatus
      BY InputsAssumption
    <2> QED
      BY <1>0, <1>5, <2>1, GotoType DEF StartUpdateTrip
  <1>7. CASE \E t \in Trip : StartDeleteTrip(r, t)
    <2> PICK t \in Trip : StartDeleteTrip(r, t)
      BY <1>7
    <2>1. pc' \in [Request -> Pc] /\ \A q \in Request : q # r => pc'[q] = pc[q]
      BY <1>0 DEF StartDeleteTrip, Goto
    <2>2. /\ call' \in [Request -> Call] /\ call'[r].driver \in Volunteer
          /\ call'[r].op = "UpdateTrip" => call'[r].status \in TripStatus
          /\ \A q \in Request : q # r => call'[q] = call[q]
      BY <1>5 DEF StartDeleteTrip
    <2>3. UNCHANGED <<vehicles, trips, volunteers, incidents, put, row>>
      BY DEF StartDeleteTrip
    <2> QED
      BY <2>1, <2>2, <2>3
  <1> QED
    BY <1>3, <1>4, <1>6, <1>7 DEF FinishTripStep

\* The volunteer service.
LEMMA TypeVolunteer ==
  ASSUME TypeInv, NEW r \in Request,
         \/ AssignStep(r) \/ PutStep(r) \/ DropPut(r)
         \/ \E d \in Volunteer, s \in StaffStatus \cup {"keep"}, ro \in Role \cup {"keep"} :
               StartUpdateVolunteer(r, d, s, ro)
         \/ \E d \in Volunteer, i \in Incident : StartAssign(r, d, i)
  PROVE  TypeInv'
  <1> USE DEF TypeInv, TypeOK, ArgumentsNamed
  <1>0. "getIncident" \in Pc /\ "getTrips" \in Pc /\ "writeAssign" \in Pc
    BY DEF Pc
  <1>1. NoPut.at = "none" /\ NoPut \in Put /\ NewVolunteer \in VolunteerRow
    BY NoneFacts DEF NoPut
  <1>2. ASSUME EndAssign(r), UNCHANGED <<vehicles, trips, incidents, put>>,
               volunteers' \in [Volunteer -> VolunteerRow]
        PROVE  TypeInv'
    BY <1>1, <1>2, AnswerType DEF EndAssign
  <1>3. CASE CheckIncident(r)
    BY <1>0, <1>2, <1>3, GotoType DEF CheckIncident
  <1>4. CASE CheckTrips(r)
    BY <1>0, <1>2, <1>4, GotoType DEF CheckTrips
  <1>5. ASSUME NEW d, NEW new \in VolunteerRow, WriteVolunteer(d, new)
        PROVE  volunteers' \in [Volunteer -> VolunteerRow]
    BY <1>5 DEF WriteVolunteer
  <1>6. CASE WriteAssign(r)
    <2>1. [row[r] EXCEPT !.status = "BUSY", !.incident = call[r].incident] \in VolunteerRow
      BY DEF VolunteerRow, VolunteerStatus, Call
    <2> QED
      BY <1>2, <1>5, <1>6, <2>1 DEF WriteAssign
  <1>7. CASE ReadVolunteer(r)
    <2>1. UNCHANGED <<vehicles, trips, volunteers, incidents, pc, call>>
      BY <1>7 DEF ReadVolunteer
    <2>2. CASE VolunteerExists(put[r].driver)
      <3>1. put[r].driver \in Volunteer
        BY <1>7 DEF ReadVolunteer
      <3>2. row' \in [Request -> VolunteerRow]
        BY <1>7, <2>2, <3>1 DEF ReadVolunteer
      <3>3. put' = [put EXCEPT ![r].at = "read"]
        BY <1>7, <2>2 DEF ReadVolunteer
      <3>4. put' \in [Request -> Put]
        BY <3>3 DEF Put
      <3>5. \A q \in Request : put'[q].at # "none" => put'[q].driver \in Volunteer
        BY <3>1, <3>3 DEF Put
      <3> QED
        BY <2>1, <3>2, <3>4, <3>5
    <2>3. CASE ~VolunteerExists(put[r].driver)
      BY <1>1, <1>7, <2>1, <2>3 DEF ReadVolunteer
    <2> QED
      BY <2>2, <2>3
  <1>8. CASE UpdateVolunteer(r)
    <2>1. WithFields(row[r], put[r]) \in VolunteerRow
      BY DEF WithFields, VolunteerRow, Put
    <2> QED
      BY <1>1, <1>5, <1>8, <2>1 DEF UpdateVolunteer
  <1>9. CASE DropPut(r)
    BY <1>1, <1>9 DEF DropPut
  <1>10. CASE \E d \in Volunteer, s \in StaffStatus \cup {"keep"}, ro \in Role \cup {"keep"} :
                 StartUpdateVolunteer(r, d, s, ro)
    BY <1>10, InputsAssumption, SendPutType DEF StartUpdateVolunteer
  <1>11. CASE \E d \in Volunteer, i \in Incident : StartAssign(r, d, i)
    <2> PICK d \in Volunteer, i \in Incident : StartAssign(r, d, i)
      BY <1>11
    <2>1. /\ call' \in [Request -> Call] /\ call'[r].driver = d /\ call'[r].op = "Assign"
          /\ \A q \in Request : q # r => call'[q] = call[q]
      BY DEF StartAssign, Call, NoCall
    <2>2. /\ pc' \in [Request -> Pc] /\ \A q \in Request : q # r => pc'[q] = pc[q]
      BY <1>0, GotoType DEF StartAssign
    <2>3. UNCHANGED <<vehicles, trips, volunteers, incidents, put>>
      BY DEF StartAssign
    <2>4. row' \in [Request -> VolunteerRow]
      BY DEF StartAssign
    <2> QED
      BY <2>1, <2>2, <2>3, <2>4
  <1> QED
    BY <1>3, <1>4, <1>6, <1>7, <1>8, <1>9, <1>10, <1>11 DEF AssignStep, PutStep

LEMMA TypeConsole ==
  ASSUME TypeInv, Console \/ Environment
  PROVE  TypeInv'
  <1> USE DEF TypeInv, TypeOK, ArgumentsNamed
  <1>1. CASE Console
    <2>1. CASE \E v \in Vehicle : CreateVehicle(v) \/ DeleteVehicle(v)
      BY <2>1 DEF CreateVehicle, DeleteVehicle, VehicleStatus, Gone
    <2>2. CASE \E v \in Vehicle, s \in ConsoleStatus : UpdateVehicle(v, s)
      BY <2>2, InputsAssumption DEF UpdateVehicle
    <2>3. CASE \E d \in Volunteer : DeleteVolunteer(d)
      BY <2>3 DEF DeleteVolunteer, VolunteerRow, Gone
    <2>4. CASE \E d \in Volunteer, ro \in Role : CreateVolunteer(d, ro)
      BY <2>4 DEF CreateVolunteer, VolunteerRow, VolunteerStatus
    <2> QED
      BY <1>1, <2>1, <2>2, <2>3, <2>4 DEF Console
  <1>2. CASE \E i \in Incident, s \in IncidentStatus \cup {"deleted"} : SetIncident(i, s)
    BY <1>2 DEF SetIncident, Gone
  <1>3. CASE RestartFleet
    BY <1>3, NoneFacts DEF RestartFleet, Pc, NoCall, VehicleStatus
  <1>4. CASE RestartVolunteer
    BY <1>4, NoneFacts DEF RestartVolunteer, Pc, NoCall, NoPut
  <1> QED
    BY <1>1, <1>2, <1>3, <1>4 DEF Environment

LEMMA TypeNext == TypeInv /\ [Next]_vars => TypeInv'
  <1> SUFFICES ASSUME TypeInv, [Next]_vars PROVE TypeInv'
    OBVIOUS
  <1>1. CASE UNCHANGED vars
    BY <1>1 DEF vars, TypeInv, TypeOK, ArgumentsNamed
  <1>2. ASSUME NEW r \in Request, Arrival(r) \/ HandlerStep(r) \/ PutStep(r) \/ DropPut(r)
        PROVE  TypeInv'
    BY <1>2, TypeCreateTrip, TypeFinishTrip, TypeVolunteer DEF Arrival, HandlerStep
  <1> QED
    BY <1>1, <1>2, TypeConsole DEF Next

\* Every variable keeps its type, in every reachable state.
THEOREM TypeCorrect == Spec => []TypeOK
  <1>1. TypeInv => TypeOK
    BY DEF TypeInv
  <1> QED
    BY <1>1, TypeInit, TypeNext, PTL DEF Spec

-----------------------------------------------------------------------------
(* HeldVehicle.  It is not inductive: the trip that justifies an IN_USE     *)
(* vehicle may be about to be COMPLETED.  The strengthening asks for a trip *)
(* that no request is past releasing; it needs to know what the requests    *)
(* under way know about their trips.                                        *)

\* r has released the vehicle of t (or found that it need not) and is about to
\* complete or delete t.
Ending(r, t) ==
  /\ pc[r] = "finishTrip" /\ call[r].trip = t
  /\ \/ call[r].op = "DeleteTrip"
     \/ call[r].op = "UpdateTrip" /\ call[r].status = "COMPLETED"

Holds(t, v) == /\ Unfinished(t) /\ trips[t].vehicle = v
               /\ \A r \in Request : ~Ending(r, t)

HeldByLiveTrip ==
  \A v \in Vehicle : vehicles[v] = "IN_USE" => \E t \in Trip : Holds(t, v)

\* A request that names a trip names one that was inserted, on the vehicle it
\* was inserted with; a create that has inserted its trip is alone with it.
CallsKnowTrips ==
  \A r \in Request :
     /\ call[r].trip \in Trip => /\ trips[call[r].trip].status # "new"
                                 /\ trips[call[r].trip].vehicle = call[r].vehicle
     /\ pc[r] \in {"release", "finishTrip"} =>
           call[r].op \in {"UpdateTrip", "DeleteTrip"} /\ call[r].trip \in Trip
     /\ pc[r] = "release" /\ call[r].op = "UpdateTrip" => call[r].status = "COMPLETED"
     /\ pc[r] \in {"getDriver", "getCargo", "markVehicle", "awaitMark"} =>
           call[r].op = "CreateTrip"
     /\ pc[r] = "markVehicle" =>
           /\ call[r].trip \in Trip
           /\ Unfinished(call[r].trip)
           /\ \A q \in Request : q # r => call[q].trip # call[r].trip

HeldInv == TypeInv /\ CallsKnowTrips /\ HeldByLiveTrip

\* What the clients and the database must not do for the theorem.
HeldAssumption ==
  /\ "answered_trips" \in Discipline
  /\ "mongo" \notin Faults
  /\ "IN_USE" \notin ConsoleStatus

LEMMA HeldInit == Init => HeldInv
  <1> SUFFICES ASSUME Init PROVE HeldInv
    OBVIOUS
  <1>1. CallsKnowTrips
    BY NoneAssumption DEF Init, CallsKnowTrips, NoCall
  <1>2. HeldByLiveTrip
    BY DEF Init, HeldByLiveTrip
  <1> QED
    BY <1>1, <1>2, TypeInit DEF HeldInv

\* The witnesses survive a step that leaves the trips alone, lets no request
\* become Ending and puts no vehicle IN_USE.
LEMMA HeldFrame ==
  ASSUME HeldByLiveTrip, UNCHANGED trips,
         \A v \in Vehicle : vehicles'[v] = "IN_USE" => vehicles[v] = "IN_USE",
         \A r \in Request, t \in Trip : Ending(r, t)' => Ending(r, t) \/ ~Unfinished(t)
  PROVE  HeldByLiveTrip'
  BY DEF HeldByLiveTrip, Holds, Unfinished, TripExists

\* Steps of requests that touch neither trips nor vehicles nor name a trip.
LEMMA HeldQuiet ==
  ASSUME HeldInv, UNCHANGED <<trips, vehicles>>, NEW r \in Request,
         \A q \in Request : q # r => pc'[q] = pc[q] /\ call'[q] = call[q],
         \/ call'[r].trip = None /\ pc'[r] \notin {"release", "finishTrip", "markVehicle"}
            /\ (pc'[r] \in {"getDriver", "getCargo"} => call'[r].op = "CreateTrip")
            /\ pc'[r] # "awaitMark"
         \/ pc'[r] = pc[r] /\ call'[r] = call[r]
  PROVE  CallsKnowTrips' /\ HeldByLiveTrip'
  <1>1. CallsKnowTrips'
    BY NoneAssumption DEF HeldInv, CallsKnowTrips, Unfinished, TripExists
  <1>2. \A q \in Request, t \in Trip : Ending(q, t)' => Ending(q, t)
    BY DEF Ending
  <1> QED
    BY <1>1, <1>2, HeldFrame DEF HeldInv

LEMMA HeldInsertTrip ==
  ASSUME HeldInv, NEW r \in Request, NEW t \in Trip, InsertTrip(r, t)
  PROVE  CallsKnowTrips' /\ HeldByLiveTrip'
  <1> USE DEF HeldInv
  <1>1. /\ trips[t].status = "new" /\ pc[r] = "getCargo" /\ call[r].op = "CreateTrip"
        /\ \A q \in Request : call[q].trip # t
    BY DEF InsertTrip, CallsKnowTrips
  <1>2. /\ trips'[t] = [status |-> "SCHEDULED", vehicle |-> call[r].vehicle,
                        driver |-> call[r].driver, text |-> call[r].text]
        /\ \A u \in Trip : u # t => trips'[u] = trips[u]
    BY DEF InsertTrip, TypeInv, TypeOK
  <1>3. /\ call'[r] = [call[r] EXCEPT !.trip = t]
        /\ \A q \in Request : q # r => call'[q] = call[q] /\ pc'[q] = pc[q]
        /\ pc'[r] = "markVehicle" /\ vehicles' = vehicles
    BY DEF InsertTrip, Goto, TypeInv, TypeOK
  <1>4. call'[r].trip = t /\ call'[r].vehicle = call[r].vehicle /\ call'[r].op = "CreateTrip"
    BY <1>1, <1>3 DEF TypeInv, TypeOK, Call
  <1>5. CallsKnowTrips'
    <2>1. trips'[t].status = "SCHEDULED" /\ trips'[t].vehicle = call[r].vehicle
      BY <1>2
    <2>2. \A q \in Request : q # r => (call'[q].trip \in Trip => trips'[call'[q].trip] = trips[call[q].trip])
      BY <1>1, <1>2, <1>3
    <2>3. Unfinished(t)'
      BY <2>1 DEF Unfinished, TripExists, Gone
    <2>4. \A q \in Request : q # r /\ pc[q] = "markVehicle" => Unfinished(call[q].trip)'
      BY <2>2, <1>3 DEF CallsKnowTrips, Unfinished, TripExists
    <2>5. ASSUME NEW q \in Request, call'[q].trip \in Trip
          PROVE  trips'[call'[q].trip].status # "new" /\ trips'[call'[q].trip].vehicle = call'[q].vehicle
      <3>1. CASE q = r
        BY <1>4, <2>1, <3>1
      <3>2. CASE q # r
        BY <1>3, <2>2, <2>5, <3>2 DEF CallsKnowTrips
      <3> QED
        BY <3>1, <3>2
    <2>6. ASSUME NEW q \in Request, pc'[q] = "markVehicle"
          PROVE  /\ call'[q].trip \in Trip
                 /\ Unfinished(call[q].trip)'
                 /\ \A p \in Request : p # q => call'[p].trip # call'[q].trip
      <3>1. CASE q = r
        <4>1. Unfinished(call[q].trip)'
          BY <1>4, <2>1, <3>1 DEF Unfinished, TripExists, Gone
        <4> QED
          BY <1>1, <1>3, <1>4, <3>1, <4>1
      <3>2. CASE q # r
        <4>1. /\ pc[q] = "markVehicle" /\ call'[q] = call[q] /\ call[q].trip \in Trip
              /\ \A p \in Request : p # q => call[p].trip # call[q].trip
          BY <1>3, <2>6, <3>2 DEF CallsKnowTrips
        <4>2. \A p \in Request : p # q => call'[p].trip # call'[q].trip
          BY <1>1, <1>3, <1>4, <4>1
        <4> QED
          BY <2>4, <3>2, <4>1, <4>2
      <3> QED
        BY <3>1, <3>2
    <2> QED
      BY <1>3, <1>4, <2>5, <2>6 DEF CallsKnowTrips
  <1>6. \A q \in Request, u \in Trip : Ending(q, u)' => Ending(q, u)
    BY <1>3, <1>4 DEF Ending
  <1>7. ASSUME NEW v \in Vehicle, NEW u \in Trip, Holds(u, v) PROVE Holds(u, v)'
    <2>1. u # t
      BY <1>1, <1>7 DEF Holds, Unfinished, TripExists, Gone
    <2> QED
      BY <1>2, <1>6, <1>7, <2>1 DEF Holds, Unfinished, TripExists
  <1>8. HeldByLiveTrip'
    BY <1>3, <1>7 DEF HeldByLiveTrip
  <1> QED
    BY <1>5, <1>8

\* The trip just inserted holds the vehicle that becomes IN_USE.
LEMMA HeldMarkVehicle ==
  ASSUME HeldInv, NEW r \in Request, MarkVehicle(r)
  PROVE  CallsKnowTrips' /\ HeldByLiveTrip'
  <1> USE DEF HeldInv
  <1>1. /\ pc[r] = "markVehicle" /\ pc'[r] = "awaitMark" /\ call' = call /\ trips' = trips
        /\ \A q \in Request : q # r => pc'[q] = pc[q]
    BY DEF MarkVehicle, Goto, TypeInv, TypeOK
  <1>2. CallsKnowTrips'
    BY <1>1 DEF CallsKnowTrips, Unfinished, TripExists
  <1>3. \A q \in Request, u \in Trip : Ending(q, u)' => Ending(q, u)
    BY <1>1 DEF Ending
  <1> PICK t \in Trip : t = call[r].trip
    BY <1>1 DEF CallsKnowTrips
  <1>4. /\ Unfinished(t) /\ trips[t].vehicle = call[r].vehicle
        /\ \A q \in Request : ~Ending(q, t)
    BY <1>1 DEF CallsKnowTrips, Ending
  <1>5. ASSUME NEW v \in Vehicle, v = call[r].vehicle PROVE Holds(t, v)'
    BY <1>1, <1>3, <1>4, <1>5 DEF Holds, Unfinished, TripExists
  <1>6. ASSUME NEW v \in Vehicle, v # call[r].vehicle
        PROVE  vehicles'[v] = vehicles[v]
    BY <1>6 DEF MarkVehicle, WriteVehicle, TypeInv, TypeOK
  <1>7. ASSUME NEW v \in Vehicle, NEW u \in Trip, Holds(u, v) PROVE Holds(u, v)'
    BY <1>1, <1>3, <1>7 DEF Holds, Unfinished, TripExists
  <1>8. ASSUME NEW v \in Vehicle, vehicles'[v] = "IN_USE"
        PROVE  \E u \in Trip : Holds(u, v)'
    <2>1. CASE v = call[r].vehicle
      BY <1>5, <2>1
    <2>2. CASE v # call[r].vehicle
      BY <1>6, <1>7, <1>8, <2>2 DEF HeldByLiveTrip
    <2> QED
      BY <2>1, <2>2
  <1> QED
    BY <1>2, <1>8 DEF HeldByLiveTrip

\* The request is past releasing its trip, but its vehicle is AVAILABLE.
LEMMA HeldReleaseVehicle ==
  ASSUME HeldInv, HeldAssumption, NEW r \in Request, ReleaseVehicle(r)
  PROVE  CallsKnowTrips' /\ HeldByLiveTrip'
  <1> USE DEF HeldInv
  <1>1. /\ pc[r] = "release" /\ pc'[r] = "finishTrip" /\ call' = call /\ trips' = trips
        /\ \A q \in Request : q # r => pc'[q] = pc[q]
    BY DEF ReleaseVehicle, Goto, TypeInv, TypeOK
  <1>2. CallsKnowTrips'
    BY <1>1 DEF CallsKnowTrips, Unfinished, TripExists
  <1> DEFINE t == call[r].trip
  <1>3. t \in Trip /\ trips[t].vehicle = call[r].vehicle
    BY <1>1 DEF CallsKnowTrips
  <1>4. ASSUME NEW v \in Vehicle, vehicles'[v] = "IN_USE"
        PROVE  vehicles[v] = "IN_USE" /\ v # call[r].vehicle
    BY <1>4 DEF ReleaseVehicle, WriteVehicle, HeldAssumption, VehicleExists, Gone, TypeInv, TypeOK
  <1>5. ASSUME NEW v \in Vehicle, NEW u \in Trip, Holds(u, v), v # call[r].vehicle
        PROVE  Holds(u, v)'
    BY <1>1, <1>3, <1>5 DEF Holds, Ending, Unfinished, TripExists
  <1> QED
    BY <1>2, <1>4, <1>5 DEF HeldByLiveTrip

\* The trip that is completed or deleted held no vehicle any more.
LEMMA HeldWriteTrip ==
  ASSUME HeldInv, HeldAssumption, NEW r \in Request, SetTripStatus(r) \/ DeleteTripRow(r)
  PROVE  CallsKnowTrips' /\ HeldByLiveTrip'
  <1> USE DEF HeldInv
  <1> DEFINE t == call[r].trip
             s == IF call[r].op = "UpdateTrip" THEN call[r].status ELSE "deleted"
  <1>1. /\ pc[r] = "finishTrip" /\ t \in Trip /\ vehicles' = vehicles
        /\ trips' = IF TripExists(t) THEN [trips EXCEPT ![t].status = s] ELSE trips
    BY DEF SetTripStatus, DeleteTripRow, CallsKnowTrips, WriteTrip, HeldAssumption
  <1>2. s # "new" /\ (s = "COMPLETED" \/ s = "deleted" => Ending(r, t))
    BY <1>1 DEF CallsKnowTrips, Ending, TypeInv, ArgumentsNamed, TripStatus
  <1>3. /\ \A u \in Trip : u # t => trips'[u] = trips[u]
        /\ trips'[t].vehicle = trips[t].vehicle
        /\ trips'[t].status = IF TripExists(t) THEN s ELSE trips[t].status
    BY <1>1 DEF TypeInv, TypeOK, TripRow
  <1>4. /\ pc'[r] = "idle" /\ call'[r].trip = None
        /\ \A q \in Request : q # r => pc'[q] = pc[q] /\ call'[q] = call[q]
    BY DEF SetTripStatus, DeleteTripRow, Answer, Goto, NoCall, TypeInv, TypeOK
  <1>5. \A q \in Request : pc[q] = "markVehicle" => call[q].trip # t
    BY <1>1 DEF CallsKnowTrips
  <1>6. CallsKnowTrips'
    BY <1>1, <1>2, <1>3, <1>4, <1>5, NoneAssumption DEF CallsKnowTrips, Unfinished, TripExists, Gone
  <1>7. \A q \in Request, u \in Trip : Ending(q, u)' => Ending(q, u)
    BY <1>4 DEF Ending
  <1>8. ASSUME NEW v \in Vehicle, NEW u \in Trip, Holds(u, v) PROVE Holds(u, v)'
    <2>1. CASE u # t
      BY <1>3, <1>7, <1>8, <2>1 DEF Holds, Unfinished, TripExists
    <2>2. CASE u = t
      <3>1. s # "COMPLETED" /\ s # "deleted"
        BY <1>2, <1>8, <2>2 DEF Holds
      <3> QED
        BY <1>2, <1>3, <1>7, <1>8, <2>2, <3>1 DEF Holds, Unfinished, TripExists, Gone
    <2> QED
      BY <2>1, <2>2
  <1> QED
    BY <1>1, <1>6, <1>8 DEF HeldByLiveTrip

\* A trip is addressed only when no create is under way with it.
LEMMA HeldStartFinish ==
  ASSUME HeldInv, HeldAssumption, NEW r \in Request, NEW t \in Trip, NEW s,
         StartUpdateTrip(r, t, s) \/ StartDeleteTrip(r, t)
  PROVE  CallsKnowTrips' /\ HeldByLiveTrip'
  <1> USE DEF HeldInv
  <1> DEFINE op == call'[r].op
  <1>1. /\ TripExists(t) /\ UNCHANGED <<vehicles, trips>>
        /\ \A q \in Request : call[q].op = "CreateTrip" => call[q].trip # t
        /\ \A q \in Request : q # r => pc'[q] = pc[q] /\ call'[q] = call[q]
    BY DEF StartUpdateTrip, StartDeleteTrip, TripAddressable, HeldAssumption, Goto, TypeInv, TypeOK
  <1>2. CASE StartUpdateTrip(r, t, s)
    <2>1. /\ call'[r] = FinishCall("UpdateTrip", t, s)
          /\ pc'[r] = IF s = "COMPLETED" THEN "release" ELSE "finishTrip"
      BY <1>2 DEF StartUpdateTrip, Goto, TypeInv, TypeOK
    <2>2. /\ call'[r].trip = t /\ call'[r].vehicle = trips[t].vehicle
          /\ call'[r].op = "UpdateTrip" /\ call'[r].status = s
      BY <2>1 DEF FinishCall, NoCall
    <2>3. CallsKnowTrips'
      BY <1>1, <2>1, <2>2 DEF CallsKnowTrips, Unfinished, TripExists, Gone
    <2>4. \A q \in Request, u \in Trip : Ending(q, u)' => Ending(q, u)
      BY <1>1, <2>1, <2>2 DEF Ending
    <2> QED
      BY <1>1, <2>3, <2>4, HeldFrame
  <1>3. CASE StartDeleteTrip(r, t)
    <2>1. /\ call'[r] = FinishCall("DeleteTrip", t, "none")
          /\ pc'[r] = IF trips[t].status # "COMPLETED" THEN "release" ELSE "finishTrip"
      BY <1>3 DEF StartDeleteTrip, Goto, TypeInv, TypeOK
    <2>2. /\ call'[r].trip = t /\ call'[r].vehicle = trips[t].vehicle
          /\ call'[r].op = "DeleteTrip"
      BY <2>1 DEF FinishCall, NoCall
    <2>3. CallsKnowTrips'
      BY <1>1, <2>1, <2>2 DEF CallsKnowTrips, Unfinished, TripExists, Gone
    <2>4. \A q \in Request, u \in Trip : Ending(q, u)' => Ending(q, u) \/ ~Unfinished(u)
      BY <1>1, <2>1, <2>2 DEF Ending, Unfinished
    <2> QED
      BY <1>1, <2>3, <2>4, HeldFrame
  <1> QED
    BY <1>2, <1>3

\* What an answered request leaves behind, and the restarts.
LEMMA HeldAnswer ==
  ASSUME HeldInv, UNCHANGED <<trips, vehicles>>, NEW r \in Request, Answer(r)
  PROVE  CallsKnowTrips' /\ HeldByLiveTrip'
  <1>1. /\ pc'[r] = "idle" /\ call'[r] = NoCall
        /\ \A q \in Request : q # r => pc'[q] = pc[q] /\ call'[q] = call[q]
    BY DEF Answer, Goto, HeldInv, TypeInv, TypeOK
  <1>2. NoCall.trip = None
    BY DEF NoCall
  <1> QED
    BY <1>1, <1>2, HeldQuiet

LEMMA HeldArrival ==
  ASSUME HeldInv, HeldAssumption, NEW r \in Request, Arrival(r)
  PROVE  CallsKnowTrips' /\ HeldByLiveTrip'
  <1>1. CASE \E v \in Vehicle, d \in Volunteer, x \in DriverIdAsText : StartCreateTrip(r, v, d, x)
    <2> PICK v \in Vehicle, d \in Volunteer, x \in DriverIdAsText : StartCreateTrip(r, v, d, x)
      BY <1>1
    <2>1. /\ call'[r].trip = None /\ call'[r].op = "CreateTrip" /\ pc'[r] = "getDriver"
          /\ \A q \in Request : q # r => pc'[q] = pc[q] /\ call'[q] = call[q]
          /\ UNCHANGED <<trips, vehicles>>
      BY DEF StartCreateTrip, Goto, NoCall, HeldInv, TypeInv, TypeOK
    <2> QED
      BY <2>1, HeldQuiet
  <1>2. CASE \E t \in Trip, s \in PutTripStatus : StartUpdateTrip(r, t, s)
    BY <1>2, HeldStartFinish
  <1>3. CASE \E t \in Trip : StartDeleteTrip(r, t)
    BY <1>3, HeldStartFinish
  <1>4. CASE \E d \in Volunteer, s \in StaffStatus \cup {"keep"}, ro \in Role \cup {"keep"} :
                StartUpdateVolunteer(r, d, s, ro)
    BY <1>4, HeldQuiet DEF StartUpdateVolunteer
  <1>5. CASE \E d \in Volunteer, i \in Incident : StartAssign(r, d, i)
    <2> PICK d \in Volunteer, i \in Incident : StartAssign(r, d, i)
      BY <1>5
    <2>1. /\ call'[r].trip = None /\ pc'[r] = "getIncident"
          /\ \A q \in Request : q # r => pc'[q] = pc[q] /\ call'[q] = call[q]
          /\ UNCHANGED <<trips, vehicles>>
      BY DEF StartAssign, Goto, NoCall, HeldInv, TypeInv, TypeOK
    <2> QED
      BY <2>1, HeldQuiet
  <1> QED
    BY <1>1, <1>2, <1>3, <1>4, <1>5 DEF Arrival

\* The checks of create_trip and Assign move on without naming a trip.
LEMMA HeldCheck ==
  ASSUME HeldInv, NEW r \in Request, UNCHANGED <<trips, vehicles, call>>,
         \/ pc[r] = "getDriver" /\ Goto(r, "getCargo")
         \/ pc[r] = "getIncident" /\ Goto(r, "getTrips")
         \/ pc[r] = "getTrips" /\ Goto(r, "writeAssign")
  PROVE  CallsKnowTrips' /\ HeldByLiveTrip'
  <1>1. /\ pc'[r] \in {"getCargo", "getTrips", "writeAssign"}
        /\ pc'[r] = "getCargo" => pc[r] = "getDriver"
        /\ \A q \in Request : q # r => pc'[q] = pc[q]
    BY DEF Goto, HeldInv, TypeInv, TypeOK
  <1>2. CallsKnowTrips'
    BY <1>1 DEF HeldInv, CallsKnowTrips, Unfinished, TripExists
  <1>3. \A q \in Request, t \in Trip : Ending(q, t)' => Ending(q, t)
    BY <1>1 DEF Ending
  <1> QED
    BY <1>2, <1>3, HeldFrame DEF HeldInv

LEMMA HeldHandler ==
  ASSUME HeldInv, HeldAssumption, NEW r \in Request,
         HandlerStep(r) \/ PutStep(r) \/ DropPut(r)
  PROVE  CallsKnowTrips' /\ HeldByLiveTrip'
  <1>1. CASE CheckDriver(r) \/ CheckIncident(r) \/ CheckTrips(r)
    BY <1>1, HeldAnswer, HeldCheck DEF CheckDriver, CheckIncident, CheckTrips, EndAssign
  <1>2. CASE RefuseTrip(r) \/ FinishCreateTrip(r) \/ WriteAssign(r)
    BY <1>2, HeldAnswer DEF RefuseTrip, FinishCreateTrip, WriteAssign, EndAssign
  <1>3. CASE \E t \in Trip : InsertTrip(r, t)
    BY <1>3, HeldInsertTrip
  <1>4. CASE MarkVehicle(r)
    BY <1>4, HeldMarkVehicle
  <1>5. CASE ReleaseVehicle(r)
    BY <1>5, HeldReleaseVehicle
  <1>6. CASE SetTripStatus(r) \/ DeleteTripRow(r)
    BY <1>6, HeldWriteTrip
  <1>7. CASE PutStep(r) \/ DropPut(r)
    BY <1>7, HeldQuiet DEF PutStep, ReadVolunteer, UpdateVolunteer, DropPut
  <1> QED
    BY <1>1, <1>2, <1>3, <1>4, <1>5, <1>6, <1>7
       DEF HandlerStep, CreateTripStep, FinishTripStep, AssignStep

LEMMA HeldOutside ==
  ASSUME HeldInv, HeldAssumption, Console \/ Environment
  PROVE  CallsKnowTrips' /\ HeldByLiveTrip'
  <1> USE DEF HeldInv
  <1>1. ASSUME UNCHANGED <<trips, pc, call>>,
               \A v \in Vehicle : vehicles'[v] = "IN_USE" => vehicles[v] = "IN_USE"
        PROVE  CallsKnowTrips' /\ HeldByLiveTrip'
    <2>1. CallsKnowTrips'
      BY <1>1 DEF CallsKnowTrips, Unfinished, TripExists
    <2> QED
      BY <1>1, <2>1, HeldFrame DEF Ending
  <1>2. ASSUME NEW dead \in SUBSET Request,
               UNCHANGED trips,
               \A v \in Vehicle : vehicles'[v] = "IN_USE" => vehicles[v] = "IN_USE",
               pc' = [r \in Request |-> IF r \in dead THEN "idle" ELSE pc[r]],
               call' = [r \in Request |-> IF r \in dead THEN NoCall ELSE call[r]]
        PROVE  CallsKnowTrips' /\ HeldByLiveTrip'
    <2>1. NoCall.trip = None
      BY DEF NoCall
    <2>2. CallsKnowTrips'
      BY <1>2, <2>1, NoneAssumption DEF CallsKnowTrips, Unfinished, TripExists
    <2> QED
      BY <1>2, <2>2, HeldFrame DEF Ending
  <1>3. CASE Console
    <2>1. CASE \E v \in Vehicle : CreateVehicle(v) \/ DeleteVehicle(v)
      BY <1>1, <2>1 DEF CreateVehicle, DeleteVehicle, TypeInv, TypeOK
    <2>2. CASE \E v \in Vehicle, s \in ConsoleStatus : UpdateVehicle(v, s)
      BY <1>1, <2>2 DEF UpdateVehicle, HeldAssumption, TypeInv, TypeOK
    <2>3. CASE \/ \E d \in Volunteer : DeleteVolunteer(d)
               \/ \E d \in Volunteer, ro \in Role : CreateVolunteer(d, ro)
      BY <1>1, <2>3 DEF DeleteVolunteer, CreateVolunteer
    <2> QED
      BY <1>3, <2>1, <2>2, <2>3 DEF Console
  <1>4. CASE \E i \in Incident, s \in IncidentStatus \cup {"deleted"} : SetIncident(i, s)
    BY <1>1, <1>4 DEF SetIncident
  <1>5. CASE RestartFleet
    BY <1>2, <1>5 DEF RestartFleet
  <1>6. CASE RestartVolunteer
    BY <1>2, <1>6 DEF RestartVolunteer
  <1> QED
    BY <1>3, <1>4, <1>5, <1>6 DEF Environment

LEMMA HeldNext == HeldAssumption /\ HeldInv /\ [Next]_vars => HeldInv'
  <1> SUFFICES ASSUME HeldAssumption, HeldInv, [Next]_vars PROVE HeldInv'
    OBVIOUS
  <1>1. TypeInv'
    BY TypeNext DEF HeldInv
  <1>2. CallsKnowTrips' /\ HeldByLiveTrip'
    <2>1. CASE UNCHANGED vars
      BY <2>1 DEF vars, HeldInv, CallsKnowTrips, HeldByLiveTrip, Holds, Ending, Unfinished, TripExists
    <2>2. ASSUME NEW r \in Request, Arrival(r) \/ HandlerStep(r) \/ PutStep(r) \/ DropPut(r)
          PROVE  CallsKnowTrips' /\ HeldByLiveTrip'
      BY <2>2, HeldArrival, HeldHandler
    <2> QED
      BY <2>1, <2>2, HeldOutside DEF Next
  <1> QED
    BY <1>1, <1>2 DEF HeldInv

\* No vehicle stays IN_USE without an unfinished trip, whatever the interleaving
\* and the restarts, if clients wait for a trip's 201 before they address it, if
\* no vehicle write is lost, and if the console does not write IN_USE itself.
THEOREM HeldVehicleTheorem == HeldAssumption => (Spec => []HeldVehicle)
  <1>1. HeldInv => HeldVehicle
    BY DEF HeldInv, HeldByLiveTrip, HeldVehicle, Holds
  <1>2. HeldAssumption /\ HeldInv /\ [Next]_vars => HeldInv'
    BY HeldNext
  <1>3. ASSUME HeldAssumption PROVE HeldInv /\ [Next]_vars => HeldInv'
    BY <1>2, <1>3
  <1>4. ASSUME HeldAssumption PROVE Spec => []HeldVehicle
    BY <1>1, <1>3, <1>4, HeldInit, PTL DEF Spec
  <1> QED
    BY <1>4

-----------------------------------------------------------------------------
(* BusyNamesIncident.  The writers of a volunteer's row write copies, so    *)
(* the copies have to satisfy it as well.                                   *)

Linked(v) == v.status = "BUSY" => v.incident # None

BusyInv ==
  /\ TypeInv
  /\ \A d \in Volunteer : Linked(volunteers[d])
  /\ \A r \in Request :
        /\ Linked(row[r])
        /\ put[r].status # "BUSY"
        /\ pc[r] \in {"getIncident", "getTrips", "writeAssign"} =>
              call[r].incident \in Incident

LEMMA BusyInit == Init => BusyInv
  BY TypeInit DEF Init, BusyInv, Linked, NewVolunteer, NoPut

\* A whole-row update from a linked copy leaves every row linked.
LEMMA BusyWrite ==
  ASSUME BusyInv, NEW d, NEW new \in VolunteerRow, Linked(new), WriteVolunteer(d, new)
  PROVE  \A e \in Volunteer : Linked(volunteers'[e])
  BY DEF WriteVolunteer, BusyInv, TypeInv, TypeOK

LEMMA BusyFleet ==
  ASSUME BusyInv, NEW r \in Request,
         \/ CreateTripStep(r) \/ FinishTripStep(r)
         \/ \E v \in Vehicle, d \in Volunteer, x \in DriverIdAsText : StartCreateTrip(r, v, d, x)
         \/ \E t \in Trip, s \in PutTripStatus : StartUpdateTrip(r, t, s)
         \/ \E t \in Trip : StartDeleteTrip(r, t),
         TypeInv'
  PROVE  BusyInv'
  <1>1. UNCHANGED <<volunteers, row>>
    BY DEF CreateTripStep, FinishTripStep, CheckDriver, RefuseTrip, MarkVehicle, FinishCreateTrip,
       InsertTrip, ReleaseVehicle, SetTripStatus, DeleteTripRow, StartCreateTrip,
       StartUpdateTrip, StartDeleteTrip
  <1>2. \A q \in Request : put'[q].status # "BUSY"
    <2>1. CASE MarkVehicle(r) \/ ReleaseVehicle(r)
      BY <2>1 DEF MarkVehicle, ReleaseVehicle, SendPut, BusyInv, TypeInv, TypeOK
    <2>2. CASE ~(MarkVehicle(r) \/ ReleaseVehicle(r))
      <3>1. UNCHANGED put
        BY <2>2 DEF CreateTripStep, FinishTripStep, CheckDriver, RefuseTrip, FinishCreateTrip,
           InsertTrip, SetTripStatus, DeleteTripRow, StartCreateTrip, StartUpdateTrip, StartDeleteTrip
      <3> QED
        BY <3>1 DEF BusyInv
    <2> QED
      BY <2>1, <2>2
  <1>3. /\ pc'[r] \notin {"getIncident", "getTrips", "writeAssign"}
        /\ \A q \in Request : q # r => pc'[q] = pc[q] /\ call'[q] = call[q]
    BY DEF CreateTripStep, FinishTripStep, CheckDriver, RefuseTrip, MarkVehicle, FinishCreateTrip,
       InsertTrip, ReleaseVehicle, SetTripStatus, DeleteTripRow, StartCreateTrip,
       StartUpdateTrip, StartDeleteTrip, Goto, Answer, BusyInv, TypeInv, TypeOK
  <1> QED
    BY <1>1, <1>2, <1>3 DEF BusyInv

LEMMA BusyAssign ==
  ASSUME BusyInv, NEW r \in Request,
         AssignStep(r) \/ \E d \in Volunteer, i \in Incident : StartAssign(r, d, i),
         TypeInv'
  PROVE  BusyInv'
  <1> USE DEF BusyInv, TypeInv, TypeOK
  <1>1. Linked(NewVolunteer)
    BY DEF Linked, NewVolunteer
  <1>2. ASSUME EndAssign(r), UNCHANGED put,
               \A d \in Volunteer : Linked(volunteers'[d])
        PROVE  BusyInv'
    BY <1>1, <1>2 DEF EndAssign, Answer, Goto
  <1>3. CASE CheckIncident(r)
    BY <1>2, <1>3 DEF CheckIncident, Goto
  <1>4. CASE CheckTrips(r)
    BY <1>2, <1>4 DEF CheckTrips, Goto
  <1>5. CASE WriteAssign(r)
    <2>1. call[r].incident \in Incident /\ call[r].incident # None
      BY <1>5, NoneAssumption DEF WriteAssign
    <2>2. /\ [row[r] EXCEPT !.status = "BUSY", !.incident = call[r].incident] \in VolunteerRow
          /\ Linked([row[r] EXCEPT !.status = "BUSY", !.incident = call[r].incident])
      BY <2>1 DEF VolunteerRow, VolunteerStatus, Linked
    <2>3. \A d \in Volunteer : Linked(volunteers'[d])
      BY <1>5, <2>2, BusyWrite DEF WriteAssign
    <2> QED
      BY <1>2, <1>5, <2>3 DEF WriteAssign
  <1>6. CASE \E d \in Volunteer, i \in Incident : StartAssign(r, d, i)
    <2> PICK d \in Volunteer, i \in Incident : StartAssign(r, d, i)
      BY <1>6
    <2>1. /\ call'[r].incident = i /\ row'[r] = volunteers[d]
          /\ \A q \in Request : q # r => pc'[q] = pc[q] /\ call'[q] = call[q] /\ row'[q] = row[q]
          /\ UNCHANGED <<volunteers, put>>
      BY DEF StartAssign, Goto, NoCall
    <2> QED
      BY <2>1
  <1> QED
    BY <1>3, <1>4, <1>5, <1>6 DEF AssignStep

LEMMA BusyPut ==
  ASSUME BusyInv, "BUSY" \notin StaffStatus, NEW r \in Request,
         \/ PutStep(r) \/ DropPut(r)
         \/ \E d \in Volunteer, s \in StaffStatus \cup {"keep"}, ro \in Role \cup {"keep"} :
               StartUpdateVolunteer(r, d, s, ro),
         TypeInv'
  PROVE  BusyInv'
  <1> USE DEF BusyInv, TypeInv, TypeOK
  <1>1. Linked(NewVolunteer) /\ NoPut.status # "BUSY"
    BY DEF Linked, NewVolunteer, NoPut
  <1>2. CASE ReadVolunteer(r)
    <2>1. UNCHANGED <<volunteers, pc, call>>
      BY <1>2 DEF ReadVolunteer
    <2>2. \A q \in Request : put'[q].status # "BUSY"
      BY <1>1, <1>2 DEF ReadVolunteer, Put
    <2>3. \A q \in Request : Linked(row'[q])
      BY <1>2 DEF ReadVolunteer, ArgumentsNamed
    <2> QED
      BY <2>1, <2>2, <2>3
  <1>3. CASE UpdateVolunteer(r)
    <2>1. WithFields(row[r], put[r]) \in VolunteerRow /\ Linked(WithFields(row[r], put[r]))
      BY DEF WithFields, VolunteerRow, Put, Linked
    <2>2. \A d \in Volunteer : Linked(volunteers'[d])
      BY <1>3, <2>1, BusyWrite DEF UpdateVolunteer
    <2> QED
      BY <1>1, <1>3, <2>2 DEF UpdateVolunteer
  <1>4. CASE DropPut(r)
    BY <1>1, <1>4 DEF DropPut
  <1>5. CASE \E d \in Volunteer, s \in StaffStatus \cup {"keep"}, ro \in Role \cup {"keep"} :
                StartUpdateVolunteer(r, d, s, ro)
    BY <1>5 DEF StartUpdateVolunteer, SendPut
  <1> QED
    BY <1>2, <1>3, <1>4, <1>5 DEF PutStep

LEMMA BusyOutside ==
  ASSUME BusyInv, Console \/ Environment, TypeInv'
  PROVE  BusyInv'
  <1> USE DEF BusyInv, TypeInv, TypeOK
  <1>1. CASE Console
    <2>1. UNCHANGED <<pc, call, put, row>>
      BY <1>1 DEF Console, CreateVehicle, UpdateVehicle, DeleteVehicle, CreateVolunteer, DeleteVolunteer
    <2>2. CASE UNCHANGED volunteers
      BY <2>1, <2>2
    <2>3. CASE \E d \in Volunteer : DeleteVolunteer(d)
      BY <2>1, <2>3 DEF DeleteVolunteer, VolunteerRow, Linked
    <2>4. CASE \E d \in Volunteer, ro \in Role : CreateVolunteer(d, ro)
      BY <2>1, <2>4 DEF CreateVolunteer, Linked
    <2> QED
      BY <1>1, <2>2, <2>3, <2>4 DEF Console, CreateVehicle, UpdateVehicle, DeleteVehicle
  <1>2. CASE \E i \in Incident, s \in IncidentStatus \cup {"deleted"} : SetIncident(i, s)
    BY <1>2 DEF SetIncident
  <1>3. CASE RestartFleet
    BY <1>3 DEF RestartFleet
  <1>4. CASE RestartVolunteer
    BY <1>4 DEF RestartVolunteer, Linked, NewVolunteer, NoPut
  <1> QED
    BY <1>1, <1>2, <1>3, <1>4 DEF Environment

LEMMA BusyNext == "BUSY" \notin StaffStatus /\ BusyInv /\ [Next]_vars => BusyInv'
  <1> SUFFICES ASSUME "BUSY" \notin StaffStatus, BusyInv, [Next]_vars PROVE BusyInv'
    OBVIOUS
  <1>1. TypeInv'
    BY TypeNext DEF BusyInv
  <1>2. CASE UNCHANGED vars
    BY <1>1, <1>2 DEF vars, BusyInv
  <1>3. ASSUME NEW r \in Request, Arrival(r) \/ HandlerStep(r) \/ PutStep(r) \/ DropPut(r)
        PROVE  BusyInv'
    BY <1>1, <1>3, BusyFleet, BusyAssign, BusyPut DEF Arrival, HandlerStep
  <1> QED
    BY <1>1, <1>2, <1>3, BusyOutside DEF Next

\* A BUSY volunteer names its incident, although every update of a volunteer
\* writes back a row it read earlier, if no client writes the text BUSY itself.
THEOREM BusyNamesIncidentTheorem ==
  "BUSY" \notin StaffStatus => (Spec => []BusyNamesIncident)
  <1>1. BusyInv => BusyNamesIncident
    BY DEF BusyInv, BusyNamesIncident, Linked
  <1>2. ASSUME "BUSY" \notin StaffStatus PROVE BusyInv /\ [Next]_vars => BusyInv'
    BY <1>2, BusyNext
  <1>3. ASSUME "BUSY" \notin StaffStatus PROVE Spec => []BusyNamesIncident
    BY <1>1, <1>2, <1>3, BusyInit, PTL DEF Spec
  <1> QED
    BY <1>3

-----------------------------------------------------------------------------
(* NoResurrection: every write looks whether its row is there.             *)

StayDeleted ==
  /\ \A v \in Vehicle : vehicles[v] = "deleted" => vehicles'[v] = "deleted"
  /\ \A t \in Trip : trips[t].status = "deleted" => trips'[t].status = "deleted"
  /\ \A d \in Volunteer :
        volunteers[d].status = "deleted" => volunteers'[d].status = "deleted"

LEMMA WritesStayDeleted ==
  ASSUME TypeOK
  PROVE  /\ \A v, s : WriteVehicle(v, s) =>
               \A w \in Vehicle : vehicles[w] = "deleted" => vehicles'[w] = "deleted"
         /\ \A t, s : WriteTrip(t, s) =>
               \A u \in Trip : trips[u].status = "deleted" => trips'[u].status = "deleted"
         /\ \A d, new : WriteVolunteer(d, new) =>
               \A e \in Volunteer :
                  volunteers[e].status = "deleted" => volunteers'[e].status = "deleted"
  <1>1. ASSUME NEW v, NEW s, WriteVehicle(v, s), NEW w \in Vehicle, vehicles[w] = "deleted"
        PROVE  vehicles'[w] = "deleted"
    BY <1>1 DEF WriteVehicle, VehicleExists, Gone, TypeOK
  <1>2. ASSUME NEW t, NEW s, WriteTrip(t, s), NEW u \in Trip, trips[u].status = "deleted"
        PROVE  trips'[u].status = "deleted"
    BY <1>2 DEF WriteTrip, TripExists, Gone, TypeOK
  <1>3. ASSUME NEW d, NEW new, WriteVolunteer(d, new), NEW e \in Volunteer,
               volunteers[e].status = "deleted"
        PROVE  volunteers'[e].status = "deleted"
    BY <1>3 DEF WriteVolunteer, VolunteerExists, Gone, TypeOK
  <1> QED
    BY <1>1, <1>2, <1>3

LEMMA RequestStaysDeleted ==
  ASSUME TypeOK, NEW r \in Request, Arrival(r) \/ HandlerStep(r) \/ PutStep(r) \/ DropPut(r)
  PROVE  StayDeleted
  <1> USE DEF StayDeleted
  <1>1. CASE CreateTripStep(r)
    <2>1. CASE MarkVehicle(r)
      BY <2>1, WritesStayDeleted DEF MarkVehicle
    <2>2. CASE \E t \in Trip : InsertTrip(r, t)
      BY <2>2 DEF InsertTrip, TypeOK
    <2> QED
      BY <1>1, <2>1, <2>2 DEF CreateTripStep, CheckDriver, RefuseTrip, FinishCreateTrip
  <1>2. CASE FinishTripStep(r)
    BY <1>2, WritesStayDeleted DEF FinishTripStep, ReleaseVehicle, SetTripStatus, DeleteTripRow
  <1>3. CASE AssignStep(r)
    BY <1>3, WritesStayDeleted DEF AssignStep, CheckIncident, CheckTrips, WriteAssign
  <1>4. CASE PutStep(r) \/ DropPut(r)
    BY <1>4, WritesStayDeleted DEF PutStep, ReadVolunteer, UpdateVolunteer, DropPut
  <1>5. CASE Arrival(r)
    BY <1>5 DEF Arrival, StartCreateTrip, StartUpdateTrip, StartDeleteTrip,
                StartUpdateVolunteer, StartAssign
  <1> QED
    BY <1>1, <1>2, <1>3, <1>4, <1>5 DEF HandlerStep

LEMMA OthersStayDeleted ==
  ASSUME TypeOK, Console \/ Environment
  PROVE  StayDeleted
  <1> USE DEF StayDeleted
  <1>1. CASE \E v \in Vehicle : CreateVehicle(v) \/ DeleteVehicle(v)
    BY <1>1 DEF CreateVehicle, DeleteVehicle, TypeOK
  <1>2. CASE \E v \in Vehicle, s \in ConsoleStatus : UpdateVehicle(v, s)
    BY <1>2 DEF UpdateVehicle, VehicleExists, Gone, TypeOK
  <1>3. CASE \E d \in Volunteer : DeleteVolunteer(d)
    BY <1>3 DEF DeleteVolunteer, VolunteerExists, Gone, TypeOK, VolunteerRow
  <1>4. CASE \E d \in Volunteer, ro \in Role : CreateVolunteer(d, ro)
    BY <1>4 DEF CreateVolunteer, TypeOK
  <1>5. CASE Environment
    BY <1>5 DEF Environment, SetIncident, RestartVolunteer, RestartFleet, Reseeded,
                VehicleExists, Gone
  <1> QED
    BY <1>1, <1>2, <1>3, <1>4, <1>5 DEF Console

\* What was deleted stays deleted, whatever overlaps, is late or restarts.
THEOREM NoResurrectionTheorem == Spec => NoResurrection
  <1>1. TypeOK /\ [Next]_vars => [StayDeleted]_vars
    BY RequestStaysDeleted, OthersStayDeleted DEF Next
  <1>2. Spec => [][StayDeleted]_vars
    BY <1>1, TypeCorrect, PTL DEF Spec
  <1> QED
    BY <1>2 DEF NoResurrection, StayDeleted

-----------------------------------------------------------------------------
(* Vehicles whose requests come one after the other.  Then what create_trip *)
(* has seen of the vehicle is still so when it inserts the trip, and a      *)
(* release frees a vehicle that no other trip is on.  Requests about other  *)
(* vehicles, and everything about volunteers, may overlap.                  *)

\* What the clients, the console and the database must not do.
VehicleAssumption ==
  /\ "vehicle_alone" \in Discipline /\ "finish_once" \in Discipline
  /\ "mongo" \notin Faults /\ "restart" \notin Faults
  /\ "AVAILABLE" \notin ConsoleStatus

VehiclesAlone ==
  \A r, q \in Request : r # q /\ call[r].vehicle \in Vehicle => call[q].vehicle # call[r].vehicle

\* Trips, and requests that will insert one, name a vehicle that was created.
VehiclesNamed ==
  /\ \A t \in Trip : trips[t].status # "new" =>
        trips[t].vehicle \in Vehicle /\ vehicles[trips[t].vehicle] # "new"
  /\ \A r \in Request : pc[r] \in {"getDriver", "getCargo", "markVehicle"} =>
        call[r].vehicle \in Vehicle /\ vehicles[call[r].vehicle] # "new"

\* A request that writes a vehicle or a trip's status does so for its own trip.
OwnTrip(r) ==
  /\ call[r].trip \in Trip /\ trips[call[r].trip].status # "new"
  /\ call[r].vehicle = trips[call[r].trip].vehicle

CallsOwnTrip ==
  \A r \in Request :
     /\ pc[r] \in {"markVehicle", "release", "finishTrip"} => OwnTrip(r)
     /\ pc[r] \in {"markVehicle", "release"} => Unfinished(call[r].trip)
     /\ pc[r] = "release" =>
           \/ call[r].op = "DeleteTrip"
           \/ call[r].op = "UpdateTrip" /\ call[r].status = "COMPLETED"
     /\ pc[r] = "finishTrip" /\ call[r].op = "UpdateTrip" => Unfinished(call[r].trip)

\* The vehicle that a create_trip has found AVAILABLE is on no unfinished trip.
BookedFree ==
  \A r \in Request : pc[r] \in {"getDriver", "getCargo"} =>
     \A t \in Trip : Unfinished(t) => trips[t].vehicle # call[r].vehicle

\* r has written one of the trip and its vehicle, and will write the other.
Between(r, t) == (pc[r] = "markVehicle" /\ call[r].trip = t) \/ Ending(r, t)

OffersFree ==
  \A t \in Trip : Unfinished(t) /\ (\A r \in Request : ~Between(r, t)) =>
     vehicles[trips[t].vehicle] # "AVAILABLE"

BookInv ==
  /\ TypeInv /\ VehiclesAlone /\ VehiclesNamed /\ CallsOwnTrip
  /\ BookedFree /\ OffersFree /\ NoDoubleBooking

LEMMA BookInit == Init => BookInv
  <1> SUFFICES ASSUME Init PROVE BookInv
    OBVIOUS
  <1>1. /\ \A r \in Request : pc[r] = "idle" /\ call[r].vehicle \notin Vehicle
        /\ \A t \in Trip : trips[t].status = "new" /\ ~Unfinished(t)
    BY NoneAssumption DEF Init, NewTrip, NoCall, Unfinished, TripExists, Gone
  <1> QED
    BY <1>1, TypeInit DEF BookInv, VehiclesAlone, VehiclesNamed, CallsOwnTrip, BookedFree,
                          OffersFree, NoDoubleBooking

\* Two requests that are about to write a trip write different ones.
LEMMA OwnTripsDiffer ==
  ASSUME BookInv, NEW r \in Request, NEW q \in Request, r # q, OwnTrip(r), OwnTrip(q)
  PROVE  call[r].trip # call[q].trip
  BY DEF BookInv, VehiclesAlone, VehiclesNamed, OwnTrip

\* A request between its two writes knows the vehicle of its trip.
LEMMA BetweenNames ==
  ASSUME BookInv, NEW r \in Request, NEW t \in Trip, Between(r, t)
  PROVE  OwnTrip(r) /\ call[r].trip = t /\ call[r].vehicle = trips[t].vehicle
  BY DEF BookInv, CallsOwnTrip, Between, Ending, OwnTrip

\* Who may send a request about v finds nobody between two writes for it.
LEMMA QuietOffers ==
  ASSUME BookInv, NEW v \in Vehicle, VehicleQuiet(v), vehicles[v] = "AVAILABLE",
         NEW t \in Trip, Unfinished(t)
  PROVE  trips[t].vehicle # v
  BY BetweenNames DEF BookInv, OffersFree, VehicleQuiet

\* A request that touches neither trips nor vehicles, and neither begins nor ends
\* the time between their two writes.
LEMMA BookQuiet ==
  ASSUME BookInv, TypeInv', UNCHANGED <<trips, vehicles>>, NEW r \in Request,
         \A q \in Request \ {r} : pc'[q] = pc[q] /\ call'[q] = call[q],
         \/ pc'[r] = pc[r] /\ call'[r] = call[r]
         \/ pc[r] = "getDriver" /\ pc'[r] = "getCargo" /\ call'[r] = call[r]
         \/ /\ pc[r] \notin {"markVehicle", "finishTrip"}
            /\ pc'[r] \in {"idle", "getIncident", "getTrips", "writeAssign"}
            /\ call'[r].vehicle \in {call[r].vehicle, None}
  PROVE  BookInv'
  <1> USE DEF BookInv
  <1>0. \A t \in Trip : Unfinished(t)' <=> Unfinished(t)
    BY DEF Unfinished, TripExists
  <1>1. VehiclesAlone'
    BY NoneAssumption DEF VehiclesAlone
  <1>2. VehiclesNamed'
    BY DEF VehiclesNamed
  <1>3. CallsOwnTrip'
    BY <1>0 DEF CallsOwnTrip, OwnTrip
  <1>4. BookedFree'
    BY <1>0 DEF BookedFree
  <1>5. \A q \in Request, t \in Trip : Between(q, t) => Between(q, t)'
    BY DEF Between, Ending
  <1>6. OffersFree'
    BY <1>0, <1>5 DEF OffersFree
  <1>7. NoDoubleBooking'
    BY <1>0 DEF NoDoubleBooking
  <1> QED
    BY <1>1, <1>2, <1>3, <1>4, <1>6, <1>7

LEMMA BookStartCreate ==
  ASSUME VehicleAssumption, BookInv, TypeInv', NEW r \in Request, NEW v \in Vehicle,
         NEW d \in Volunteer, NEW x, StartCreateTrip(r, v, d, x)
  PROVE  BookInv'
  <1> USE DEF BookInv
  <1>1. /\ vehicles[v] = "AVAILABLE" /\ pc[r] = "idle" /\ pc'[r] = "getDriver"
        /\ \A q \in Request \ {r} : pc'[q] = pc[q] /\ call'[q] = call[q]
        /\ UNCHANGED <<trips, vehicles>> /\ VehicleQuiet(v)
    BY DEF StartCreateTrip, Goto, Free, MayUseVehicle, VehicleAssumption, TypeInv, TypeOK
  <1>2. call'[r].vehicle = v
    BY DEF StartCreateTrip, TypeInv, TypeOK, NoCall
  <1>3. \A t \in Trip : Unfinished(t) => trips[t].vehicle # v
    BY <1>1, QuietOffers
  <1>4. \A q \in Request, t \in Trip : Between(q, t)' <=> Between(q, t)
    BY <1>1 DEF Between, Ending
  <1>5. \A t \in Trip : Unfinished(t)' <=> Unfinished(t)
    BY <1>1 DEF Unfinished, TripExists
  <1>6. VehiclesAlone'
    BY <1>1, <1>2 DEF VehiclesAlone, VehicleQuiet
  <1>7. VehiclesNamed'
    BY <1>1, <1>2 DEF VehiclesNamed
  <1>8. CallsOwnTrip'
    BY <1>1, <1>5 DEF CallsOwnTrip, OwnTrip
  <1>9. BookedFree'
    BY <1>1, <1>2, <1>3, <1>5 DEF BookedFree
  <1>10. OffersFree'
    BY <1>1, <1>4, <1>5 DEF OffersFree
  <1>11. NoDoubleBooking'
    BY <1>1, <1>5 DEF NoDoubleBooking
  <1> QED
    BY <1>6, <1>7, <1>8, <1>9, <1>10, <1>11

\* The insert: trip t, of the vehicle that r has found free.
LEMMA InsertFacts ==
  ASSUME BookInv, NEW r \in Request, NEW t \in Trip, InsertTrip(r, t)
  PROVE  /\ pc[r] = "getCargo" /\ pc'[r] = "markVehicle" /\ trips[t].status = "new"
         /\ \A q \in Request \ {r} : pc'[q] = pc[q] /\ call'[q] = call[q]
         /\ vehicles' = vehicles
         /\ call'[r].trip = t /\ call'[r].vehicle = call[r].vehicle
         /\ call[r].vehicle \in Vehicle /\ vehicles[call[r].vehicle] # "new"
         /\ trips'[t].status = "SCHEDULED" /\ trips'[t].vehicle = call[r].vehicle
         /\ \A u \in Trip \ {t} : trips'[u] = trips[u]
         /\ Unfinished(t)' /\ \A u \in Trip \ {t} : Unfinished(u)' <=> Unfinished(u)
         /\ \A u \in Trip : Unfinished(u) => trips[u].vehicle # call[r].vehicle
  <1> USE DEF BookInv
  <1>1. /\ pc[r] = "getCargo" /\ pc'[r] = "markVehicle" /\ trips[t].status = "new"
        /\ \A q \in Request \ {r} : pc'[q] = pc[q] /\ call'[q] = call[q]
        /\ vehicles' = vehicles
    BY DEF InsertTrip, Goto, TypeInv, TypeOK
  <1>2. call'[r].trip = t /\ call'[r].vehicle = call[r].vehicle
    BY DEF InsertTrip, TypeInv, TypeOK, Call
  <1>3. /\ trips'[t].status = "SCHEDULED" /\ trips'[t].vehicle = call[r].vehicle
        /\ \A u \in Trip \ {t} : trips'[u] = trips[u]
    BY DEF InsertTrip, TypeInv, TypeOK
  <1>4. Unfinished(t)' /\ \A u \in Trip \ {t} : Unfinished(u)' <=> Unfinished(u)
    BY <1>3 DEF Unfinished, TripExists, Gone
  <1> QED
    BY <1>1, <1>2, <1>3, <1>4 DEF VehiclesNamed, BookedFree

LEMMA BookInsertTrip ==
  ASSUME BookInv, TypeInv', NEW r \in Request, NEW t \in Trip, InsertTrip(r, t)
  PROVE  BookInv'
  <1> USE DEF BookInv
  <1>0. /\ pc[r] = "getCargo" /\ pc'[r] = "markVehicle" /\ trips[t].status = "new"
        /\ \A q \in Request \ {r} : pc'[q] = pc[q] /\ call'[q] = call[q]
        /\ vehicles' = vehicles
        /\ call'[r].trip = t /\ call'[r].vehicle = call[r].vehicle
        /\ call[r].vehicle \in Vehicle /\ vehicles[call[r].vehicle] # "new"
        /\ trips'[t].status = "SCHEDULED" /\ trips'[t].vehicle = call[r].vehicle
        /\ \A u \in Trip \ {t} : trips'[u] = trips[u]
        /\ Unfinished(t)' /\ \A u \in Trip \ {t} : Unfinished(u)' <=> Unfinished(u)
        /\ \A u \in Trip : Unfinished(u) => trips[u].vehicle # call[r].vehicle
    BY InsertFacts
  <1>1. \A q \in Request \ {r} : OwnTrip(q) => call[q].trip # t /\ OwnTrip(q)'
    BY <1>0 DEF OwnTrip
  <1>2. \A q \in Request, u \in Trip : Between(q, u) => Between(q, u)'
    BY <1>0 DEF Between, Ending
  <1>3. Between(r, t)'
    BY <1>0 DEF Between
  <1>4. VehiclesAlone'
    BY <1>0 DEF VehiclesAlone
  <1>5. VehiclesNamed'
    BY <1>0 DEF VehiclesNamed
  <1>6. CallsOwnTrip'
    <2>1. OwnTrip(r)'
      BY <1>0 DEF OwnTrip
    <2> QED
      BY <1>0, <1>1, <2>1 DEF CallsOwnTrip, OwnTrip
  <1>7. BookedFree'
    BY <1>0 DEF BookedFree, VehiclesAlone
  <1>8. OffersFree'
    BY <1>0, <1>2, <1>3 DEF OffersFree
  <1>9. NoDoubleBooking'
    BY <1>0 DEF NoDoubleBooking
  <1> QED
    BY <1>4, <1>5, <1>6, <1>7, <1>8, <1>9

LEMMA BookMarkVehicle ==
  ASSUME VehicleAssumption, BookInv, TypeInv', NEW r \in Request, MarkVehicle(r)
  PROVE  BookInv'
  <1> USE DEF BookInv
  <1>1. /\ pc[r] = "markVehicle" /\ pc'[r] = "awaitMark"
        /\ \A q \in Request \ {r} : pc'[q] = pc[q]
        /\ UNCHANGED <<trips, call>>
    BY DEF MarkVehicle, Goto, TypeInv, TypeOK
  <1>2. OwnTrip(r) /\ call[r].vehicle \in Vehicle
    BY <1>1 DEF CallsOwnTrip, VehiclesNamed
  <1>3. /\ vehicles'[call[r].vehicle] # "AVAILABLE"
        /\ \A v \in Vehicle \ {call[r].vehicle} : vehicles'[v] = vehicles[v]
        /\ \A v \in Vehicle : vehicles'[v] = "new" => vehicles[v] = "new"
    BY <1>1, <1>2 DEF MarkVehicle, WriteVehicle, VehicleExists, Gone, VehicleAssumption,
                VehiclesNamed, TypeInv, TypeOK
  <1>4. \A t \in Trip : Unfinished(t)' <=> Unfinished(t)
    BY <1>1 DEF Unfinished, TripExists
  <1>5. \A q \in Request, t \in Trip : Between(q, t) => Between(q, t)' \/ t = call[r].trip
    BY <1>1 DEF Between, Ending
  <1>6. VehiclesAlone'
    BY <1>1 DEF VehiclesAlone
  <1>7. VehiclesNamed'
    BY <1>1, <1>3 DEF VehiclesNamed
  <1>8. CallsOwnTrip'
    BY <1>1, <1>4 DEF CallsOwnTrip, OwnTrip
  <1>9. BookedFree'
    BY <1>1, <1>4 DEF BookedFree
  <1>10. ASSUME NEW t \in Trip, Unfinished(t), \A q \in Request : ~Between(q, t)'
         PROVE  vehicles'[trips[t].vehicle] # "AVAILABLE"
    <2>1. CASE t = call[r].trip
      BY <1>2, <1>3, <2>1 DEF OwnTrip
    <2>2. CASE t # call[r].trip
      <3>1. vehicles[trips[t].vehicle] # "AVAILABLE"
        BY <1>5, <1>10, <2>2 DEF OffersFree
      <3>2. trips[t].vehicle \in Vehicle
        BY <1>10 DEF VehiclesNamed, Unfinished, TripExists, Gone
      <3> QED
        BY <1>3, <3>1, <3>2
    <2> QED
      BY <2>1, <2>2
  <1>11. OffersFree'
    BY <1>1, <1>4, <1>10 DEF OffersFree
  <1>12. NoDoubleBooking'
    BY <1>1, <1>4 DEF NoDoubleBooking
  <1> QED
    BY <1>6, <1>7, <1>8, <1>9, <1>11, <1>12

\* Both handlers read the trip and decide whether to release its vehicle.
LEMMA BookStartFinish ==
  ASSUME VehicleAssumption, BookInv, TypeInv', NEW r \in Request, NEW t \in Trip,
         StartDeleteTrip(r, t) \/ \E s \in PutTripStatus : StartUpdateTrip(r, t, s)
  PROVE  BookInv'
  <1> USE DEF BookInv
  <1>1. /\ pc[r] = "idle" /\ TripExists(t)
        /\ \A q \in Request \ {r} : pc'[q] = pc[q] /\ call'[q] = call[q]
        /\ UNCHANGED <<trips, vehicles>> /\ VehicleQuiet(trips[t].vehicle)
    BY DEF StartDeleteTrip, StartUpdateTrip, Goto, Free, MayUseVehicle, VehicleAssumption,
           TypeInv, TypeOK
  <1> DEFINE Begun ==
        /\ call'[r].trip = t /\ call'[r].vehicle = trips[t].vehicle
        /\ pc'[r] \in {"release", "finishTrip"}
        /\ pc'[r] = "release" =>
              /\ Unfinished(t)
              /\ \/ call'[r].op = "DeleteTrip"
                 \/ call'[r].op = "UpdateTrip" /\ call'[r].status = "COMPLETED"
        /\ pc'[r] = "finishTrip" /\ call'[r].op = "UpdateTrip" => Unfinished(t)
  <1>2. Begun
    <2>1. CASE StartDeleteTrip(r, t)
      <3>1. /\ call'[r] = FinishCall("DeleteTrip", t, "none")
            /\ pc'[r] = IF trips[t].status # "COMPLETED" THEN "release" ELSE "finishTrip"
        BY <2>1 DEF StartDeleteTrip, Goto, TypeInv, TypeOK
      <3> QED
        BY <1>1, <3>1 DEF FinishCall, NoCall, Unfinished
    <2>2. ASSUME NEW s \in PutTripStatus, StartUpdateTrip(r, t, s)
          PROVE  Begun
      <3>1. /\ call'[r] = FinishCall("UpdateTrip", t, s)
            /\ pc'[r] = IF s = "COMPLETED" THEN "release" ELSE "finishTrip"
            /\ trips[t].status # "COMPLETED"
        BY <2>2 DEF StartUpdateTrip, Goto, VehicleAssumption, TypeInv, TypeOK
      <3> QED
        BY <1>1, <3>1 DEF FinishCall, NoCall, Unfinished
    <2> QED
      BY <2>1, <2>2
  <1>3. \A u \in Trip : Unfinished(u)' <=> Unfinished(u)
    BY <1>1 DEF Unfinished, TripExists
  <1>4. \A q \in Request, u \in Trip : Between(q, u) => Between(q, u)'
    BY <1>1 DEF Between, Ending
  <1>5. VehiclesAlone'
    BY <1>1, <1>2 DEF VehiclesAlone, VehicleQuiet
  <1>6. VehiclesNamed'
    BY <1>1, <1>2 DEF VehiclesNamed
  <1>7. CallsOwnTrip'
    BY <1>1, <1>2, <1>3 DEF CallsOwnTrip, OwnTrip, TripExists, Gone
  <1>8. BookedFree'
    BY <1>1, <1>2, <1>3 DEF BookedFree
  <1>9. OffersFree'
    BY <1>1, <1>3, <1>4 DEF OffersFree
  <1>10. NoDoubleBooking'
    BY <1>1, <1>3 DEF NoDoubleBooking
  <1> QED
    BY <1>5, <1>6, <1>7, <1>8, <1>9, <1>10

LEMMA BookRelease ==
  ASSUME VehicleAssumption, BookInv, TypeInv', NEW r \in Request, ReleaseVehicle(r)
  PROVE  BookInv'
  <1> USE DEF BookInv
  <1>1. /\ pc[r] = "release" /\ pc'[r] = "finishTrip"
        /\ \A q \in Request \ {r} : pc'[q] = pc[q]
        /\ UNCHANGED <<trips, call>>
    BY DEF ReleaseVehicle, Goto, TypeInv, TypeOK
  <1>2. /\ OwnTrip(r) /\ Unfinished(call[r].trip)
        /\ \/ call[r].op = "DeleteTrip"
           \/ call[r].op = "UpdateTrip" /\ call[r].status = "COMPLETED"
    BY <1>1 DEF CallsOwnTrip
  <1>3. call[r].vehicle \in Vehicle
    BY <1>2 DEF VehiclesNamed, OwnTrip
  <1>4. /\ \A v \in Vehicle \ {call[r].vehicle} : vehicles'[v] = vehicles[v]
        /\ \A v \in Vehicle : vehicles'[v] = "new" => vehicles[v] = "new"
    BY <1>3 DEF ReleaseVehicle, WriteVehicle, VehicleExists, Gone, VehicleAssumption,
                TypeInv, TypeOK
  <1>5. \A t \in Trip : Unfinished(t)' <=> Unfinished(t)
    BY <1>1 DEF Unfinished, TripExists
  <1>6. Between(r, call[r].trip)'
    BY <1>1, <1>2 DEF Between, Ending
  <1>7. \A q \in Request, t \in Trip : Between(q, t) => Between(q, t)'
    BY <1>1 DEF Between, Ending
  <1>8. VehiclesAlone'
    BY <1>1 DEF VehiclesAlone
  <1>9. VehiclesNamed'
    BY <1>1, <1>4 DEF VehiclesNamed
  <1>10. CallsOwnTrip'
    BY <1>1, <1>2, <1>5 DEF CallsOwnTrip, OwnTrip
  <1>11. BookedFree'
    BY <1>1, <1>5 DEF BookedFree
  <1>12. ASSUME NEW t \in Trip, Unfinished(t), \A q \in Request : ~Between(q, t)'
         PROVE  vehicles'[trips[t].vehicle] # "AVAILABLE"
    <2>0. t # call[r].trip
      BY <1>1, <1>2, <1>12 DEF Between, Ending, OwnTrip
    <2>1. vehicles[trips[t].vehicle] # "AVAILABLE"
      BY <1>7, <1>12 DEF OffersFree
    <2>2. trips[t].vehicle \in Vehicle
      BY <1>12 DEF VehiclesNamed, Unfinished, TripExists, Gone
    <2>3. trips[t].vehicle # call[r].vehicle
      BY <1>2, <1>12, <2>0 DEF NoDoubleBooking, OwnTrip
    <2> QED
      BY <1>4, <2>1, <2>2, <2>3
  <1>13. OffersFree'
    BY <1>1, <1>5, <1>12 DEF OffersFree
  <1>14. NoDoubleBooking'
    BY <1>1, <1>5 DEF NoDoubleBooking
  <1> QED
    BY <1>8, <1>9, <1>10, <1>11, <1>13, <1>14

\* The last write: status s of r's own trip t.
Finishes(r, t, s) ==
  /\ pc[r] = "finishTrip" /\ pc'[r] = "idle" /\ OwnTrip(r) /\ call[r].trip = t
  /\ \A q \in Request \ {r} : pc'[q] = pc[q] /\ call'[q] = call[q]
  /\ call'[r].vehicle = None /\ vehicles' = vehicles
  /\ call[r].op = "UpdateTrip" => Unfinished(t)
  /\ (call[r].op = "UpdateTrip" /\ s # "COMPLETED") \/ Ending(r, t)
  /\ Ending(r, t) => ~Unfinished(t)'
  /\ s \in TripStatus \cup {"deleted"}
  /\ \A u \in Trip \ {t} : trips'[u] = trips[u]
  /\ trips'[t].vehicle = trips[t].vehicle
  /\ trips'[t].status = IF TripExists(t) THEN s ELSE trips[t].status

LEMMA FinishFacts ==
  ASSUME VehicleAssumption, BookInv, NEW r \in Request, SetTripStatus(r) \/ DeleteTripRow(r)
  PROVE  \E t \in Trip, s \in TripStatus \cup {"deleted"} : Finishes(r, t, s)
  <1> USE DEF BookInv
  <1>0. PICK t \in Trip : t = call[r].trip
    BY DEF SetTripStatus, DeleteTripRow, CallsOwnTrip, OwnTrip
  <1> DEFINE s == IF call[r].op = "UpdateTrip" THEN call[r].status ELSE "deleted"
  <1>1. /\ pc[r] = "finishTrip" /\ pc'[r] = "idle"
        /\ \A q \in Request \ {r} : pc'[q] = pc[q] /\ call'[q] = call[q]
        /\ call'[r].vehicle = None /\ vehicles' = vehicles
    BY DEF SetTripStatus, DeleteTripRow, Answer, Goto, NoCall, TypeInv, TypeOK
  <1>2. /\ OwnTrip(r)
        /\ call[r].op = "UpdateTrip" => Unfinished(t)
        /\ (call[r].op = "UpdateTrip" /\ s # "COMPLETED") \/ Ending(r, t)
        /\ s \in TripStatus \cup {"deleted"}
    BY <1>0, <1>1 DEF SetTripStatus, DeleteTripRow, CallsOwnTrip, Ending, TypeInv, ArgumentsNamed
  <1>3. WriteTrip(t, s)
    BY <1>0 DEF SetTripStatus, DeleteTripRow
  <1>e. Ending(r, t) => s \in {"COMPLETED", "deleted"}
    BY DEF Ending
  <1> HIDE DEF s
  <1>4. trips' = IF TripExists(t) THEN [trips EXCEPT ![t].status = s] ELSE trips
    BY <1>3 DEF WriteTrip, VehicleAssumption
  <1>5. /\ \A u \in Trip \ {t} : trips'[u] = trips[u]
        /\ trips'[t].vehicle = trips[t].vehicle
        /\ trips'[t].status = IF TripExists(t) THEN s ELSE trips[t].status
    BY <1>1, <1>4 DEF TypeInv, TypeOK, TripRow
  <1>6. Ending(r, t) => ~Unfinished(t)'
    BY <1>5, <1>e DEF Unfinished, TripExists, Gone
  <1>7. Finishes(r, t, s)
    BY <1>0, <1>1, <1>2, <1>5, <1>6 DEF Finishes
  <1> QED
    BY <1>2, <1>7

LEMMA BookFinish ==
  ASSUME BookInv, TypeInv', NEW r \in Request, NEW t \in Trip,
         NEW s \in TripStatus \cup {"deleted"}, Finishes(r, t, s)
  PROVE  BookInv'
  <1> USE DEF BookInv
  <1>1. /\ pc[r] = "finishTrip" /\ pc'[r] = "idle" /\ OwnTrip(r) /\ call[r].trip = t
        /\ \A q \in Request \ {r} : pc'[q] = pc[q] /\ call'[q] = call[q]
        /\ call'[r].vehicle = None /\ vehicles' = vehicles
        /\ \A u \in Trip \ {t} : trips'[u] = trips[u]
        /\ trips'[t].vehicle = trips[t].vehicle
        /\ trips'[t].status # "new"
        /\ Ending(r, t) => ~Unfinished(t)'
    BY DEF Finishes, TripStatus, OwnTrip
  <1>2. \A u \in Trip : Unfinished(u)' => Unfinished(u) /\ trips'[u].vehicle = trips[u].vehicle
    <2>1. Unfinished(t)' => Unfinished(t)
      BY DEF Finishes
    <2> QED
      BY <1>1, <2>1 DEF Unfinished, TripExists
  <1>3. \A q \in Request \ {r} : OwnTrip(q) => OwnTrip(q)' /\ call[q].trip # t
    BY <1>1, OwnTripsDiffer DEF OwnTrip
  <1>4. VehiclesAlone'
    BY <1>1, NoneAssumption DEF VehiclesAlone
  <1>5. VehiclesNamed'
    BY <1>1 DEF VehiclesNamed, OwnTrip
  <1>6. CallsOwnTrip'
    BY <1>1, <1>3 DEF CallsOwnTrip, OwnTrip, Unfinished, TripExists
  <1>7. BookedFree'
    BY <1>1, <1>2 DEF BookedFree
  <1>8. ASSUME NEW u \in Trip, Unfinished(u)', \A q \in Request : ~Between(q, u)'
        PROVE  vehicles'[trips'[u].vehicle] # "AVAILABLE"
    <2>1. \A q \in Request : ~Between(q, u)
      <3>1. ~Between(r, u)
        BY <1>1, <1>8 DEF Between, Ending
      <3> QED
        BY <1>1, <1>8, <3>1 DEF Between, Ending
    <2> QED
      BY <1>1, <1>2, <1>8, <2>1 DEF OffersFree
  <1>9. OffersFree'
    BY <1>8 DEF OffersFree
  <1>10. NoDoubleBooking'
    BY <1>2 DEF NoDoubleBooking
  <1> QED
    BY <1>4, <1>5, <1>6, <1>7, <1>9, <1>10

LEMMA BookConsole ==
  ASSUME VehicleAssumption, BookInv, TypeInv', Console \/ Environment
  PROVE  BookInv' /\ trips' = trips
  <1> USE DEF BookInv
  <1>0. ~RestartFleet /\ ~RestartVolunteer
    BY DEF RestartFleet, RestartVolunteer, VehicleAssumption
  <1>1. UNCHANGED <<trips, pc, call>>
    BY <1>0 DEF Console, Environment, CreateVehicle, DeleteVehicle, UpdateVehicle,
                DeleteVolunteer, CreateVolunteer, SetIncident
  <1>2. \A t \in Trip : Unfinished(t)' <=> Unfinished(t)
    BY <1>1 DEF Unfinished, TripExists
  <1> DEFINE NoneOffered ==
        /\ \A v \in Vehicle : vehicles'[v] = "new" => vehicles[v] = "new"
        /\ \A v \in Vehicle : vehicles'[v] = "AVAILABLE" => vehicles[v] \in {"new", "AVAILABLE"}
  <1>3. NoneOffered
    <2>1. ASSUME NEW v \in Vehicle, CreateVehicle(v) \/ DeleteVehicle(v) PROVE NoneOffered
      BY <2>1 DEF CreateVehicle, DeleteVehicle, TypeInv, TypeOK
    <2>2. ASSUME NEW v \in Vehicle, NEW s \in ConsoleStatus, UpdateVehicle(v, s) PROVE NoneOffered
      BY <2>2, InputsAssumption DEF UpdateVehicle, VehicleAssumption, TypeInv, TypeOK, VehicleStatus
    <2> QED
      BY <1>0, <2>1, <2>2 DEF Console, Environment, DeleteVolunteer, CreateVolunteer, SetIncident
  <1>4. VehiclesAlone'
    BY <1>1 DEF VehiclesAlone
  <1>5. VehiclesNamed'
    BY <1>1, <1>3 DEF VehiclesNamed
  <1>6. CallsOwnTrip'
    BY <1>1, <1>2 DEF CallsOwnTrip, OwnTrip
  <1>7. BookedFree'
    BY <1>1, <1>2 DEF BookedFree
  <1>8. ASSUME NEW t \in Trip, Unfinished(t), \A r \in Request : ~Between(r, t)
        PROVE  vehicles'[trips[t].vehicle] # "AVAILABLE"
    <2>1. trips[t].vehicle \in Vehicle /\ vehicles[trips[t].vehicle] # "new"
      BY <1>8 DEF VehiclesNamed, Unfinished, TripExists, Gone
    <2> QED
      BY <1>3, <1>8, <2>1 DEF OffersFree
  <1>9. OffersFree'
    BY <1>1, <1>2, <1>8 DEF OffersFree, Between, Ending
  <1>10. NoDoubleBooking'
    BY <1>1, <1>2 DEF NoDoubleBooking
  <1> QED
    BY <1>1, <1>4, <1>5, <1>6, <1>7, <1>9, <1>10

\* The steps of a request that write neither a trip nor a vehicle.
VolunteerStep(r) ==
  \/ CheckDriver(r) \/ RefuseTrip(r) \/ FinishCreateTrip(r)
  \/ AssignStep(r) \/ PutStep(r) \/ DropPut(r)
  \/ \E d \in Volunteer, s \in StaffStatus \cup {"keep"}, ro \in Role \cup {"keep"} :
        StartUpdateVolunteer(r, d, s, ro)
  \/ \E d \in Volunteer, i \in Incident : StartAssign(r, d, i)

LEMMA BookVolunteer ==
  ASSUME BookInv, TypeInv', NEW r \in Request, VolunteerStep(r)
  PROVE  BookInv' /\ trips' = trips
  <1>1. CASE PutStep(r) \/ DropPut(r)
              \/ \E d \in Volunteer, s \in StaffStatus \cup {"keep"}, ro \in Role \cup {"keep"} :
                    StartUpdateVolunteer(r, d, s, ro)
    BY <1>1, BookQuiet DEF PutStep, ReadVolunteer, UpdateVolunteer, DropPut, StartUpdateVolunteer
  <1>2. CASE CheckDriver(r) \/ RefuseTrip(r) \/ FinishCreateTrip(r) \/ AssignStep(r)
    <2>1. /\ \A q \in Request \ {r} : pc'[q] = pc[q] /\ call'[q] = call[q]
          /\ UNCHANGED <<trips, vehicles>>
      BY <1>2 DEF CheckDriver, RefuseTrip, FinishCreateTrip, AssignStep, CheckIncident,
                  CheckTrips, WriteAssign, Answer, EndAssign, Goto, BookInv, TypeInv, TypeOK
    <2>2. \/ pc[r] = "getDriver" /\ pc'[r] = "getCargo" /\ call'[r] = call[r]
          \/ /\ pc[r] \notin {"markVehicle", "finishTrip"}
             /\ pc'[r] \in {"idle", "getIncident", "getTrips", "writeAssign"}
             /\ call'[r].vehicle \in {call[r].vehicle, None}
      BY <1>2 DEF CheckDriver, RefuseTrip, FinishCreateTrip, AssignStep, CheckIncident,
                  CheckTrips, WriteAssign, Answer, EndAssign, Goto, NoCall, BookInv, TypeInv, TypeOK
    <2> QED
      BY <2>1, <2>2, BookQuiet
  <1>3. ASSUME NEW d \in Volunteer, NEW i \in Incident, StartAssign(r, d, i)
        PROVE  BookInv' /\ trips' = trips
    <2>1. /\ pc[r] = "idle" /\ pc'[r] = "getIncident" /\ call'[r].vehicle = None
          /\ \A q \in Request \ {r} : pc'[q] = pc[q] /\ call'[q] = call[q]
          /\ UNCHANGED <<trips, vehicles>>
      BY <1>3 DEF StartAssign, Goto, Free, NoCall, BookInv, TypeInv, TypeOK
    <2> QED
      BY <2>1, BookQuiet
  <1> QED
    BY <1>1, <1>2, <1>3 DEF VolunteerStep

LEMMA BookNext == VehicleAssumption /\ BookInv /\ [Next]_vars => BookInv'
  <1> SUFFICES ASSUME VehicleAssumption, BookInv, [Next]_vars PROVE BookInv'
    OBVIOUS
  <1>0. TypeInv'
    BY TypeNext DEF BookInv
  <1>1. CASE UNCHANGED vars
    BY <1>0, <1>1 DEF vars, BookInv, VehiclesAlone, VehiclesNamed, CallsOwnTrip, OwnTrip, BookedFree,
                OffersFree, Between, Ending, NoDoubleBooking, Unfinished, TripExists
  <1>2. ASSUME NEW r \in Request, Arrival(r) \/ HandlerStep(r) \/ PutStep(r) \/ DropPut(r)
        PROVE  BookInv'
    <2>1. CASE SetTripStatus(r) \/ DeleteTripRow(r)
      BY <1>0, <2>1, FinishFacts, BookFinish
    <2>2. CASE ~(SetTripStatus(r) \/ DeleteTripRow(r))
      BY <1>0, <1>2, <2>2, BookStartCreate, BookInsertTrip, BookMarkVehicle, BookStartFinish,
         BookRelease, BookVolunteer
      DEF Arrival, HandlerStep, CreateTripStep, FinishTripStep, VolunteerStep
    <2> QED
      BY <2>1, <2>2
  <1> QED
    BY <1>0, <1>1, <1>2, BookConsole DEF Next

LEMMA BookAlways == VehicleAssumption => (Spec => []BookInv)
  <1>1. ASSUME VehicleAssumption PROVE BookInv /\ [Next]_vars => BookInv'
    BY <1>1, BookNext
  <1>2. ASSUME VehicleAssumption PROVE Spec => []BookInv
    BY <1>1, <1>2, BookInit, PTL DEF Spec
  <1> QED
    BY <1>2

\* create_trip verifies the vehicle before it inserts the trip: no two unfinished
\* trips share one, whatever overlaps that is about other vehicles, and whichever
\* calls to the volunteer service are lost or late.
THEOREM NoDoubleBookingTheorem == VehicleAssumption => (Spec => []NoDoubleBooking)
  <1>1. BookInv => NoDoubleBooking
    BY DEF BookInv
  <1>2. ASSUME VehicleAssumption PROVE Spec => []NoDoubleBooking
    BY <1>1, <1>2, BookAlways, PTL
  <1> QED
    BY <1>2

\* Between the requests about it, a vehicle that the fleet service offers is on no
\* unfinished trip.
THEOREM AvailableVehicleTheorem == VehicleAssumption => (Spec => []AvailableVehicleIsFree)
  <1>1. BookInv => AvailableVehicleIsFree
    BY QuietOffers DEF AvailableVehicleIsFree
  <1>2. ASSUME VehicleAssumption PROVE Spec => []AvailableVehicleIsFree
    BY <1>1, <1>2, BookAlways, PTL
  <1> QED
    BY <1>2

\* A step that leaves the books alone.
LEMMA BooksSame ==
  ASSUME trips' = trips
  PROVE  UNCHANGED <<BookedTrips, PastTrips>>
  <1>1. BookedTrips' = BookedTrips
    BY DEF BookedTrips, OnVehicle, Unfinished, TripExists
  <1>2. PastTrips' = PastTrips
    BY DEF PastTrips
  <1> QED
    BY <1>1, <1>2

\* A step that changes the trips of one vehicle.
LEMMA BooksBecome ==
  ASSUME NEW w \in Vehicle, NEW S,
         \A v \in Vehicle : OnVehicle(v)' = IF v = w THEN S ELSE OnVehicle(v)
  PROVE  BookedTrips' = [BookedTrips EXCEPT ![w] = S]
  BY DEF BookedTrips

\* The insert is the booking; the write of COMPLETED and the deletion of a trip
\* that is not COMPLETED are the giving back; all else leaves the books alone.
LEMMA BookingStep ==
  ASSUME VehicleAssumption, BookInv, [Next]_vars
  PROVE  [Bookings!Next]_<<BookedTrips, PastTrips>>
  <1>0. TypeInv'
    BY TypeNext DEF BookInv
  <1>1. ASSUME NEW r \in Request, NEW t \in Trip, InsertTrip(r, t)
        PROVE  Bookings!Book(call[r].vehicle, t) /\ call[r].vehicle \in Vehicle
    <2>0. /\ trips[t].status = "new" /\ call[r].vehicle \in Vehicle
          /\ trips'[t].status = "SCHEDULED" /\ trips'[t].vehicle = call[r].vehicle
          /\ \A u \in Trip \ {t} : trips'[u] = trips[u]
          /\ Unfinished(t)' /\ \A u \in Trip \ {t} : Unfinished(u)' <=> Unfinished(u)
          /\ \A u \in Trip : Unfinished(u) => trips[u].vehicle # call[r].vehicle
      BY <1>1, InsertFacts
    <2>1. BookedTrips[call[r].vehicle] = {}
      BY <2>0 DEF BookedTrips, OnVehicle
    <2>2. t \notin PastTrips /\ \A v \in Vehicle : t \notin BookedTrips[v]
      BY <2>0 DEF PastTrips, BookedTrips, OnVehicle, Unfinished, TripExists, Gone
    <2>4. BookedTrips' = [BookedTrips EXCEPT ![call[r].vehicle] = {t}]
      <3> SUFFICES ASSUME NEW w \in Vehicle, w = call[r].vehicle
                   PROVE  BookedTrips' = [BookedTrips EXCEPT ![w] = {t}]
        BY <2>0
      <3>1. ASSUME NEW v \in Vehicle PROVE OnVehicle(v)' = IF v = w THEN {t} ELSE OnVehicle(v)
        <4>1. ASSUME NEW u \in Trip
              PROVE  (Unfinished(u)' /\ trips'[u].vehicle = v) <=>
                        IF v = w THEN u = t ELSE Unfinished(u) /\ trips[u].vehicle = v
          BY <2>0 DEF Unfinished, TripExists, Gone
        <4> QED
          BY <4>1 DEF OnVehicle
      <3> QED
        BY <3>1, BooksBecome
    <2>5. PastTrips' = PastTrips
      BY <2>0 DEF PastTrips
    <2> QED
      BY <2>0, <2>1, <2>2, <2>4, <2>5 DEF Bookings!Book, Bookings!Fresh
  <1>2. ASSUME NEW r \in Request, NEW t \in Trip, NEW s \in TripStatus \cup {"deleted"},
               Finishes(r, t, s)
        PROVE  Bookings!GiveBack(trips[t].vehicle) \/ UNCHANGED <<BookedTrips, PastTrips>>
    <2>0. /\ OwnTrip(r) /\ call[r].trip = t
          /\ \A u \in Trip \ {t} : trips'[u] = trips[u]
          /\ \A u \in Trip \ {t} : Unfinished(u)' <=> Unfinished(u)
          /\ trips'[t].vehicle = trips[t].vehicle
          /\ trips'[t].status = IF TripExists(t) THEN s ELSE trips[t].status
      BY <1>2 DEF Finishes, Unfinished, TripExists
    <2>1. CASE Unfinished(t)' <=> Unfinished(t)
      <3>1. BookedTrips' = BookedTrips
        BY <2>0, <2>1 DEF BookedTrips, OnVehicle
      <3>2. t \in PastTrips <=> t \in PastTrips'
        BY <2>0, <2>1 DEF PastTrips, Unfinished, TripExists, OwnTrip, Gone, TripStatus
      <3>3. PastTrips' = PastTrips
        BY <2>0, <3>2 DEF PastTrips
      <3> QED
        BY <3>1, <3>3
    <2>2. CASE Unfinished(t) /\ ~Unfinished(t)'
      <3>1. trips[t].vehicle \in Vehicle
        BY <2>0 DEF BookInv, VehiclesNamed, OwnTrip
      <3>2. OnVehicle(trips[t].vehicle) = {t}
        BY <2>2 DEF OnVehicle, BookInv, NoDoubleBooking
      <3>3. BookedTrips' = [BookedTrips EXCEPT ![trips[t].vehicle] = {}]
        <4> SUFFICES ASSUME NEW w \in Vehicle, w = trips[t].vehicle
                     PROVE  BookedTrips' = [BookedTrips EXCEPT ![w] = {}]
          BY <3>1
        <4>1. ASSUME NEW v \in Vehicle PROVE OnVehicle(v)' = IF v = w THEN {} ELSE OnVehicle(v)
          <5>1. ASSUME NEW u \in Trip
                PROVE  (Unfinished(u)' /\ trips'[u].vehicle = v) <=>
                          v # w /\ Unfinished(u) /\ trips[u].vehicle = v
            BY <2>0, <2>2 DEF BookInv, NoDoubleBooking
          <5> QED
            BY <5>1 DEF OnVehicle
        <4> QED
          BY <4>1, BooksBecome
      <3>4. t \notin PastTrips /\ t \in PastTrips'
        BY <2>0, <2>2 DEF PastTrips, Unfinished, TripExists, OwnTrip, Gone, TripStatus
      <3>5. PastTrips' = PastTrips \cup {t}
        BY <2>0, <3>4 DEF PastTrips
      <3>6. BookedTrips[trips[t].vehicle] = {t}
        BY <3>1, <3>2 DEF BookedTrips
      <3> QED
        BY <3>3, <3>5, <3>6 DEF Bookings!GiveBack
    <2>3. Unfinished(t)' => Unfinished(t)
      BY <1>2 DEF Finishes
    <2> QED
      BY <2>1, <2>2, <2>3
  <1>3. CASE trips' = trips
    BY <1>3, BooksSame
  <1>4. ASSUME NEW r \in Request, Arrival(r) \/ HandlerStep(r) \/ PutStep(r) \/ DropPut(r)
        PROVE  \/ trips' = trips
               \/ \E t \in Trip : InsertTrip(r, t)
               \/ SetTripStatus(r) \/ DeleteTripRow(r)
    BY <1>0, <1>4, BookVolunteer
    DEF Arrival, HandlerStep, CreateTripStep, FinishTripStep, VolunteerStep, StartCreateTrip,
        StartUpdateTrip, StartDeleteTrip, MarkVehicle, ReleaseVehicle
  <1>5. ASSUME NEW r \in Request, SetTripStatus(r) \/ DeleteTripRow(r)
        PROVE  [Bookings!Next]_<<BookedTrips, PastTrips>>
    <2> PICK t \in Trip, s \in TripStatus \cup {"deleted"} : Finishes(r, t, s)
      BY <1>5, FinishFacts
    <2>1. trips[t].vehicle \in Vehicle
      BY DEF Finishes, BookInv, VehiclesNamed, OwnTrip
    <2> QED
      BY <1>2, <2>1 DEF Bookings!Next
  <1> QED
    BY <1>0, <1>1, <1>3, <1>4, <1>5, BookConsole DEF Next, Bookings!Next, vars

\* Every trip is one booking of a free vehicle and one giving back, however many
\* steps the two handlers take, and whatever goes on about other vehicles.
THEOREM BookingIsAtomicTheorem == VehicleAssumption => (Spec => BookingIsAtomic)
  <1>1. Init => Bookings!Init
    <2> SUFFICES ASSUME Init PROVE Bookings!Init
      OBVIOUS
    <2>1. \A t \in Trip : trips[t].status = "new"
      BY DEF Init, NewTrip
    <2>2. BookedTrips = [v \in Vehicle |-> {}] /\ PastTrips = {}
      BY <2>1 DEF BookedTrips, OnVehicle, PastTrips, Unfinished, TripExists, Gone
    <2> QED
      BY <2>2 DEF Bookings!Init
  <1>2. ASSUME VehicleAssumption
        PROVE  BookInv /\ [Next]_vars => [Bookings!Next]_<<BookedTrips, PastTrips>>
    BY <1>2, BookingStep
  <1>3. ASSUME VehicleAssumption PROVE Spec => [][Bookings!Next]_<<BookedTrips, PastTrips>>
    BY <1>2, <1>3, BookAlways, PTL DEF Spec
  <1>4. ASSUME VehicleAssumption PROVE Spec => BookingIsAtomic
    BY <1>1, <1>3, <1>4, PTL DEF Spec, BookingIsAtomic, Bookings!Spec
  <1> QED
    BY <1>4

-----------------------------------------------------------------------------
(* Volunteers whose requests come one after the other: the copy of a row    *)
(* that a request is going to write back is still current, and so is what   *)
(* Assign knows of trips.  Everything about other volunteers may overlap,   *)
(* calls may be lost or late, database writes fail, services restart.       *)

\* Such clients, when driver ids are always numbers.
LinkAssumption == "volunteer_alone" \in Discipline /\ TRUE \notin DriverIdAsText

Assigning == {"getIncident", "getTrips", "writeAssign"}

NewUnlinked == \A d \in Volunteer : volunteers[d].status = "new" => volunteers[d].incident = None

\* A handler, or a PUT that outlived it, and another about the same volunteer do
\* not exist at the same time; Assign itself sends no PUT.
VolunteersAlone ==
  /\ \A r, q \in Request : r # q =>
        \A d \in Volunteer : d \in {call[r].driver, put[r].driver} =>
                             d \notin {call[q].driver, put[q].driver}
  /\ \A r \in Request : put[r].at # "none" => pc[r] \notin Assigning

CopiesCurrent ==
  \A r \in Request : put[r].at = "read" =>
     row[r].status # "new" /\ row[r].incident = volunteers[put[r].driver].incident

Driving(d) == \E t \in Trip : trips[t].driver = d /\ trips[t].status \in ActiveTripStatus

AssignsKnow ==
  \A r \in Request : /\ pc[r] \in Assigning => call[r].incident \in Incident
                     /\ pc[r] = "writeAssign" => ~Driving(call[r].driver)

\* A request that is going to write a trip's status knows the trip's driver.
KnowsDriver(r) == /\ call[r].trip \in Trip /\ trips[call[r].trip].status # "new"
                  /\ trips[call[r].trip].driver = call[r].driver

FinishesKnow == \A r \in Request : pc[r] \in {"release", "finishTrip"} => KnowsDriver(r)

NumbersOnly == /\ \A t \in Trip : trips[t].text = FALSE
               /\ \A r \in Request : pc[r] \in {"getDriver", "getCargo"} => call[r].text = FALSE

LinkInv == /\ TypeInv /\ NewUnlinked /\ VolunteersAlone /\ CopiesCurrent
           /\ AssignsKnow /\ FinishesKnow /\ NumbersOnly

\* What a step may do to a link.
LinksKept ==
  \A d \in Volunteer : volunteers[d].incident # None => volunteers'[d].incident # None
LinkedHasNoTrip == \A d \in Volunteer : GetsIncident(d) => ~Driving(d)

LEMMA LinkInit == Init => LinkInv
  <1> SUFFICES ASSUME Init PROVE LinkInv
    OBVIOUS
  <1>1. /\ \A r \in Request : /\ pc[r] = "idle" /\ put[r].at = "none"
                              /\ call[r].driver = None /\ put[r].driver = None
        /\ \A t \in Trip : trips[t].text = FALSE
        /\ \A d \in Volunteer : volunteers[d].incident = None
    BY DEF Init, NewTrip, NoPut, NoCall, NewVolunteer
  <1> QED
    BY <1>1, TypeInit, NoneAssumption
    DEF LinkInv, NewUnlinked, VolunteersAlone, CopiesCurrent, AssignsKnow, FinishesKnow,
        NumbersOnly, Assigning

\* A trip is inserted or written by the request that names its driver, so that
\* nobody who is assigned meanwhile begins to drive.
LEMMA TripWrites ==
  ASSUME LinkInv, NEW r \in Request,
         \/ \E t \in Trip : InsertTrip(r, t)
         \/ SetTripStatus(r) \/ DeleteTripRow(r)
  PROVE  /\ \A t \in Trip : /\ trips'[t] = trips[t] \/ trips'[t].driver = call[r].driver
                            /\ trips[t].status # "new" =>
                                  /\ trips'[t].driver = trips[t].driver
                                  /\ trips'[t].status # "new"
                            /\ trips'[t].text = FALSE
         /\ pc'[r] \in {"markVehicle", "idle"}
  <1> USE DEF LinkInv
  <1>1. ASSUME NEW t \in Trip, InsertTrip(r, t)
        PROVE  /\ trips'[t].driver = call[r].driver /\ trips[t].status = "new"
               /\ trips'[t].text = FALSE /\ pc'[r] = "markVehicle"
               /\ \A u \in Trip \ {t} : trips'[u] = trips[u]
    BY <1>1 DEF InsertTrip, Goto, NumbersOnly, TypeInv, TypeOK
  <1>2. ASSUME SetTripStatus(r) \/ DeleteTripRow(r)
        PROVE  /\ \A t \in Trip : /\ trips'[t].driver = trips[t].driver
                                  /\ trips'[t].text = trips[t].text
                                  /\ trips[t].status # "new" => trips'[t].status # "new"
                                  /\ trips'[t] = trips[t] \/ t = call[r].trip
               /\ pc'[r] = "idle" /\ pc[r] = "finishTrip"
    <2>1. ASSUME NEW s \in TripStatus \cup {"deleted"}, WriteTrip(call[r].trip, s)
          PROVE  \A t \in Trip : /\ trips'[t].driver = trips[t].driver
                                 /\ trips'[t].text = trips[t].text
                                 /\ trips[t].status # "new" => trips'[t].status # "new"
                                 /\ trips'[t] = trips[t] \/ t = call[r].trip
      BY <2>1 DEF WriteTrip, TypeInv, TypeOK, TripRow, TripStatus
    <2> QED
      BY <1>2, <2>1 DEF SetTripStatus, DeleteTripRow, Answer, Goto, TypeInv, TypeOK,
                        ArgumentsNamed
  <1>3. CASE \E t \in Trip : InsertTrip(r, t)
    BY <1>1, <1>3 DEF NumbersOnly
  <1>4. CASE SetTripStatus(r) \/ DeleteTripRow(r)
    BY <1>2, <1>4 DEF NumbersOnly, FinishesKnow, KnowsDriver
  <1> QED
    BY <1>3, <1>4

\* The steps of the fleet service that leave volunteers and their PUTs alone.
LEMMA LinkTrips ==
  ASSUME LinkAssumption, LinkInv, TypeInv', NEW r \in Request,
         \/ CheckDriver(r) \/ RefuseTrip(r) \/ FinishCreateTrip(r)
         \/ \E t \in Trip : InsertTrip(r, t)
         \/ SetTripStatus(r) \/ DeleteTripRow(r)
         \/ \E v \in Vehicle, d \in Volunteer, x \in DriverIdAsText : StartCreateTrip(r, v, d, x)
         \/ \E t \in Trip, s \in PutTripStatus : StartUpdateTrip(r, t, s)
         \/ \E t \in Trip : StartDeleteTrip(r, t)
  PROVE  LinkInv' /\ LinksKept /\ LinkedHasNoTrip
  <1> USE DEF LinkInv
  <1> DEFINE Writes == \/ \E t \in Trip : InsertTrip(r, t)
                       \/ SetTripStatus(r) \/ DeleteTripRow(r)
             Starts == \/ \E v \in Vehicle, d \in Volunteer, x \in DriverIdAsText :
                             StartCreateTrip(r, v, d, x)
                       \/ \E t \in Trip, s \in PutTripStatus : StartUpdateTrip(r, t, s)
                       \/ \E t \in Trip : StartDeleteTrip(r, t)
             Calls == CheckDriver(r) \/ RefuseTrip(r) \/ FinishCreateTrip(r)
  <1>1. UNCHANGED <<volunteers, put, row>>
    BY DEF CheckDriver, RefuseTrip, FinishCreateTrip, InsertTrip, SetTripStatus, DeleteTripRow,
           StartCreateTrip, StartUpdateTrip, StartDeleteTrip
  <1>2. /\ pc[r] \notin Assigning /\ pc'[r] \notin Assigning
        /\ \A q \in Request \ {r} : pc'[q] = pc[q] /\ call'[q] = call[q]
    BY DEF CheckDriver, RefuseTrip, FinishCreateTrip, InsertTrip, SetTripStatus,
       DeleteTripRow, StartCreateTrip, StartUpdateTrip, StartDeleteTrip, Answer, Goto, Free,
       Assigning, TypeInv, TypeOK
  <1>3. NewUnlinked' /\ CopiesCurrent' /\ LinksKept /\ LinkedHasNoTrip
    BY <1>1 DEF NewUnlinked, CopiesCurrent, LinksKept, LinkedHasNoTrip, GetsIncident
  <1>4. CASE Calls
    <2>1. /\ trips' = trips /\ call'[r].driver \in {call[r].driver, None}
          /\ pc'[r] \in {"getCargo", "idle"}
          /\ pc'[r] = "getCargo" => call'[r] = call[r] /\ pc[r] = "getDriver"
      BY <1>4 DEF CheckDriver, RefuseTrip, FinishCreateTrip, Answer, Goto, NoCall, TypeInv, TypeOK
    <2>2. VolunteersAlone'
      BY <1>1, <1>2, <2>1, NoneAssumption DEF VolunteersAlone
    <2>3. FinishesKnow'
      BY <1>2, <2>1 DEF FinishesKnow, KnowsDriver
    <2>4. AssignsKnow' /\ NumbersOnly'
      BY <1>2, <2>1 DEF AssignsKnow, Assigning, Driving, NumbersOnly
    <2> QED
      BY <1>3, <2>2, <2>3, <2>4
  <1>5. CASE Writes
    <2>1. /\ \A t \in Trip : /\ trips'[t] = trips[t] \/ trips'[t].driver = call[r].driver
                             /\ trips[t].status # "new" =>
                                   /\ trips'[t].driver = trips[t].driver
                                   /\ trips'[t].status # "new"
                             /\ trips'[t].text = FALSE
          /\ pc'[r] \in {"markVehicle", "idle"}
      BY <1>5, TripWrites
    <2>2. call'[r].driver \in {call[r].driver, None} /\ pc[r] # "idle"
      BY <1>5 DEF InsertTrip, SetTripStatus, DeleteTripRow, Answer, NoCall, TypeInv, TypeOK, Call
    <2>3. VolunteersAlone'
      BY <1>1, <1>2, <2>2, NoneAssumption DEF VolunteersAlone
    <2>4. FinishesKnow'
      BY <1>2, <2>1 DEF FinishesKnow, KnowsDriver
    <2>5. \A q \in Request \ {r} : pc[q] \in Assigning => call[q].driver # call[r].driver
      BY <2>2 DEF VolunteersAlone, TypeInv, ArgumentsNamed, Assigning
    <2>6. AssignsKnow'
      BY <1>2, <2>1, <2>5 DEF AssignsKnow, Assigning, Driving
    <2>7. NumbersOnly'
      BY <1>2, <2>1 DEF NumbersOnly
    <2> QED
      BY <1>3, <2>3, <2>4, <2>6, <2>7
  <1>6. CASE Starts
    <2>1. trips' = trips
      BY <1>6 DEF StartCreateTrip, StartUpdateTrip, StartDeleteTrip
    <2>2. \A q \in Request : call'[r].driver \notin {call[q].driver, put[q].driver}
      <3>1. ASSUME NEW v \in Vehicle, NEW d \in Volunteer, NEW x \in DriverIdAsText,
                   StartCreateTrip(r, v, d, x)
            PROVE  call'[r].driver = d /\ VolunteerQuiet(d)
        BY <3>1 DEF StartCreateTrip, MayUseVolunteer, LinkAssumption, NoCall, TypeInv, TypeOK
      <3>2. ASSUME NEW t \in Trip, NEW s \in PutTripStatus, StartUpdateTrip(r, t, s)
            PROVE  /\ call'[r].driver = trips[t].driver
                   /\ \A q \in Request : trips[t].driver \notin {call[q].driver, put[q].driver}
        BY <3>2 DEF StartUpdateTrip, FinishCall, NoCall, MayUseVolunteer, VolunteerQuiet,
                    LinkAssumption, TypeInv, TypeOK
      <3>3. ASSUME NEW t \in Trip, StartDeleteTrip(r, t)
            PROVE  /\ call'[r].driver = trips[t].driver
                   /\ \A q \in Request : trips[t].driver \notin {call[q].driver, put[q].driver}
        BY <3>3 DEF StartDeleteTrip, FinishCall, NoCall, MayUseVolunteer, VolunteerQuiet,
                    LinkAssumption, TypeInv, TypeOK
      <3> QED
        BY <1>6, <3>1, <3>2, <3>3 DEF VolunteerQuiet
    <2>3. put[r].driver = put'[r].driver /\ put[r].at = "none"
      BY <1>1, <1>6 DEF StartCreateTrip, StartUpdateTrip, StartDeleteTrip, Free
    <2>4. VolunteersAlone'
      BY <1>1, <1>2, <2>2, <2>3 DEF VolunteersAlone
    <2>5. FinishesKnow'
      <3>1. ASSUME NEW t \in Trip, NEW s \in PutTripStatus, StartUpdateTrip(r, t, s)
            PROVE  KnowsDriver(r)'
        BY <2>1, <3>1 DEF StartUpdateTrip, FinishCall, NoCall, KnowsDriver, TripExists, Gone,
                          TypeInv, TypeOK
      <3>2. ASSUME NEW t \in Trip, StartDeleteTrip(r, t)
            PROVE  KnowsDriver(r)'
        BY <2>1, <3>2 DEF StartDeleteTrip, FinishCall, NoCall, KnowsDriver, TripExists, Gone,
                          TypeInv, TypeOK
      <3>3. ASSUME NEW v \in Vehicle, NEW d \in Volunteer, NEW x \in DriverIdAsText,
                   StartCreateTrip(r, v, d, x)
            PROVE  pc'[r] = "getDriver"
        BY <3>3 DEF StartCreateTrip, Goto, TypeInv, TypeOK
      <3>4. pc'[r] \in {"release", "finishTrip"} => KnowsDriver(r)'
        BY <1>6, <3>1, <3>2, <3>3
      <3>5. ASSUME NEW q \in Request \ {r}, pc'[q] \in {"release", "finishTrip"}
            PROVE  KnowsDriver(q)'
        BY <1>2, <2>1, <3>5 DEF FinishesKnow, KnowsDriver
      <3> QED
        BY <3>4, <3>5 DEF FinishesKnow
    <2>6. AssignsKnow'
      BY <1>2, <2>1 DEF AssignsKnow, Assigning, Driving
    <2>7. pc'[r] \in {"getDriver", "getCargo"} => call'[r].text = FALSE
      <3>1. ASSUME NEW v \in Vehicle, NEW d \in Volunteer, NEW x \in DriverIdAsText,
                   StartCreateTrip(r, v, d, x)
            PROVE  call'[r].text = FALSE
        <4>1. x = FALSE
          BY InputsAssumption DEF LinkAssumption
        <4>2. call'[r].text = x
          BY <3>1 DEF StartCreateTrip, NoCall, TypeInv, TypeOK
        <4> QED
          BY <4>1, <4>2
      <3>2. ASSUME NEW t \in Trip, NEW s \in PutTripStatus, StartUpdateTrip(r, t, s)
            PROVE  pc'[r] \in {"release", "finishTrip"}
        BY <3>2 DEF StartUpdateTrip, Goto, TypeInv, TypeOK
      <3>3. ASSUME NEW t \in Trip, StartDeleteTrip(r, t)
            PROVE  pc'[r] \in {"release", "finishTrip"}
        BY <3>3 DEF StartDeleteTrip, Goto, TypeInv, TypeOK
      <3> QED
        BY <1>6, <3>1, <3>2, <3>3
    <2>8. NumbersOnly'
      BY <1>2, <2>1, <2>7 DEF NumbersOnly
    <2> QED
      BY <1>3, <2>4, <2>5, <2>6, <2>8
  <1> QED
    BY <1>4, <1>5, <1>6

\* The steps of the fleet service, and of a client, that send a PUT.
LEMMA LinkSend ==
  ASSUME LinkAssumption, LinkInv, TypeInv', NEW r \in Request,
         \/ MarkVehicle(r) \/ ReleaseVehicle(r)
         \/ \E d \in Volunteer, s \in StaffStatus \cup {"keep"}, ro \in Role \cup {"keep"} :
               StartUpdateVolunteer(r, d, s, ro)
  PROVE  LinkInv' /\ LinksKept /\ LinkedHasNoTrip
  <1> USE DEF LinkInv
  <1>1. UNCHANGED <<volunteers, trips, call, row>>
    BY DEF MarkVehicle, ReleaseVehicle, StartUpdateVolunteer
  <1>2. /\ pc[r] \notin Assigning /\ pc'[r] \notin Assigning
        /\ pc'[r] \notin {"getDriver", "getCargo"}
        /\ pc'[r] \in {"release", "finishTrip"} => pc[r] \in {"release", "finishTrip"}
        /\ put'[r].at = "sent"
        /\ put'[r].driver = call[r].driver \/ VolunteerQuiet(put'[r].driver)
        /\ \A q \in Request \ {r} : pc'[q] = pc[q] /\ put'[q] = put[q]
    BY DEF MarkVehicle, ReleaseVehicle, StartUpdateVolunteer, SendPut, Goto, Free,
       MayUseVolunteer, Assigning, LinkAssumption, TypeInv, TypeOK
  <1>3. NewUnlinked' /\ CopiesCurrent'
    BY <1>1, <1>2 DEF NewUnlinked, CopiesCurrent
  <1>4. VolunteersAlone'
    BY <1>1, <1>2 DEF VolunteersAlone, VolunteerQuiet
  <1>5. AssignsKnow' /\ NumbersOnly'
    BY <1>1, <1>2 DEF AssignsKnow, Assigning, Driving, NumbersOnly
  <1>6. FinishesKnow'
    BY <1>1, <1>2 DEF FinishesKnow, KnowsDriver
  <1>7. LinksKept /\ LinkedHasNoTrip
    BY <1>1 DEF LinksKept, LinkedHasNoTrip, GetsIncident
  <1> QED
    BY <1>3, <1>4, <1>5, <1>6, <1>7

\* The volunteer service's PUT.
LEMMA LinkPut ==
  ASSUME LinkAssumption, LinkInv, TypeInv', NEW r \in Request, PutStep(r) \/ DropPut(r)
  PROVE  LinkInv' /\ LinksKept /\ LinkedHasNoTrip
  <1> USE DEF LinkInv
  <1>1. /\ UNCHANGED <<trips, pc, call>> /\ put[r].at # "none" /\ put[r].driver \in Volunteer
        /\ put'[r].driver \in {put[r].driver, None}
        /\ \A q \in Request \ {r} : put'[q] = put[q] /\ row'[q] = row[q]
    BY DEF PutStep, ReadVolunteer, UpdateVolunteer, DropPut, NoPut, TypeInv, TypeOK, Put,
           ArgumentsNamed
  <1>2. VolunteersAlone'
    BY <1>1, NoneAssumption DEF VolunteersAlone
  <1>3. AssignsKnow' /\ NumbersOnly' /\ FinishesKnow'
    BY <1>1 DEF AssignsKnow, Driving, NumbersOnly, FinishesKnow, KnowsDriver
  <1>4. \A d \in Volunteer : /\ volunteers'[d].incident = volunteers[d].incident
                             /\ volunteers'[d].status = "new" => volunteers[d].status = "new"
    <2>1. CASE UpdateVolunteer(r)
      <3> DEFINE new == WithFields(row[r], put[r])
      <3>1. row[r] \in VolunteerRow /\ put[r] \in Put
        BY DEF TypeInv, TypeOK
      <3>2. row[r].status # "new" /\ row[r].incident = volunteers[put[r].driver].incident
        BY <2>1 DEF UpdateVolunteer, CopiesCurrent
      <3>3. new.incident = row[r].incident /\ new.status # "new"
        BY <3>1, <3>2 DEF WithFields, VolunteerRow, Put, VolunteerStatus
      <3> HIDE DEF new
      <3>4. \/ volunteers' = volunteers
            \/ volunteers' = [volunteers EXCEPT ![put[r].driver] = new]
        BY <2>1 DEF UpdateVolunteer, WriteVolunteer, new
      <3> QED
        BY <1>1, <3>2, <3>3, <3>4 DEF TypeInv, TypeOK
    <2>2. CASE ReadVolunteer(r) \/ DropPut(r)
      BY <2>2 DEF ReadVolunteer, DropPut
    <2> QED
      BY <2>1, <2>2 DEF PutStep
  <1>5. NewUnlinked'
    BY <1>4 DEF NewUnlinked
  <1>6. \A q \in Request \ {r} : put[q].at = "read" => put[q].driver \in Volunteer
    BY DEF TypeInv, ArgumentsNamed
  <1>7. CopiesCurrent'
    <2>1. CASE ReadVolunteer(r)
      <3>1. put'[r].at = "read" => /\ row'[r] = volunteers[put[r].driver]
                                   /\ put'[r].driver = put[r].driver
                                   /\ volunteers[put[r].driver].status # "new"
        BY <2>1 DEF ReadVolunteer, VolunteerExists, Gone, NoPut, TypeInv, TypeOK, Put
      <3> QED
        BY <1>1, <1>4, <1>6, <2>1, <3>1 DEF CopiesCurrent, ReadVolunteer
    <2>2. CASE UpdateVolunteer(r) \/ DropPut(r)
      <3>1. put'[r].at = "none"
        BY <2>2 DEF UpdateVolunteer, DropPut, NoPut, TypeInv, TypeOK
      <3> QED
        BY <1>1, <1>4, <1>6, <3>1 DEF CopiesCurrent
    <2> QED
      BY <2>1, <2>2 DEF PutStep
  <1>8. LinksKept /\ LinkedHasNoTrip
    BY <1>4 DEF LinksKept, LinkedHasNoTrip, GetsIncident
  <1> QED
    BY <1>2, <1>3, <1>5, <1>7, <1>8

LEMMA LinkAssign ==
  ASSUME LinkAssumption, LinkInv, TypeInv', NEW r \in Request,
         AssignStep(r) \/ \E d \in Volunteer, i \in Incident : StartAssign(r, d, i)
  PROVE  LinkInv' /\ LinksKept /\ LinkedHasNoTrip
  <1> USE DEF LinkInv
  <1>start. ASSUME NEW d \in Volunteer, NEW i \in Incident, StartAssign(r, d, i)
            PROVE  /\ put[r].at = "none" /\ pc'[r] = "getIncident"
                   /\ call'[r].driver = d /\ call'[r].incident = i /\ VolunteerQuiet(d)
    BY <1>start DEF StartAssign, Goto, Free, NoCall, MayUseVolunteer, LinkAssumption, TypeInv, TypeOK
  <1>goon. ASSUME AssignStep(r)
           PROVE  /\ put[r].at = "none" /\ pc'[r] \in Assigning \cup {"idle"}
                  /\ call'[r].driver \in {call[r].driver, None}
    BY <1>goon DEF AssignStep, CheckIncident, CheckTrips, WriteAssign, EndAssign, Answer, Goto,
       NoCall, Assigning, VolunteersAlone, TypeInv, TypeOK
  <1>1. /\ UNCHANGED <<trips, put>> /\ put[r].at = "none"
        /\ \A q \in Request \ {r} : pc'[q] = pc[q] /\ call'[q] = call[q] /\ row'[q] = row[q]
        /\ pc'[r] \in Assigning \cup {"idle"}
        /\ \/ call'[r].driver \in {call[r].driver, None}
           \/ \A q \in Request : call'[r].driver \notin {call[q].driver, put[q].driver}
    <2>1. /\ UNCHANGED <<trips, put>>
          /\ \A q \in Request \ {r} : pc'[q] = pc[q] /\ call'[q] = call[q] /\ row'[q] = row[q]
      BY DEF AssignStep, CheckIncident, CheckTrips, WriteAssign, StartAssign, EndAssign,
         Answer, Goto, TypeInv, TypeOK
    <2> QED
      BY <1>start, <1>goon, <2>1 DEF Assigning, VolunteerQuiet
  <1>2. VolunteersAlone'
    BY <1>1, NoneAssumption DEF VolunteersAlone
  <1>3. NumbersOnly' /\ FinishesKnow'
    BY <1>1 DEF NumbersOnly, FinishesKnow, KnowsDriver, Assigning
  <1>4. AssignsKnow'
    <2>2. CASE CheckTrips(r) /\ pc'[r] # "idle"
      <3>1. /\ call' = call /\ pc[r] = "getTrips" /\ ~HasActiveTrip(call[r].driver)
        BY <2>2 DEF CheckTrips, EndAssign, Answer, Goto, TypeInv, TypeOK
      <3>2. ~Driving(call[r].driver)
        BY <3>1 DEF HasActiveTrip, Driving, NumbersOnly
      <3> QED
        BY <1>1, <3>1, <3>2 DEF AssignsKnow, Assigning, Driving
    <2>3. CASE CheckIncident(r) /\ pc'[r] # "idle"
      <3>1. call' = call /\ pc[r] = "getIncident" /\ pc'[r] = "getTrips"
        BY <2>3 DEF CheckIncident, EndAssign, Answer, Goto, TypeInv, TypeOK
      <3> QED
        BY <1>1, <3>1 DEF AssignsKnow, Assigning, Driving
    <2>4. CASE pc'[r] = "idle"
      BY <1>1, <2>4 DEF AssignsKnow, Assigning, Driving
    <2>5. WriteAssign(r) => pc'[r] = "idle"
      BY DEF WriteAssign, EndAssign, Answer, Goto, TypeInv, TypeOK
    <2>6. CASE \E d \in Volunteer, i \in Incident : StartAssign(r, d, i)
      BY <1>start, <1>1, <2>6 DEF AssignsKnow, Assigning, Driving
    <2> QED
      BY <2>2, <2>3, <2>4, <2>5, <2>6 DEF AssignStep
  <1>5. ASSUME NEW d \in Volunteer, volunteers'[d] # volunteers[d]
        PROVE  /\ volunteers'[d].status = "BUSY" /\ volunteers'[d].incident # None
               /\ ~Driving(d) /\ d = call[r].driver
    <2>1. /\ pc[r] = "writeAssign" /\ d = call[r].driver
          /\ volunteers'[d] = [row[r] EXCEPT !.status = "BUSY", !.incident = call[r].incident]
      BY <1>5 DEF AssignStep, CheckIncident, CheckTrips, WriteAssign, StartAssign, WriteVolunteer,
                  TypeInv, TypeOK
    <2>2. row[r] \in VolunteerRow /\ call[r].incident \in Incident /\ ~Driving(d)
      BY <2>1 DEF AssignsKnow, Assigning, TypeInv, TypeOK
    <2> QED
      BY <2>1, <2>2, NoneAssumption DEF VolunteerRow
  <1>6. CopiesCurrent'
    <2>1. ASSUME NEW q \in Request, put[q].at = "read"
          PROVE  q # r /\ volunteers'[put[q].driver] = volunteers[put[q].driver]
      BY <1>1, <1>5, <2>1 DEF VolunteersAlone, TypeInv, ArgumentsNamed
    <2> QED
      BY <1>1, <2>1 DEF CopiesCurrent
  <1>7. NewUnlinked' /\ LinksKept /\ LinkedHasNoTrip
    BY <1>5 DEF NewUnlinked, LinksKept, LinkedHasNoTrip, GetsIncident
  <1> QED
    BY <1>2, <1>3, <1>4, <1>6, <1>7

LEMMA LinkConsole ==
  ASSUME LinkInv, TypeInv', Console \/ \E i \in Incident, s \in IncidentStatus \cup {"deleted"} :
                                          SetIncident(i, s)
  PROVE  LinkInv' /\ LinksKept /\ LinkedHasNoTrip
  <1> USE DEF LinkInv
  <1>1. UNCHANGED <<trips, pc, call, put, row>>
    BY DEF Console, CreateVehicle, DeleteVehicle, UpdateVehicle, DeleteVolunteer,
           CreateVolunteer, SetIncident
  <1>2. \A d \in Volunteer : /\ volunteers'[d].incident = volunteers[d].incident
                             /\ volunteers'[d].status = "new" => volunteers[d].status = "new"
    <2>1. ASSUME NEW d \in Volunteer, NEW ro \in Role, CreateVolunteer(d, ro)
          PROVE  \A e \in Volunteer :
                    /\ volunteers'[e].incident = volunteers[e].incident
                    /\ volunteers'[e].status = "new" => volunteers[e].status = "new"
      BY <2>1 DEF CreateVolunteer, NewUnlinked, TypeInv, TypeOK
    <2>2. ASSUME NEW d \in Volunteer, DeleteVolunteer(d)
          PROVE  \A e \in Volunteer :
                    /\ volunteers'[e].incident = volunteers[e].incident
                    /\ volunteers'[e].status = "new" => volunteers[e].status = "new"
      BY <2>2 DEF DeleteVolunteer, TypeInv, TypeOK, VolunteerRow
    <2> QED
      BY <2>1, <2>2 DEF Console, CreateVehicle, DeleteVehicle, UpdateVehicle, SetIncident
  <1>3. NewUnlinked' /\ CopiesCurrent'
    BY <1>1, <1>2 DEF NewUnlinked, CopiesCurrent, TypeInv, ArgumentsNamed
  <1>4. VolunteersAlone' /\ AssignsKnow' /\ NumbersOnly' /\ FinishesKnow'
    BY <1>1 DEF VolunteersAlone, AssignsKnow, Driving, NumbersOnly, FinishesKnow, KnowsDriver
  <1>5. LinksKept /\ LinkedHasNoTrip
    BY <1>2 DEF LinksKept, LinkedHasNoTrip, GetsIncident
  <1> QED
    BY <1>3, <1>4, <1>5

\* A restart ends requests and PUTs, and forgets what they knew; of a request of the
\* fleet service that dies, the PUT lives on.
LEMMA LinkRestart ==
  ASSUME LinkInv, TypeInv', RestartFleet \/ RestartVolunteer
  PROVE  LinkInv' /\ LinksKept /\ LinkedHasNoTrip
  <1> USE DEF LinkInv
  <1>1. /\ UNCHANGED <<trips, volunteers>>
        /\ \A r \in Request :
              /\ \/ pc'[r] = pc[r] /\ call'[r] = call[r]
                 \/ pc'[r] = "idle" /\ call'[r].driver = None
              /\ \/ put'[r] = put[r] /\ row'[r] = row[r]
                 \/ put'[r].at = "none" /\ put'[r].driver = None
    BY DEF RestartFleet, RestartVolunteer, NoCall, NoPut
  <1>2. VolunteersAlone'
    BY <1>1, NoneAssumption DEF VolunteersAlone, Assigning
  <1>3. CopiesCurrent' /\ NewUnlinked'
    BY <1>1 DEF CopiesCurrent, NewUnlinked
  <1>4. AssignsKnow' /\ NumbersOnly' /\ FinishesKnow'
    BY <1>1 DEF AssignsKnow, Assigning, Driving, NumbersOnly, FinishesKnow, KnowsDriver
  <1>5. LinksKept /\ LinkedHasNoTrip
    BY <1>1 DEF LinksKept, LinkedHasNoTrip, GetsIncident
  <1> QED
    BY <1>2, <1>3, <1>4, <1>5

LEMMA LinkNext ==
  LinkAssumption /\ LinkInv /\ [Next]_vars => LinkInv' /\ LinksKept /\ LinkedHasNoTrip
  <1> SUFFICES ASSUME LinkAssumption, LinkInv, [Next]_vars
               PROVE  LinkInv' /\ LinksKept /\ LinkedHasNoTrip
    OBVIOUS
  <1>0. TypeInv'
    BY TypeNext DEF LinkInv
  <1>1. CASE UNCHANGED vars
    BY <1>0, <1>1 DEF vars, LinkInv, NewUnlinked, VolunteersAlone, CopiesCurrent, AssignsKnow,
                      Driving, FinishesKnow, KnowsDriver, NumbersOnly, LinksKept, LinkedHasNoTrip,
                      GetsIncident
  <1>2. ASSUME NEW r \in Request, Arrival(r) \/ HandlerStep(r) \/ PutStep(r) \/ DropPut(r)
        PROVE  LinkInv' /\ LinksKept /\ LinkedHasNoTrip
    BY <1>0, <1>2, LinkTrips, LinkSend, LinkPut, LinkAssign
    DEF Arrival, HandlerStep, CreateTripStep, FinishTripStep
  <1> QED
    BY <1>0, <1>1, <1>2, LinkConsole, LinkRestart DEF Next, Environment

LEMMA LinkAlways ==
  LinkAssumption => (Spec => [][LinksKept]_vars /\ [][LinkedHasNoTrip]_vars)
  <1>1. ASSUME LinkAssumption
        PROVE  LinkInv /\ [Next]_vars => LinkInv' /\ [LinksKept]_vars /\ [LinkedHasNoTrip]_vars
    BY <1>1, LinkNext
  <1>2. ASSUME LinkAssumption PROVE Spec => [][LinksKept]_vars /\ [][LinkedHasNoTrip]_vars
    BY <1>1, <1>2, LinkInit, PTL DEF Spec
  <1> QED
    BY <1>2

\* A volunteer that was linked to an incident keeps a link, whichever PUTs of its row
\* are lost, come late or outlive their callers, and whatever restarts.
THEOREM AssignmentKeptTheorem == LinkAssumption => (Spec => AssignmentKept)
  BY LinkAlways DEF LinksKept, AssignmentKept

\* Assign links nobody who drives an active trip, although it asks for the trips
\* before it writes.
THEOREM AssignedHasNoTripTheorem == LinkAssumption => (Spec => AssignedHasNoTrip)
  BY LinkAlways DEF LinkedHasNoTrip, Driving, AssignedHasNoTrip

-----------------------------------------------------------------------------
(* The safe half of DriverFreed: that a driver is to be freed is forgotten  *)
(* only as the driver's row says so.                                        *)

\* No call to the volunteer service is lost, neither on its way nor by a restart.
NothingLost == Faults \cap {"drop", "restart"} = {}

\* r is going to release the driver d, or its PUT that does so is under way.
Freeing(r, d) ==
  \/ pc[r] = "release" /\ call[r].driver = d
  \/ put[r].at # "none" /\ put[r].driver = d /\ put[r].status = "AVAILABLE"

\* A handler that has not sent its PUT has none under way that its PUT would replace.
OneCall ==
  \A r \in Request :
     pc[r] \in {"getDriver", "getCargo", "markVehicle", "release"} => put[r].at = "none"

FreeingInv == TypeInv /\ OneCall

\* The release of a driver, from the moment update_trip_status or delete_trip has
\* decided on it, stays under way until the driver's row is not IN_USE, even if the
\* handler has given the call up or fails to write the vehicle or the trip.
FreeingKept ==
  [][\A r \in Request, d \in Volunteer :
        Freeing(r, d) => Freeing(r, d)' \/ volunteers'[d].status # "IN_USE"]_vars

FreeingMoves ==
  \A r \in Request, d \in Volunteer :
     Freeing(r, d) => Freeing(r, d)' \/ volunteers'[d].status # "IN_USE"

OfRequest(r) == Arrival(r) \/ HandlerStep(r) \/ PutStep(r) \/ DropPut(r)

\* A step of one request leaves the program counter and the calls of others alone.
LEMMA OthersAlone ==
  ASSUME TypeInv, NEW q \in Request, NEW r \in Request, q # r, OfRequest(q)
  PROVE  pc'[r] = pc[r] /\ call'[r] = call[r] /\ put'[r] = put[r]
<1> USE DEF Goto, Answer, SendPut, TypeInv, TypeOK
<1>1. CASE Arrival(q)
  BY <1>1 DEF Arrival, StartCreateTrip, StartUpdateTrip, StartDeleteTrip,
              StartUpdateVolunteer, StartAssign
<1>2. CASE CreateTripStep(q)
  BY <1>2 DEF CreateTripStep, CheckDriver, RefuseTrip, MarkVehicle, FinishCreateTrip,
              InsertTrip
<1>3. CASE FinishTripStep(q)
  BY <1>3 DEF FinishTripStep, ReleaseVehicle, SetTripStatus, DeleteTripRow
<1>4. CASE AssignStep(q)
  BY <1>4 DEF AssignStep, CheckIncident, CheckTrips, WriteAssign, EndAssign
<1>5. CASE PutStep(q) \/ DropPut(q)
  BY <1>5 DEF PutStep, ReadVolunteer, UpdateVolunteer, DropPut
<1> QED BY <1>1, <1>2, <1>3, <1>4, <1>5 DEF OfRequest, HandlerStep

\* What a step of r does to its own program counter and calls.
LEMMA OwnStep ==
  ASSUME FreeingInv, NEW r \in Request, HandlerStep(r)
  PROVE  \/ /\ pc[r] # "release" /\ pc'[r] # "release" /\ put'[r] = put[r]
            /\ pc'[r] \in {"getCargo", "markVehicle"} => pc[r] \in {"getDriver", "getCargo"}
            /\ pc'[r] # "getDriver"
         \/ pc[r] = "markVehicle" /\ pc'[r] = "awaitMark"
         \/ /\ pc[r] = "release" /\ pc'[r] = "finishTrip"
            /\ put'[r] = [at |-> "sent", driver |-> call[r].driver,
                          status |-> "AVAILABLE", role |-> "keep"]
<1> USE DEF Goto, Answer, SendPut, FreeingInv, TypeInv, TypeOK
<1>1. CASE CreateTripStep(r)
  BY <1>1 DEF CreateTripStep, CheckDriver, RefuseTrip, MarkVehicle, FinishCreateTrip,
              InsertTrip
<1>2. CASE FinishTripStep(r)
  BY <1>2 DEF FinishTripStep, ReleaseVehicle, SetTripStatus, DeleteTripRow
<1>3. CASE AssignStep(r)
  BY <1>3 DEF AssignStep, CheckIncident, CheckTrips, WriteAssign, EndAssign
<1> QED BY <1>1, <1>2, <1>3 DEF HandlerStep

LEMMA OneCallStep == FreeingInv /\ [Next]_vars => FreeingInv'
<1> SUFFICES ASSUME FreeingInv, [Next]_vars PROVE OneCall'
  BY TypeNext DEF FreeingInv
<1> USE DEF FreeingInv, OneCall
<1>1. ASSUME NEW q \in Request, OfRequest(q) PROVE OneCall'
  <2> SUFFICES ASSUME NEW r \in Request,
                      pc'[r] \in {"getDriver", "getCargo", "markVehicle", "release"}
               PROVE  put'[r].at = "none"
    OBVIOUS
  <2>1. CASE q # r
    BY <1>1, <2>1, OthersAlone
  <2>2. CASE q = r /\ Arrival(r)
    BY <2>2 DEF Arrival, StartCreateTrip, StartUpdateTrip, StartDeleteTrip,
                StartUpdateVolunteer, StartAssign, Free, TypeInv, TypeOK, Goto
  <2>3. CASE q = r /\ HandlerStep(r)
    BY <2>3, OwnStep
  <2>4. CASE q = r /\ (PutStep(r) \/ DropPut(r))
    BY <2>4 DEF PutStep, ReadVolunteer, UpdateVolunteer, DropPut
  <2> QED BY <1>1, <2>1, <2>2, <2>3, <2>4 DEF OfRequest
<1>2. CASE Console \/ (\E i \in Incident, s \in IncidentStatus \cup {"deleted"} : SetIncident(i, s))
  BY <1>2 DEF Console, CreateVehicle, DeleteVehicle, UpdateVehicle, DeleteVolunteer,
              CreateVolunteer, SetIncident
<1>3. CASE RestartFleet
  BY <1>3 DEF RestartFleet
<1>4. CASE RestartVolunteer
  BY <1>4 DEF RestartVolunteer, NoPut
<1>5. CASE UNCHANGED vars
  BY <1>5 DEF vars
<1> QED BY <1>1, <1>2, <1>3, <1>4, <1>5 DEF Next, Environment, OfRequest

LEMMA FreeingStep == NothingLost /\ FreeingInv /\ Next => FreeingMoves
<1> SUFFICES ASSUME NothingLost, FreeingInv, Next, NEW r \in Request, NEW d \in Volunteer,
                    Freeing(r, d)
             PROVE  Freeing(r, d)' \/ volunteers'[d].status # "IN_USE"
  BY DEF FreeingMoves
<1>0. ~DropPut(r) /\ ~RestartFleet /\ ~RestartVolunteer
  BY DEF NothingLost, DropPut, RestartFleet, RestartVolunteer
<1>s. ASSUME pc'[r] = pc[r], call'[r] = call[r], put'[r] = put[r]
      PROVE  Freeing(r, d)'
  BY <1>s DEF Freeing
<1>1. ASSUME NEW q \in Request, q # r, OfRequest(q) PROVE Freeing(r, d)'
  BY <1>1, <1>s, OthersAlone DEF FreeingInv
<1>2. ~Arrival(r)
  BY DEF Freeing, Arrival, StartCreateTrip, StartUpdateTrip, StartDeleteTrip,
         StartUpdateVolunteer, StartAssign, Free
<1>3. CASE HandlerStep(r)
  <2>1. CASE pc[r] # "release" /\ put'[r] = put[r]
    BY <2>1 DEF Freeing
  <2>2. CASE pc[r] = "markVehicle"
    BY <2>2 DEF Freeing, FreeingInv, OneCall
  <2>3. CASE /\ pc[r] = "release"
             /\ put'[r] = [at |-> "sent", driver |-> call[r].driver,
                           status |-> "AVAILABLE", role |-> "keep"]
    <3>1. call[r].driver = d
      BY <2>3 DEF Freeing, FreeingInv, OneCall
    <3> QED BY <2>3, <3>1 DEF Freeing
  <2> QED BY <1>3, <2>1, <2>2, <2>3, OwnStep
<1>4. CASE ReadVolunteer(r)
  <2>1. CASE VolunteerExists(put[r].driver)
    BY <1>4, <2>1 DEF ReadVolunteer, Freeing, FreeingInv, TypeInv, TypeOK, Put
  <2>2. CASE ~VolunteerExists(put[r].driver) /\ pc[r] = "release"
    BY <1>4, <2>2 DEF ReadVolunteer, FreeingInv, OneCall
  <2>3. CASE ~VolunteerExists(put[r].driver) /\ pc[r] # "release"
    BY <1>4, <2>3 DEF ReadVolunteer, Freeing, VolunteerExists, Gone
  <2> QED BY <2>1, <2>2, <2>3
<1>5. CASE UpdateVolunteer(r)
  <2>1. put[r].driver = d /\ put[r].status = "AVAILABLE" /\ row[r] \in VolunteerRow
    BY <1>5 DEF UpdateVolunteer, Freeing, FreeingInv, OneCall, TypeInv, TypeOK
  <2>2. WithFields(row[r], put[r]).status = "AVAILABLE"
    BY <2>1 DEF WithFields, VolunteerRow
  <2>3. CASE VolunteerExists(d)
    BY <1>5, <2>1, <2>2, <2>3 DEF UpdateVolunteer, WriteVolunteer, FreeingInv, TypeInv, TypeOK
  <2>4. CASE ~VolunteerExists(d)
    BY <1>5, <2>1, <2>4 DEF UpdateVolunteer, WriteVolunteer, VolunteerExists, Gone
  <2> QED BY <2>3, <2>4
<1>6. CASE Console \/ (\E i \in Incident, s \in IncidentStatus \cup {"deleted"} : SetIncident(i, s))
  BY <1>6, <1>s DEF Console, CreateVehicle, DeleteVehicle, UpdateVehicle, DeleteVolunteer,
                    CreateVolunteer, SetIncident
<1> QED
  BY <1>0, <1>1, <1>2, <1>3, <1>4, <1>5, <1>6 DEF Next, Environment, OfRequest, PutStep

\* For any handlers that overlap: as long as no call is lost, that a driver is to be
\* freed is not forgotten, overtaken or replaced before the driver's row says so.
THEOREM FreeingKeptTheorem == NothingLost => (Spec => FreeingKept)
<1> SUFFICES ASSUME NothingLost PROVE Spec => FreeingKept
  OBVIOUS
<1>1. Init => FreeingInv
  BY TypeInit DEF Init, FreeingInv, OneCall, NoPut
<1>2. FreeingInv /\ [Next]_vars => [FreeingMoves]_vars
  BY FreeingStep
<1>3. Spec => [][FreeingMoves]_vars
  BY <1>1, <1>2, OneCallStep, PTL DEF Spec
<1> QED BY <1>3 DEF FreeingKept, FreeingMoves

=============================================================================
