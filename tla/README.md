# A verification of MTIT, the disaster-relief coordination system

MTIT is a set of small services behind a gateway: incidents are reported, alerts
and shelters follow from them, volunteers are assigned, vehicles make trips, and
relief goods are dispatched to shelters. Each service has a database of its own
and calls the others over HTTP. There is no transaction that spans two services,
hardly any that spans two statements, and no compensation when one of several
steps fails. What can go wrong lies between the steps, so the modules split every
handler at its database operations, HTTP calls and awaits.

Contents: 1 inventory, 2 the modules and how they correspond to the code, 3 what
is model-checked, 4 fairness, 5 what is proved, 6 where the code and its
documents disagree, 7 what is not modelled, 8 the plan.

## 1. Inventory

| component | state | operations that change it | calls |
|---|---|---|---|
| incident-service (Go, PostgreSQL) | `incidents(id, status, ...)`, `incidents_id_seq` | POST, PUT status, PUT, DELETE | alert, shelter |
| alert-service (Go, PostgreSQL) | `alerts(id, incident_id, ...)` | POST, PUT, DELETE | incident |
| shelter-service (Node, PostgreSQL) | `shelters(id, capacity, current_occupancy, status, ...)` | POST, PUT occupancy, PUT, DELETE | incident |
| resource-service (Go, MongoDB) | `resources(quantity, available, status)`, `counters` | POST, PUT, DELETE, PUT dispatch | shelter |
| fleet-service (Python/Flask, MongoDB) | `vehicles(status)`, `trips(vehicle, driver, status)` | vehicle and trip POST, PUT, DELETE; `init_db` seeds vehicles | volunteer, resource, shelter |
| volunteer-service (Go, PostgreSQL) | `volunteers(role, status, incident)` | POST, PUT, DELETE, PUT assign | incident, fleet |
| gateway (Go, Redis) | response cache, request log, token buckets, settings | GET fills, other methods invalidate; expiry; `Log`, `Clear`; every request takes from a bucket | all |
| auth-service (Go) | settings read at its start | POST login signs a token | none |

How they interact:

- **create an incident**: insert the row, POST to alert, then POST to shelter;
  each of the two calls back `GET /incidents/{id}` before it inserts. The caller
  waits 5 seconds and undoes nothing.
- **create a trip**: the vehicle is read, the driver, the resource and the
  shelter are asked for in turn, the trip is inserted, the vehicle is set
  IN_USE, `PUT /volunteers/{id}` sets the driver IN_USE. Completing or deleting
  a trip releases both.
- **assign a volunteer**: the row is read, the incident is asked for, then the
  trips of the volunteer, and the row read first is written back as BUSY.
- **dispatch goods**: the stock is read, the shelter is asked for, and the stock
  that was computed is written.
- **gateway**: a GET is looked up in Redis, otherwise proxied and stored; any
  other method is proxied, and a success deletes the entries of its path prefix.
  Before that comes `checkAuth`, which knows a token of the auth-service by the
  secret and the user that both have in their .env files, and then the limiter,
  which `/trips` and `/vehicles` share, as do `/login` and `/auth`.
- **starts**: a service exits when its database is not ready, and Docker starts it
  again (`restart: unless-stopped`). `GET /status` asks the seven services for
  their health in a row, 3 seconds each and 5 for all.

What is hard, and what makes each component correct:

| component | hard behaviour | correct if |
|---|---|---|
| fleet, volunteer | overlapping handlers, PUTs that outlive their caller's timeout, restarts in the middle | no vehicle is held for ever, or by two trips; drivers are released; rows stay consistent |
| shelter | read, await, write; an exception ends the process | the occupancy fits; the status changes only on request |
| resource | a stock computed from a read that is seconds old | no more goods go out than exist, and only to shelters that take them |
| incident, alert | partial failure, late effects, a sequence reset at each start | 201 means announced; rows name their own incident; a POST is answered |
| cache | a fill that overtakes an invalidation; one datum shown under several prefixes | nobody reads behind an answered mutation; staleness ends |
| log | the ring wraps | it is the list of the latest entries, also for its statistics and its tail |
| limits and tokens | two targets on one bucket; an expiry in whole seconds; settings read at different starts | nobody exceeds the limit, and only a used-up limit refuses; a token is good for its time and no longer |
| starts and `/status` | databases and processes that refuse, hang and return at any step; two deadlines | everything serves in the end; the page is answered, and one fault does not hide the services after it |

`PROJECT.json` lists every hazard at its line with the properties that cover it.

## 2. The modules

| module | models | used by |
|---|---|---|
| `TripDispatch` | fleet-service with volunteer-service | `MCTripDispatch`, `TripDispatch_proofs` |
| `ShelterService` | shelter-service | `ReliefSupply`, `ShelterService_proofs` |
| `ReliefSupply` | resource-service composed with `ShelterService` | `MCReliefSupply`, `ReliefSupply_proofs` |
| `IncidentSaga` | incident-, alert- and shelter-service around an incident | `MCIncidentSaga`, `IncidentSaga_proofs` |
| `GatewayCache` | the gateway's cache handler over Redis | `MCGatewayCache`, `GatewayCache_proofs` |
| `GatewayAdmission` | the gateway's `checkAuth` and rate limiters, with auth-service | `MCGatewayAdmission`, `GatewayAdmission_proofs` |
| `ServiceHealth` | the starts of all services and the gateway's `GET /status` | `MCServiceHealth`, `ServiceHealth_proofs` |
| `Booking` | the abstract specification of trips: booking a vehicle and giving it back | `TripDispatch` |
| `GoodsStore` | the abstract specification of dispatching | `ReliefSupply` |
| `RequestLog` | the ring buffer of `gateway/internal/logging` | `RequestLog_proofs` |
| `RecentRequests` | the abstract specification of the log | `RequestLog` |

Conventions. An action is everything a handler does up to its next database
operation, HTTP call or await, guards and early returns included; `pc` says where
a request is, `call`, `order`, `job` or `req` holds its local variables. An
answer returns the request to `idle`. A refusal that changes nothing is a stutter
and has no action, unless it ends a handler that is already under way. Identifiers
are model values: `"new"` is one that has not been given out and `"deleted"` one
that was, so that no identifier is used twice (MongoDB ids, SERIAL columns and
the counter of resource-service never repeat one; in `IncidentSaga`, where the
sequence may go back, identifiers are numbers). Names, phone numbers,
descriptions, locations and the wording of replies are left out. An
operator whose comment starts with "Mutant:" is not part of the model: it is a
plausible bug, kept to see that a property notices it.

**TripDispatch.** `vehicles`, `trips` and `volunteers` are the collections and
the table; `incidents` is what incident-service would answer. A request `r` runs
one of `create_trip`, `update_trip_status`, `delete_trip` (`fleet-service/app.py`)
or `Assign` (`volunteer_service.go`). The `PUT /volunteers/{id}` that the fleet
service sends is in `put[r]` and has its own life: `ReadVolunteer` and
`UpdateVolunteer` are the two halves of the Go handler, and the caller may go on
before they happen (`WaitOver`). `Update` of the repository replaces all columns
from the row read earlier. Documents that are gone make an update match nothing.
Every failed vehicle, driver or trip write of the fleet service is caught, so that
the handler continues. `trips_for_volunteer` compares the stored `driver_id` with
an int, so that a `driverId` that came as text is invisible to it
(`DriverIdAsText`). The answers of resource- and shelter-service to `create_trip`
are a choice, `InsertTrip` or `RefuseTrip`. `RestartFleet` ends the fleet
handlers and runs `init_db`; `RestartVolunteer` ends assignments and PUTs.

**ShelterService.** Node runs a handler without interruption up to its next
await; each handler is a SELECT with its checks (`Start...`) and a statement
(`Insert...`, `Write...`, `DeleteShelter`). Express 4 does not catch the rejection
of an async handler, so that a failing query, or reading a field of a row deleted
meanwhile (`WriteShelter`), ends the process: all requests are in `lost`, their
statements may or may not take effect, and `ClientSeesReset` frees them. A
statement already sent is assumed to take effect, if at all, before its client
sends something new.

**ReliefSupply** extends ShelterService: `resources` are the documents, a
dispatcher runs `DispatchResource`, and `GetShelter` reads the shelter row at the
moment the shelter-service answers. `UpdateDispatch` writes an absolute number.
After an error of MongoDB nobody knows whether it was written. `sent` is a history
variable: what was confirmed to clients since the stock was last set. A shelter
step and a supply step never happen together.

**IncidentSaga.** `next` is what `incidents_id_seq` yields; `Restart` runs
`ensureSequenceStart`, whose `setval` to MAX(id) + 1 leaves `is_called` true, so
that the next number is MAX(id) + 2; 1 stands for 101. `call[g][v]` is the POST
to service `v` made for `g`: "sent", then validated by the callback ("insert"),
then "done" or "refused"; it goes on when the caller has given up. The history
fields `by`, `of` and the variable `restarted` tell apart incidents that were
given the same number. What the client of a POST sends is `Report[g]`; type,
location and severity of an incident, and message and severity of its alert, are
one value (`Text`). It takes the code's way: `InsertIncident` writes it to the row
and returns it (`job`), `TriggerAlert` makes the `message` of what was returned, the
alert-service validates the incident and `InsertRow` stores what the message says,
while `UpdateIncident`, `UpdateAlert` and deletions go on. A `Restart` may leave
INSERTs that PostgreSQL has received (`"orphan"`): they still make their incident,
which nobody announces. A PUT writes and then reads its reply; only the write is an
action, for the reply changes nothing.

**GatewayCache.** A cached reply is represented by the version of the datum it
shows, `-1` is no entry. `InvalidateByPrefix` is a `SCAN` that is bound to yield
what was there all along (`Scan`), and deletes key by key, possibly also keys that
came meanwhile (`DeleteEntry`). Redis errors count as misses and are otherwise
ignored; a client that goes away cancels the invalidation. A mutation's reply is
taken to reach its client when the handler is done: the replies are small, and
net/http holds them back until then. `Touches` says what a mutation changes:
`POST /trips` changes what `GET /vehicles` shows.

**GatewayAdmission.** A bucket holds `level` in a unit that is finer than requests
(`Cost` per request), since a rate need not be whole; `Tick` refills all buckets.
`Arrive` is `checkAuth`, `Admit` and `Refuse` are the two answers of `Allow()`: the
code asks for the token first, so that a 401 takes nothing. `LoginHandler` signs a
token whose expiry is cut to whole seconds. `RestartGateway` and `RestartAuth`
read .env again, which may have changed for one service and not yet for the other;
the gateway then starts with full buckets. `LimiterOf` names a limiter by the first
target that has it, as `main()` shares one between the targets of a service.
`window` and `full` are histories: per service, what was served and how often the
gateway was restarted since an observer began to count (`Observe`), whichever
limiters its targets have; and per limiter, what was served since its bucket was last
full. Settings that are no numbers are part of the constants (`RateEnv`,
`TtlEnv`). Authentication is taken to be on, as in `.env.example`.

**ServiceHealth.** `proc` says how far a process has come: "exited", "connect"
(open and ping), "create" (its tables), "listen". What follows from an error is not
the same everywhere: incident-, volunteer-, resource- and fleet-service exit;
shelter-service listens already while it creates its table, and exits when that
fails; alert-service drops the error and serves without its table. PostgreSQL
clients wait for a silent database for ever, those of MongoDB have a timeout.
A fault (at most `MaxFaults`) makes a process exit, silences it, or makes a
database refuse or hang; all of them may end again. Only alert-service has a
health check of its database (the others pass `nil`), which gives up after 2
seconds. `page` is the one `GET /status` under way with its two clocks: `Second`
passes only while the service asked keeps it waiting; everything else takes no time.

**RequestLog** has `Log`, `Clear`, `GetEntries`, `GetLastN` and `GetStats` (an
RWMutex makes each one step); **RecentRequests** is the list of the latest
`MaxSize` entries, and `RequestLog!Recent` maps the ring to it.

### What clients promise

Several properties do not hold for every overlap. Where one does not, the model
says what clients would have to promise for it to hold, as a constant, and
section 6 says what happens without the promise.

| promise | meaning |
|---|---|
| `"answered_trips"` | a trip is completed or deleted only after its POST was answered |
| `"vehicle_alone"` | a request about a vehicle starts only when no other about that vehicle is under way (`VehicleQuiet`) |
| `"volunteer_alone"` | the same for a volunteer, counting PUTs whose callers have given them up (`VolunteerQuiet`) |
| `"finish_once"` | no status is written to a COMPLETED trip |
| `"update_alone"` | an update of a shelter overlaps with no other change of it |
| `OneByOne` | the resources whose dispatches overlap neither one another nor an update |
| `"shelter_still"` | nobody changes a shelter while goods are dispatched to it |
| `"quiet"` | no GET that asks a service overlaps with a mutation in that service |

What a promise rules out is a race that the code does not guard against. A property
checked under it shows that nothing else breaks it, and not that this race is
harmless; the notes of the hazards in `PROJECT.json` say so one by one.

## 3. What is model-checked

State counts are distinct states.

| run | instance | shows |
|---|---|---|
| `trips_races` (3.52M) | 2 vehicles, 2 trips, 1 driver, 1 incident, 2 requests; all writers of the volunteer's row, lost and late PUTs, restarts; `answered_trips` | `TypeOK`, `HeldVehicle`, `BusyNamesIncident`, `NoResurrection` |
| `trips_alone` (1.71M) | 2 vehicles, 2 trips, 2 drivers, 1 incident, 2 requests, lost and late PUTs; `vehicle_alone`, `volunteer_alone`, `finish_once` | `NoDoubleBooking`, `AvailableVehicleIsFree`, `BookingIsAtomic`, `AssignedHasNoTrip`, `AssignmentKept` |
| `trips_freed` (116k) | 1 vehicle, 2 trips, 2 requests; late PUTs, failing MongoDB writes; no promise | `DriverFreed` |
| `supply_overlaps` (439k) | 2 resources (one `OneByOne`), 2 dispatchers, 1 shelter with 2 requests, capacity up to 2, one piece of each; failing queries and MongoDB errors; `update_alone` | `OccupancyFits`, `StatusChangesOnRequest`, `SupplyTypeOK` (with `ShelterTypeOK`), `StockNotNegative`, `StockCovered`, `SentToWelcoming`, `DispatchIsAtomic` |
| `saga_restarts` (753k) | 2 POSTs that report different things, 4 identifiers, edits, everything may fail, be late or restart | `IncidentTypeOK`, `SequenceAhead`, `CreatedIsAnnounced`, `RowNamesItsIncident`, `CreateAnswered`, `AlertTellsReport` |
| `cache_quiet` (14.9k) | 2 URLs of one target, 3 requests, 2 changes; `quiet` | `CacheTypeOK`, `StaleIsDoomed`, `ReadsSeeAnswered` |
| `cache_settles` (7.6k) | the two targets of the fleet-service, 2 requests, Redis errors, late errors; no promise | `FreshInTheEnd` |
| `gateway_admits` (2.07M) | 2 requests to `/trips`, `/vehicles` and `/login`, one token, 5 half-seconds, both services restart with either of two settings, the gateway once while an observer counts | `AdmissionTypeOK`, `WithinLimit`, `FreshTokenAccepted`, `ServedWithToken`, `RefusedAtLimit` |
| `service_health` (657k) | volunteer-, shelter-, alert- and auth-service with three databases, 2 faults, one `GET /status` after the other | `HealthTypeOK`, `HiddenByTwo`, `StatusAnswered`, `ServesInTheEnd` |
| `log_wraps` (1109) | a ring of 4, any history of `Log` and `Clear` | `LogTypeOK`, `LastNAreLatest`, `KeepsTheLatest`, `StatsSlide` |
| `doc_double_booking` | 2 overlapping POST /trips | `NoDoubleBooking` is violated |
| `doc_stock` | 2 overlapping dispatches | `StockSufficient` is violated |

What they show, in words:

- `HeldVehicle`: however trips are created, completed and deleted, no vehicle
  stays IN_USE when all trips that named it are over, even with timeouts and
  restarts. The order of writes in `create_trip` (trip first) and in
  `update_trip_status` (vehicle first) is what makes it true.
- `BusyNamesIncident`: whole-row writes from stale copies never tear a BUSY row
  from its incident, because status and incident are always in the same write.
- `DriverFreed`: even with timeouts and a late PUT overtaking another, a driver
  whose trip ends is seen out of IN_USE at some later time.
- `NoDoubleBooking` and `AvailableVehicleIsFree` hold as long as no two requests
  about one vehicle overlap, with failures of the calls to the volunteer service
  and any overlap that is about different vehicles: double booking is a matter of
  two requests about the same vehicle alone. `BookingIsAtomic` says the same as a
  refinement: to whoever sees only which vehicle is on which trip, a trip is booked
  in one step and over in one step.
- `AssignedHasNoTrip` and `AssignmentKept`: what `Assign` is for, as long as no two
  requests about one volunteer overlap.
- `OccupancyFits` and `StatusChangesOnRequest`: the checks of shelter-service
  suffice exactly when updates do not overlap with other changes of the same
  shelter; deletions, occupancy updates and the death of the process may.
- `StockCovered`: dispatches of a resource one by one keep its books, whatever
  happens to other resources; `StockNotNegative` needs no promise.
- `DispatchIsAtomic`: such a resource is a `GoodsStore`, from which each dispatch takes
  in one step what it confirms; none is lost, and what was deleted stays so.
- `SentToWelcoming`: goods are confirmed only to a shelter that is OPEN and has
  room at that moment.
- `SequenceAhead`: whatever is deleted before a restart, `ensureSequenceStart`
  leaves the sequence above all rows; `RowNamesItsIncident` holds until a
  restart, after which numbers of deleted incidents are given out again.
- `StaleIsDoomed`, `ReadsSeeAnswered`: under `quiet`, invalidation works;
  `FreshInTheEnd`: in any case the expiry heals what it missed, once the data rest.
- `AlertTellsReport`: what an alert tells is what the client of its POST has sent. It
  passes through the incident, what `Create` returns, the message, and the
  alert-service's handler; no edit or deletion of the incident meanwhile, no other POST
  and no number given twice gets in.
- `WithinLimit`: however requests to `/trips` and `/vehicles` mix, and from whatever
  moment one counts, the service that both reach gets at most a burst and its rate,
  and one more burst for each restart of the gateway. With a limiter for each target
  it would get two. `RefusedAtLimit`: who is answered 429 met a limit that
  served requests used up, and not requests that were refused.
- `FreshTokenAccepted` and `ServedWithToken`: a token is good for its time to live
  but the last second, and never longer, for the cut of `exp` to whole seconds goes
  that way; after a change of .env it is good again only when both services have it.
- `HiddenByTwo`: in `GET /status`, a service that is well is shown "down" only if two
  services asked before it were not; with three deployed services in front, one that
  hangs (3 s) and the alert-service with a silent database (2 s) suffice for that.
  `StatusAnswered`: the page comes whatever hangs.
- `ServesInTheEnd`: from any order of starts, failures and returns, once the databases
  answer and nothing hangs, all services serve and have their tables, except that
  the alert-service may be without.
- `KeepsTheLatest`: refinement of the ring to the list; `LastNAreLatest`: `GetLastN` is
  the end of that list; `StatsSlide`: each counter changes by the request that enters
  less the one that it overwrites.

The bounds and why they are enough. The hazards are races of two handlers, so two
requests reach them; `cache_quiet` takes a third for an observer between two. Two
trips on two vehicles allow a vehicle's next trip to start while the last one's end
is still under way. Capacities go to 2, which is the least that has "empty",
"partly" and "full"; one piece of each resource is enough to be handed out twice,
and the theorems of section 5 cover every quantity. Of the statuses of an incident
the code tells only ACTIVE from the others, so that PUT writes ACTIVE and RESOLVED.
A burst of two and five ticks let a bucket run empty, refill in part and be full
again, and a token of two seconds expires in that time; one restart while an observer
counts (`MaxStarts`) is one more burst, and each further one would add the same. Two faults are a database
and a process, or two services that hang; a third would only repeat one of them
after its end. Four identifiers let two POSTs take numbers before and after
a restart that skips one, and two texts tell one POST's report from the other's and
from an edit. Two versions of a datum suffice for a reply that is old
by one or two changes. A ring of four goes around several times within any
history. `CHECK_DEADLOCK FALSE` is set where identifiers or versions of the
bounded instance run out and everything rests: that is the bound and not the
program. Symmetry is declared only for sets of model values, and never in a run
with a liveness property.

Every property of a passing run has a mutant in `PROJECT.json`: a plausible change
of one mapped definition under which TLC refutes it.

## 4. Fairness

- `TripDispatch!Fairness`: weak fairness of every handler and of every PUT in the
  volunteer service. A handler thread that runs is scheduled, and its calls return
  or time out. A PUT is never lost in `trips_freed`; a lost one is not repeated
  by the code, and its driver would stay IN_USE. No request has to arrive.
- `IncidentSaga!FairSpec`: weak fairness of the caller's steps only, for Go's
  `http.Client` has a timeout of 5 seconds. The callees owe nothing: shelter-service
  waits for its callback without a timeout. Neither does PostgreSQL: the INSERT of the
  incident has no timeout, so that `CreateAnswered` begins when it has returned.
- `ServiceHealth!FairSpec`: weak fairness of `PageStep` (timers expire) and of each
  service's `StartStep` (Docker starts what has exited, as compose's `restart:
  unless-stopped` says, and a process whose database answers or refuses goes on). Nothing is assumed of
  databases or of services that hang: `ServesInTheEnd` has their return as its
  premise.
- `GatewayCache!FairSpec`: weak fairness of handlers and of the expiry of entries.

## 5. What is proved

For all values of the constants, checked by TLAPS:

| theorem | statement | under |
|---|---|---|
| `TripDispatch_proofs!TypeCorrect` | `[]TypeOK` | |
| `TripDispatch_proofs!HeldVehicleTheorem` | `[]HeldVehicle` | `HeldAssumption` |
| `TripDispatch_proofs!BusyNamesIncidentTheorem` | `[]BusyNamesIncident` | clients do not write BUSY |
| `TripDispatch_proofs!NoResurrectionTheorem` | `Spec => NoResurrection` | |
| `TripDispatch_proofs!NoDoubleBookingTheorem` | `[]NoDoubleBooking` | `VehicleAssumption` |
| `TripDispatch_proofs!AvailableVehicleTheorem` | `[]AvailableVehicleIsFree` | `VehicleAssumption` |
| `TripDispatch_proofs!BookingIsAtomicTheorem` | `Spec => BookingIsAtomic` | `VehicleAssumption` |
| `TripDispatch_proofs!FreeingKeptTheorem` | `Spec => FreeingKept` | `NothingLost` |
| `TripDispatch_proofs!AssignmentKeptTheorem` | `Spec => AssignmentKept` | `LinkAssumption` |
| `TripDispatch_proofs!AssignedHasNoTripTheorem` | `Spec => AssignedHasNoTrip` | `LinkAssumption` |
| `ShelterService_proofs!ShelterTypeCorrect` | `[]ShelterTypeOK` | |
| `ShelterService_proofs!OccupancyFitsTheorem` | `[]OccupancyFits` | `UpdatesAlone` |
| `ShelterService_proofs!StatusChangesOnRequestTheorem` | `ShelterSpec => StatusChangesOnRequest` | `UpdatesAlone` |
| `ReliefSupply_proofs!SupplyTypeCorrect` | `[]SupplyTypeOK` | |
| `ReliefSupply_proofs!StockNotNegativeTheorem` | `[]StockNotNegative` | |
| `ReliefSupply_proofs!StockCoveredTheorem` | `[]StockCovered` | |
| `ReliefSupply_proofs!DispatchIsAtomicTheorem` | `SupplySpec => DispatchIsAtomic` | |
| `ReliefSupply_proofs!SentToWelcomingTheorem` | `SupplySpec => SentToWelcoming` | `SheltersStill` |
| `ReliefSupply_proofs!SupplyKeepsShelters` | `SupplySpec => ShelterSpec` | |
| `ReliefSupply_proofs!SupplyShelterTheorem` | `SupplySpec => []OccupancyFits /\ StatusChangesOnRequest` | `UpdatesAlone` |
| `IncidentSaga_proofs!IncidentTypes` | `[]IncidentTypeOK` | |
| `IncidentSaga_proofs!SequenceAheadAlways` | `[]SequenceAhead` | |
| `IncidentSaga_proofs!RowNamesItsIncidentAlways` | `[]RowNamesItsIncident` | |
| `IncidentSaga_proofs!CreatedIsAnnouncedAlways` | `[]CreatedIsAnnounced` | |
| `IncidentSaga_proofs!AlertAlwaysTellsReport` | `Spec => AlertTellsReport` | |
| `GatewayCache_proofs!CacheTypes` | `[]CacheTypeOK` | |
| `GatewayCache_proofs!StaleIsAlwaysDoomed` | `[]StaleIsDoomed` | `QuietClients` |
| `GatewayCache_proofs!ReadsAlwaysSeeAnswered` | `[]ReadsSeeAnswered` | `QuietClients` |
| `GatewayCache_proofs!LateOnlyMovesTheorem` | `Spec => LateOnlyMoves` | |
| `GatewayAdmission_proofs!AdmissionTypes` | `[]AdmissionTypeOK` | |
| `GatewayAdmission_proofs!WithinLimitAlways` | `[]WithinLimit` | |
| `GatewayAdmission_proofs!RefusedAtLimitAlways` | `Spec => RefusedAtLimit` | |
| `GatewayAdmission_proofs!FreshTokenAlwaysAccepted` | `[]FreshTokenAccepted` | |
| `GatewayAdmission_proofs!AlwaysServedWithToken` | `[]ServedWithToken` | |
| `RequestLog_proofs!LogTypeCorrect` | `[]LogTypeOK` | |
| `RequestLog_proofs!NoBlankKeptTheorem` | `[]NoBlankKept` | |
| `RequestLog_proofs!LogImplementsTheorem` | `Spec => KeepsTheLatest` | |
| `RequestLog_proofs!LastNTheorem` | `[]LastNAreLatest` | |
| `RequestLog_proofs!StatsSlideTheorem` | `Spec => StatsSlide` | |
| `ServiceHealth_proofs!HealthTypes` | `[]HealthTypeOK` | |
| `ServiceHealth_proofs!HiddenByTwoAlways` | `[]HiddenByTwo` | |
| `ServiceHealth_proofs!StatusNeverStuck` | `[]StatusNotStuck` | |
| `ServiceHealth_proofs!StatusMovesOnTheorem` | `Spec => StatusMovesOn` | |
| `ServiceHealth_proofs!TableBeforeServingTheorem` | `[]TableBeforeServing` | |

All of them rest on the ASSUMEs of the modules: the kinds of the constants, that
`None` is no identifier, and that bounds are positive. TLC evaluates them in the
runs. The arguments:

- **TypeOK** is not inductive, because `update_trip_status` writes a status
  and `UpdateVolunteer` a row that the request carries. `ArgumentsNamed` adds what
  a request under way carries.
- **HeldVehicle** is not inductive, because the trip that justifies an IN_USE
  vehicle may be about to end. `HeldByLiveTrip` asks for an unfinished trip that no
  request is past releasing (`Ending`), and `CallsKnowTrips` says that a request
  names a trip on the vehicle it was inserted with and that a `create_trip` about to
  mark its vehicle is alone with its trip. Then marking brings its own witness, and
  a release either takes IN_USE away or leaves the witness alone.
  `HeldAssumption`: clients wait for the answer of POST /trips, vehicle writes do
  not fail, and nobody writes IN_USE by PUT /vehicles.
- **BusyNamesIncident** is strengthened to all copies: whatever row was read, a
  BUSY one names its incident, so that writing it back is harmless; and no PUT
  under way carries BUSY. The theorem does not speak of a client that writes BUSY.
- **NoResurrection** needs the types only: every write, of whatever copy, looks whether
  its row is still there.
- **Bookings**: `VehicleAssumption` asks that no two requests about one vehicle overlap
  and that no status is written to a COMPLETED trip, that vehicle writes do not fail
  and the fleet-service does not restart between its two writes, and that nobody
  writes AVAILABLE by PUT /vehicles. Requests about other vehicles, everything about
  volunteers, and the loss and delay of calls are free. Then a request is alone with
  its vehicle (`VehiclesAlone`, from what each may name: `VehiclesNamed`, `CallsOwnTrip`),
  so that the vehicle that `create_trip` has found AVAILABLE is still on no unfinished
  trip when it inserts one (`BookedFree`). An unfinished trip whose request is not
  between its two writes is on a vehicle that is not AVAILABLE (`OffersFree`,
  `Between`). A release makes a vehicle AVAILABLE for its own trip, and by
  `NoDoubleBooking` itself no other trip is on it. For `BookingIsAtomic`, the insert
  maps to `Book`; the write of COMPLETED and the deletion of a trip that is not
  COMPLETED map to `GiveBack`; every other step stutters (`BookingStep`).
- **Links**: `LinkAssumption` asks that no two requests about one volunteer overlap, late
  PUTs included (`VolunteersAlone`), and that no driver id is text; everything may fail, be
  late or restart. Then a volunteer's copy that is to be written back still has the
  incident of the row (`CopiesCurrent`), and an `Assign` that has asked the fleet-service
  is still right that there is no trip when it writes (`AssignsKnow`, `NumbersOnly`), for a
  request that writes a trip names the trip's driver (`FinishesKnow`).
- **OccupancyFits**: `FitInv` says that what each request under way is going to
  write will fit the row as it then is (`OccupancyWillFit`, `CapacityWillFit`), and
  that an update is alone with its row (`Alone`). `UpdatesAlone` is the client's
  promise; without it TLC has a counterexample. `StatusInv` adds that the status an
  update is going to write is the one it was asked for, or the one that the row has.
- **StockNotNegative** needs that an order never exceeds what it read
  (`OrderNames`), not that the number is still right. **StockCovered** needs more:
  for a resource in `OneByOne`, what a dispatch read still stands (`ReadStands`)
  and the dispatch is alone (`DispatchAlone`). Then its write computes from what
  the document holds, which makes it a step of `GoodsStore` (`StoreStep`). **SentToWelcoming**: while no request
  names the shelter of a dispatch (`OrderStill`), the row that was answered is the row
  (`SeenStands`).
- **The saga**: `RowNamesItsIncident` has to know where rows come from. `SagaInv`
  says that a call knows its incident from the moment it is sent
  (`CallsKnowIncidents`), that the incident `Create` returned and the message made of it
  carry what the POST reported (`ReportCarried`, from which `AlertTellsReport` follows:
  the alert-service inserts the message), that until a restart a number in a job or a row is below
  `next` and, if its incident still exists, belongs to whom the job or row names
  (`JobsName`, `RowsName`), and which calls are done at each place of the handler
  (`CallsInOrder`). A new incident gets `next`, which nobody has. `SequenceAhead`
  after a restart needs that `MAX(id)` is there: among finitely many numbers one is
  largest, by the well-founded order of subsets (`LargestExists`).
- **The cache**: under `QuietClients` no GET asks while a mutation of its datum is in
  the service (`Apart`), so that what it is about to store is current
  (`StoresCurrent`), and an entry goes stale only when `Mutate` moves on to `Scan`,
  which lists it. `ReadsSeeAnswered` compares with what was answered:
  no entry is older than that (`EntriesRecent`), because an entry older than what
  an invalidation has made stays on its list until it is deleted (`OldListed`), and
  the list is empty when the mutation is answered. `QuietClients` also asks that Redis
  does not fail and that a datum is changed under one prefix only, as in
  `cache_quiet`; section 6 has a counterexample without the latter.
- **The bucket**: `WithinLimit` is not inductive, because it forgets what is left. `Spent`
  adds `level` to what was served, and stays within rate times time plus a burst for
  each start of the gateway that the window has seen; only the refill and a restart add
  to it. It speaks of a service because all of its targets have one limiter
  (`OneLimiter`). `SpentExactly` is an equality for the window since the bucket
  was last full, the only one in which no refill spilled over, and it gives
  `RefusedAtLimit`. Neither needs to know who was served, only that a request which
  fails `checkAuth` never reaches the bucket.
- **The tokens**: `ExpiresOnTime` puts the expiry within the last second of the time to
  live; `CameWithToken` follows a request from `checkAuth` to its reply while time
  passes, and is reset with the gateway's settings by its restart.
- **The log**: `RingInv` says that every slot that can be read was written;
  `Shape` gives `GetEntries` position by position, and `LogImplements` compares
  it with the list after each operation, with two facts about `%` in between. The
  statistics follow from the list: appending counts one position more, taking the tail
  shifts the others (a bijection) and loses the first.
- **The health page**: `HiddenByTwo` is about time, so the invariant keeps an account: the
  seconds spent are at most three for each service before that was not well
  (`SpentOnBad`) and none for one that was (`WaitsForBad`). A service that is well is
  given up only when five are spent, for which one is not enough.
- **Halves of liveness properties**: what TLC checks under fairness has a safe half
  that needs none, and this is proved; the properties are stated in the proof
  modules. `FreeingKept`: that a driver is to be freed is with the handler or with its
  PUT until the driver's row is not IN_USE; no PUT replaces it, because a handler that
  has not sent its own has none under way (`OneCall`). `NothingLost` excludes lost calls
  and restarts, which do lose it. `LateOnlyMoves`: while the data rest, no reply
  becomes late, and each late one spoils one entry at most, so that expiry wins.
  `StatusNotStuck` and `StatusMovesOn`: some guard of GET /status holds until it is
  answered, and `StepsLeft` decreases with each step. `TableBeforeServing`: what comes
  to serve has its table, so that `ServesInTheEnd` is about coming to serve alone.
  What fairness adds, that these steps are taken, stays with TLC.

What is only model-checked: the liveness properties (`DriverFreed`,
`CreateAnswered`, `FreshInTheEnd`, `StatusAnswered`, `ServesInTheEnd`), for the prover
handles neither ENABLED nor fairness. Every other property of a passing run is proved.
Induction over data and RECURSIVE operators are out of the prover's reach too; no
module here needs them.

## 6. Where the code and its documents disagree

Two disagreements have runs of their own and are listed under "findings":
concurrent `POST /trips` book a vehicle twice although `create_trip` verifies its
availability, and concurrent dispatches hand out the same stock although the
README of resource-service validates that it is sufficient.

The others are stated as properties of the modules, each with the change of an
instance under which TLC refutes it:

| what a document or reply says | property | refuted in |
|---|---|---|
| volunteer-service README:93 rejects a volunteer without a vehicle; `Assign` rejects one *with* a trip | `AssignedHasVehicle` | `trips_alone` |
| README:91 rejects a RESOLVED incident; it may be resolved between check and write | `AssignedIncidentOpen` | `trips_races` with "SetIncident" added to `Ops` |
| app.py:405 "Only mark as available if trip was not already completed"; a concurrent PUT may have completed it | `ReleaseOnlyUncompleted` | `trips_races` |
| occupancy "between 0 and capacity"; two updates that overlap break it | `OccupancyFits` | `supply_overlaps` with `Discipline = {}` |
| server.js:50 answers errors with 500; a rejected handler ends the process | `ErrorsAnswered` | `supply_overlaps` |
| resource-service README:156 refuses CLOSED shelters; the code refuses all that are not OPEN | `RejectedIfClosedOrFull` | `supply_overlaps` |
| alerts are for ACTIVE incidents; the incident may change before the insert | `InsertOnlyActive` | `saga_restarts` |
| 503 "failed to trigger downstream services"; both may have been triggered, too late | `FailedMeansUntriggered` | `saga_restarts` |
| gateway/main.go:182 invalidates on mutation; a GET under way stores its old reply afterwards | `ReadsSeeAnswered` | `cache_quiet` with `Discipline = {}` |
| the same; POST /trips does not invalidate GET /vehicles | `ReadsSeeAnswered` | `cache_settles` with `Discipline = {"quiet"}`, `Faults = {}` |

## 7. What is not modelled

- Routing in the gateway is a table of prefixes; which target a request goes to is its
  choice. The password of a login, and a gateway whose authentication is off, are left
  out of `GatewayAdmission`, and so is a clock of the auth-service that differs from the
  gateway's. The bucket itself is `golang.org/x/time/rate`, modelled from its use.
- `ServiceHealth` does not serve requests other than `GET /status`: what a request does to
  a service without its table is a 500 and changes nothing. The run has no service on
  MongoDB: their start is that of volunteer-service without the hang.
- In `IncidentSaga` a statement of SQL is one step. An INSERT that has taken its number
  and is not committed while `ensureSequenceStart` of the next process reads MAX(id)
  does not occur, and `SequenceAhead` says nothing of it.
- In-memory repositories of the Go services: for tests only.
- The handlers that serve documents (`/openapi.yaml`, `/docs`) and the CORS wrapper: they
  keep no state.
- Tracing, documents, compose files, seeds of the databases other than `init_db`.
- A network that duplicates a request: HTTP clients of these services do not
  retry.

## 8. The plan

Done, in this order: `TripDispatch` (the system's largest coupling) with ten
theorems and its abstract specification `Booking`; `ShelterService` and, composed with it, `ReliefSupply`, with ten;
`IncidentSaga` with five; `GatewayCache` with four; `RequestLog` with its refinement
and five theorems; then the rest of the gateway, `GatewayAdmission` with five theorems and
`ServiceHealth` with five, the edits of incidents and alerts, and the log's statistics.

