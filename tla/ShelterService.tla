--------------------------- MODULE ShelterService ---------------------------
(***************************************************************************)
(* shelter-service: the shelters table and the handlers that change it.    *)
(* Node runs one handler at a time, but only up to its next await: every   *)
(* handler reads a row, awaits, and writes what it decided from the row it *)
(* read, so each is split at its awaits.  An exception in a handler is not *)
(* caught by Express 4: it ends the process and with it every request.     *)
(***************************************************************************)
EXTENDS Integers, FiniteSets

CONSTANTS
  Shelter,        \* identifiers; a SERIAL column never reuses one
  Request,        \* handlers in progress
  None,           \* "no such value"
  MaxCapacity,    \* bound on the capacities and occupancies clients send
  ShelterOps,     \* the requests that clients send
  Discipline,     \* what the clients promise (see Apart)
  DatabaseFails   \* may a query fail?

ShelterStatus == {"REQUEST", "OPEN", "CLOSED"}
Gone == {"new", "deleted"}
Capacity == 1..MaxCapacity

ASSUME ShelterAssumption ==
  /\ MaxCapacity \in Nat \ {0}
  /\ ShelterOps \subseteq {"Create", "Occupancy", "Update", "Delete"}
  /\ Discipline \subseteq {"update_alone"}
  /\ DatabaseFails \in BOOLEAN
  /\ None \notin Shelter

VARIABLES
  shelters,   \* [status, capacity, occupancy] of each shelter
  pc, call,   \* per request: the await it is at, and what it will write
  lost        \* requests whose process has died under them

shelterVars == <<shelters, pc, call, lost>>

ShelterRow == [status : ShelterStatus \cup Gone, capacity : Int, occupancy : Int]
Call == [shelter : Shelter \cup {None}, capacity : Int, occupancy : Int,
         asked : ShelterStatus \cup {"none"},      \* the status in the payload
         status : ShelterStatus \cup {"none"}]     \* the status it will write
Pc == {"idle", "insert", "writeOccupancy", "writeShelter", "delete"}

NewShelter == [status |-> "new", capacity |-> 0, occupancy |-> 0]
CallOf(s, c, n, asked, st) ==
  [shelter |-> s, capacity |-> c, occupancy |-> n, asked |-> asked, status |-> st]
NoCall == CallOf(None, 0, 0, "none", "none")

ShelterTypeOK ==
  /\ shelters \in [Shelter -> ShelterRow]
  /\ pc \in [Request -> Pc]
  /\ call \in [Request -> Call]
  /\ lost \subseteq Request

ShelterInit ==
  /\ shelters = [s \in Shelter |-> NewShelter]
  /\ pc = [r \in Request |-> "idle"]
  /\ call = [r \in Request |-> NoCall]
  /\ lost = {}

-----------------------------------------------------------------------------
ShelterExists(s) == shelters[s].status \notin Gone

\* A client has one request under way at a time.
Ready(r) == pc[r] = "idle" /\ r \notin lost

Await(r, where, c) ==
  /\ pc' = [pc EXCEPT ![r] = where]
  /\ call' = [call EXCEPT ![r] = c]
  /\ UNCHANGED lost

\* A handler replies; or a client whose connection was reset turns to something
\* else.
End(r) ==
  /\ pc' = [pc EXCEPT ![r] = "idle"]
  /\ call' = [call EXCEPT ![r] = NoCall]
  /\ lost' = lost \ {r}

\* A rejection that nothing handles ends the process, and the container starts
\* it again.  The connections of all requests under way are reset; a statement
\* already sent to PostgreSQL may still take effect, before the client retries.
ProcessDies(r) ==
  /\ lost' = {q \in Request : pc[q] # "idle"} \cup lost \cup {r}
  /\ UNCHANGED <<shelters, pc, call>>

\* The clients may promise that an update of a shelter overlaps with no other
\* update of its capacity, its status or its occupancy.
Apart(s, where) ==
  "update_alone" \in Discipline =>
     ~\E r \in Request : call[r].shelter = s /\ pc[r] \in where

-----------------------------------------------------------------------------
(* createShelter: the incident is verified first, by another service.      *)

StartCreate(r, c) ==
  /\ "Create" \in ShelterOps
  /\ Ready(r)
  /\ Await(r, "insert", CallOf(None, c, 0, "none", "none"))
  /\ UNCHANGED shelters

RejectCreate(r) ==
  /\ pc[r] = "insert"
  /\ r \notin lost
  /\ End(r)
  /\ UNCHANGED shelters

InsertShelter(r, s) ==
  /\ pc[r] = "insert"
  /\ shelters[s].status = "new"
  /\ shelters' = [shelters EXCEPT ![s] =
        [status |-> "REQUEST", capacity |-> call[r].capacity, occupancy |-> 0]]
  /\ End(r)

-----------------------------------------------------------------------------
(* updateOccupancy.                                                        *)

\* Mutant: the upper bound is not checked.
StartOccupancyUnbounded(r, s, n) ==
  /\ "Occupancy" \in ShelterOps
  /\ Ready(r)
  /\ ShelterExists(s)
  /\ Apart(s, {"writeShelter"})
  /\ n >= 0
  /\ Await(r, "writeOccupancy", CallOf(s, 0, n, "none", "none"))
  /\ UNCHANGED shelters

StartOccupancy(r, s, n) ==
  /\ "Occupancy" \in ShelterOps
  /\ Ready(r)
  /\ ShelterExists(s)
  /\ Apart(s, {"writeShelter"})
  /\ n >= 0 /\ n <= shelters[s].capacity
  /\ Await(r, "writeOccupancy", CallOf(s, 0, n, "none", "none"))
  /\ UNCHANGED shelters

\* The capacity is not looked at again; UPDATE matches nothing when the row is
\* gone, and the reply is 200 all the same.
WriteOccupancy(r) ==
  /\ pc[r] = "writeOccupancy"
  /\ LET s == call[r].shelter IN
       shelters' = IF ShelterExists(s)
                     THEN [shelters EXCEPT ![s].occupancy = call[r].occupancy]
                     ELSE shelters
  /\ End(r)

-----------------------------------------------------------------------------
(* updateShelter.                                                          *)

\* Mutant: a status that is not given becomes REQUEST.
StatusOrRequest(s, st) == IF st = "none" THEN "REQUEST" ELSE st

\* Mutant: a status that is not given is written as it is.
StatusAsGiven(s, st) == st

\* A status that is not given is the one just read.
StatusOrRead(s, st) == IF st = "none" THEN shelters[s].status ELSE st

StartUpdate(r, s, c, st) ==
  /\ "Update" \in ShelterOps
  /\ Ready(r)
  /\ ShelterExists(s)
  /\ Apart(s, {"writeShelter", "writeOccupancy"})
  /\ c >= shelters[s].occupancy
  /\ Await(r, "writeShelter", CallOf(s, c, 0, st, StatusOrRead(s, st)))
  /\ UNCHANGED shelters

\* The row may have been deleted meanwhile: result.rows[0] is then undefined and
\* reading its incident_id throws.
WriteShelter(r) ==
  /\ pc[r] = "writeShelter"
  /\ LET s == call[r].shelter IN
       \/ /\ ShelterExists(s)
          /\ shelters' = [shelters EXCEPT ![s].capacity = call[r].capacity,
                                          ![s].status = call[r].status]
          /\ End(r)
       \/ ~ShelterExists(s) /\ r \notin lost /\ ProcessDies(r)

-----------------------------------------------------------------------------
(* deleteShelter.                                                          *)

StartDelete(r, s) ==
  /\ "Delete" \in ShelterOps
  /\ Ready(r)
  /\ ShelterExists(s)
  /\ Await(r, "delete", CallOf(s, 0, 0, "none", "none"))
  /\ UNCHANGED shelters

DeleteShelter(r) ==
  /\ pc[r] = "delete"
  /\ shelters' = [shelters EXCEPT ![call[r].shelter].status = "deleted"]
  /\ End(r)

-----------------------------------------------------------------------------
\* A query that fails rejects its promise, which nothing handles: a statement
\* of a handler above, or the SELECT of any handler.
QueryFails(r) ==
  /\ DatabaseFails
  /\ r \notin lost
  /\ ProcessDies(r)

ClientSeesReset(r) ==
  /\ r \in lost
  /\ End(r)
  /\ UNCHANGED shelters

ShelterArrival(r) ==
  \/ \E c \in Capacity : StartCreate(r, c)
  \/ \E s \in Shelter, n \in 0..MaxCapacity : StartOccupancy(r, s, n)
  \/ \E s \in Shelter, c \in Capacity, st \in ShelterStatus \cup {"none"} :
        StartUpdate(r, s, c, st)
  \/ \E s \in Shelter : StartDelete(r, s)

ShelterStep(r) ==
  \/ RejectCreate(r) \/ WriteOccupancy(r) \/ WriteShelter(r) \/ DeleteShelter(r)
  \/ \E s \in Shelter : InsertShelter(r, s)

ShelterNext ==
  \E r \in Request :
     ShelterArrival(r) \/ ShelterStep(r) \/ QueryFails(r) \/ ClientSeesReset(r)

ShelterSpec == ShelterInit /\ [][ShelterNext]_shelterVars

-----------------------------------------------------------------------------
\* The occupancy of a shelter is between 0 and its capacity: both handlers that
\* could break it check it, each against the row it read before its await.
OccupancyFits ==
  \A s \in Shelter : ShelterExists(s) =>
     0 <= shelters[s].occupancy /\ shelters[s].occupancy <= shelters[s].capacity

\* The status of a shelter changes only to what some request under way asks for
\* explicitly, never because an update of the capacity writes a status it
\* remembers.
Asked(s, st) == \E r \in Request : pc[r] = "writeShelter" /\ call[r].shelter = s
                                     /\ call[r].asked = st

StatusChangesOnRequest ==
  [][\A s \in Shelter : ShelterExists(s) /\ shelters'[s].status \notin Gone =>
        \/ shelters'[s].status = shelters[s].status
        \/ Asked(s, shelters'[s].status)]_shelterVars

\* Every error is answered by the error handler; no request loses its connection.
ErrorsAnswered == lost = {}

=============================================================================
