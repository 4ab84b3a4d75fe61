---------------------------- MODULE IncidentSaga ----------------------------
(***************************************************************************)
(* incident-service, alert-service and shelter-service around the creation *)
(* of an incident: the row is inserted, then the alert-service and the     *)
(* shelter-service are called in turn, and each calls back to see that the *)
(* incident is ACTIVE before it inserts its own row.  Nothing is undone    *)
(* when a call fails, and a call that timed out may still take effect.     *)
(***************************************************************************)
EXTENDS Integers, FiniteSets

CONSTANTS
  Poster,     \* POST requests, to any of the three services
  None,       \* "no such value"
  Text,       \* what reports, messages and edits say
  Report,     \* per POST: what its client sends
  MaxId,      \* bound on the identifiers that the sequence yields
  Ops,        \* the requests that clients send
  PutStatus,  \* the statuses that PUT /incidents/{id}/status writes
  Faults      \* what may go wrong

Id == 1..MaxId          \* 1 stands for 101, the first number after the base
Service == {"alert", "shelter"}
IncidentStatus == {"ACTIVE", "IN_PROGRESS", "RESOLVED"}

ASSUME SagaAssumption ==
  /\ MaxId \in Nat \ {0}
  /\ Ops \subseteq {"Create", "Post", "Status", "Edit", "Delete", "DeleteRow"}
  /\ PutStatus \subseteq IncidentStatus
  /\ Faults \subseteq {"slow", "down", "restart"}
  /\ Report \in [Poster -> Text]
  /\ None \notin Poster \cup Text

VARIABLES
  incidents,   \* per identifier: its status ("none": no row), its creator, and what its
               \* type, location and severity say
  next,        \* what incidents_id_seq yields next
  rows,        \* the alerts and shelters, with the incident each names
  pc, job,     \* per POST: what it waits for, and the incident it is about, as it was
               \* when it was inserted
  call,        \* per POST and service: how far the call has come there
  message,     \* per POST: what the POST /alerts that is made for it says
  restarted    \* has the incident-service been restarted?

vars == <<incidents, next, rows, pc, job, call, message, restarted>>

CallState == {"none", "sent", "insert", "done", "refused"}
Final == {"created", "posted", "failed", "error", "crashed"}
Pc == {"new", "insert", "orphan", "trigger", "alert", "shelter", "client"} \cup Final
Incident == [status : IncidentStatus \cup {"none"}, by : Poster \cup {None},
             text : Text \cup {None}]
Job == [incident : Id \cup {0}, of : Poster \cup {None}, text : Text \cup {None}]
\* What is stored of a shelter has nothing of the report.
Row == [service : Service, by : Poster, incident : Id, of : Poster,
        text : Text \cup {None}]

NoIncident == [status |-> "none", by |-> None, text |-> None]
NoJob == [incident |-> 0, of |-> None, text |-> None]

IncidentTypeOK ==
  /\ incidents \in [Id -> Incident]
  /\ \A i \in Id : incidents[i].status = "none" <=> incidents[i].by = None
  /\ next \in 1..(MaxId + 2)
  /\ rows \subseteq Row
  /\ pc \in [Poster -> Pc]
  /\ job \in [Poster -> Job]
  /\ call \in [Poster -> [Service -> CallState]]
  /\ message \in [Poster -> Text \cup {None}]
  /\ restarted \in BOOLEAN

Existing == {i \in Id : incidents[i].status # "none"}
ExistingMax == CHOOSE m \in Existing \cup {0} : \A i \in Existing : i <= m

\* Mutant: the sequence restarts from the number of rows.
SeedFromCount == Cardinality(Existing) + 1

\* setval(seq, COALESCE(MAX(id), 100) + 1) leaves is_called true, so that the
\* next number is one more than what is set.
Seed == ExistingMax + 2

Init ==
  /\ incidents = [i \in Id |-> NoIncident]
  /\ next = 2
  /\ rows = {}
  /\ pc = [g \in Poster |-> "new"]
  /\ job = [g \in Poster |-> NoJob]
  /\ call = [g \in Poster |-> [v \in Service |-> "none"]]
  /\ message = [g \in Poster |-> None]
  /\ restarted = FALSE

-----------------------------------------------------------------------------
(* incident-service: CreateIncident up to the first call, UpdateStatus,    *)
(* DeleteIncident.                                                         *)

Goto(g, where) == pc' = [pc EXCEPT ![g] = where]
SetCall(g, v, st) == call' = [call EXCEPT ![g][v] = st]

\* The request is read and its INSERT sent to PostgreSQL.
StartCreate(g) ==
  /\ "Create" \in Ops
  /\ pc[g] = "new"
  /\ Goto(g, "insert")
  /\ UNCHANGED <<incidents, next, rows, job, call, message, restarted>>

\* Mutant: the identifier is taken from the rows and not from the sequence.
NewIdFromMax == ExistingMax + 1

NewId == next

\* PostgreSQL executes the INSERT, also when the process that sent it has died.  A
\* number that is taken violates the primary key, and the reply is 500; the
\* sequence moves on all the same.
InsertIncident(g) ==
  /\ pc[g] \in {"insert", "orphan"}
  /\ NewId <= MaxId /\ next <= MaxId
  /\ next' = next + 1
  /\ \/ /\ NewId \notin Existing
        /\ incidents' = [incidents EXCEPT ![NewId] =
              [status |-> "ACTIVE", by |-> g, text |-> Report[g]]]
        /\ \/ /\ pc[g] = "insert"
              /\ job' = [job EXCEPT ![g] =
                    [incident |-> NewId, of |-> g, text |-> Report[g]]]
              /\ Goto(g, "trigger")
           \/ /\ pc[g] = "orphan"
              /\ Goto(g, "crashed")
              /\ UNCHANGED job
     \/ /\ NewId \in Existing
        /\ Goto(g, IF pc[g] = "insert" THEN "error" ELSE "crashed")
        /\ UNCHANGED <<incidents, job>>
  /\ UNCHANGED <<rows, call, message, restarted>>

\* Mutant: the incident is read again for the message.
TriggerAlertAnew(g) ==
  /\ pc[g] = "trigger"
  /\ message' = [message EXCEPT ![g] = incidents[job[g].incident].text]
  /\ Goto(g, "alert")
  /\ SetCall(g, "alert", "sent")
  /\ UNCHANGED <<incidents, next, rows, job, restarted>>

\* The message is made of the incident that Create has returned.
TriggerAlert(g) ==
  /\ pc[g] = "trigger"
  /\ message' = [message EXCEPT ![g] = job[g].text]
  /\ Goto(g, "alert")
  /\ SetCall(g, "alert", "sent")
  /\ UNCHANGED <<incidents, next, rows, job, restarted>>

\* Mutant: an upsert.
UpdateStatusUpsert(i, st) ==
  /\ "Status" \in Ops
  /\ incidents' = [incidents EXCEPT ![i].status = st]
  /\ UNCHANGED <<next, rows, pc, job, call, message, restarted>>

UpdateStatus(i, st) ==
  /\ "Status" \in Ops
  /\ i \in Existing
  /\ incidents' = [incidents EXCEPT ![i].status = st]
  /\ UNCHANGED <<next, rows, pc, job, call, message, restarted>>

\* UpdateIncident names its columns: the status is not among them.
UpdateIncident(i, txt) ==
  /\ "Edit" \in Ops
  /\ i \in Existing
  /\ incidents' = [incidents EXCEPT ![i].text = txt]
  /\ UNCHANGED <<next, rows, pc, job, call, message, restarted>>

DeleteIncident(i) ==
  /\ "Delete" \in Ops
  /\ i \in Existing
  /\ incidents' = [incidents EXCEPT ![i] = NoIncident]
  /\ UNCHANGED <<next, rows, pc, job, call, message, restarted>>

-----------------------------------------------------------------------------
(* The callee, alert-service or shelter-service.  It does not notice that  *)
(* its caller has given up.                                                *)

\* A client of its own posts to the callee.
PostDirectly(g, v, i) ==
  /\ "Post" \in Ops
  /\ pc[g] = "new"
  /\ i \in Existing
  /\ job' = [job EXCEPT ![g] = [incident |-> i, of |-> incidents[i].by, text |-> Report[g]]]
  /\ message' = [message EXCEPT ![g] = Report[g]]
  /\ Goto(g, "client")
  /\ SetCall(g, v, "sent")
  /\ UNCHANGED <<incidents, next, rows, restarted>>

IncidentActive(i) == i \in Existing /\ incidents[i].status = "ACTIVE"

\* ValidateIncidentExists, verifyIncident: the callback to the incident-service.
Validate(g, v) ==
  /\ call[g][v] = "sent"
  /\ SetCall(g, v, IF IncidentActive(job[g].incident) THEN "insert" ELSE "refused")
  /\ UNCHANGED <<incidents, next, rows, pc, job, message, restarted>>

\* The callee is down, the callback fails or its INSERT does.
CalleeFails(g, v) ==
  /\ "down" \in Faults
  /\ call[g][v] \in {"sent", "insert"}
  /\ SetCall(g, v, "refused")
  /\ UNCHANGED <<incidents, next, rows, pc, job, message, restarted>>

\* What the request has brought, and nothing of what the callback answered.
NewRow(g, v) ==
  [service |-> v, by |-> g, incident |-> job[g].incident, of |-> job[g].of,
   text |-> IF v = "alert" THEN message[g] ELSE None]

InsertRow(g, v) ==
  /\ call[g][v] = "insert"
  /\ rows' = rows \cup {NewRow(g, v)}
  /\ SetCall(g, v, "done")
  /\ UNCHANGED <<incidents, next, pc, job, message, restarted>>

\* PUT /alerts/{id} asks nobody about the incident.
UpdateAlert(row, txt) ==
  /\ "Edit" \in Ops
  /\ row.service = "alert"
  /\ rows' = (rows \ {row}) \cup {[row EXCEPT !.text = txt]}
  /\ UNCHANGED <<incidents, next, pc, job, call, message, restarted>>

DeleteRow(row) ==
  /\ "DeleteRow" \in Ops
  /\ rows' = rows \ {row}
  /\ UNCHANGED <<incidents, next, pc, job, call, message, restarted>>

-----------------------------------------------------------------------------
(* The rest of CreateIncident: triggerAlert and triggerShelter.            *)

\* Mutant: the status of the reply is not looked at.
AlertAnsweredUnchecked(g) ==
  /\ pc[g] = "alert"
  /\ call[g]["alert"] \in {"done", "refused"}
  /\ Goto(g, "shelter")
  /\ SetCall(g, "shelter", "sent")
  /\ UNCHANGED <<incidents, next, rows, job, message, restarted>>

AlertAnswered(g) ==
  /\ pc[g] = "alert"
  /\ \/ /\ call[g]["alert"] = "done"
        /\ Goto(g, "shelter")
        /\ SetCall(g, "shelter", "sent")
     \/ /\ call[g]["alert"] = "refused"
        /\ Goto(g, "failed")
        /\ UNCHANGED call
  /\ UNCHANGED <<incidents, next, rows, job, message, restarted>>

ShelterAnswered(g) ==
  /\ pc[g] = "shelter"
  /\ \/ call[g]["shelter"] = "done" /\ Goto(g, "created")
     \/ call[g]["shelter"] = "refused" /\ Goto(g, "failed")
  /\ UNCHANGED <<incidents, next, rows, job, call, message, restarted>>

ClientAnswered(g) ==
  /\ pc[g] = "client"
  /\ \E v \in Service :
       \/ call[g][v] = "done" /\ Goto(g, "posted")
       \/ call[g][v] = "refused" /\ Goto(g, "failed")
  /\ UNCHANGED <<incidents, next, rows, job, call, message, restarted>>

\* Mutant: an http.Client without a Timeout.
GiveUpOnRefusal(g) ==
  /\ "slow" \in Faults
  /\ pc[g] \in Service /\ call[g][pc[g]] = "refused"
  /\ Goto(g, "failed")
  /\ UNCHANGED <<incidents, next, rows, job, call, message, restarted>>

\* The 5 second timeout, or a lost answer; the reply is 503.
GiveUp(g) ==
  /\ "slow" \in Faults
  /\ pc[g] \in Service
  /\ Goto(g, "failed")
  /\ UNCHANGED <<incidents, next, rows, job, call, message, restarted>>

\* The incident-service starts again: ensureSequenceStart sets the sequence, and
\* the requests it was serving are gone, but for INSERTs that PostgreSQL has
\* received and not yet executed.
Restart ==
  /\ "restart" \in Faults
  /\ next' = Seed
  /\ \E orphans \in SUBSET {g \in Poster : pc[g] = "insert"} :
       pc' = [g \in Poster |->
                CASE g \in orphans -> "orphan"
                  [] g \notin orphans /\ pc[g] \in {"insert", "trigger"} \cup Service -> "crashed"
                  [] OTHER -> pc[g]]
  /\ restarted' = TRUE
  /\ UNCHANGED <<incidents, rows, job, call, message>>

-----------------------------------------------------------------------------
SagaStep(g) == TriggerAlert(g) \/ AlertAnswered(g) \/ ShelterAnswered(g) \/ GiveUp(g)

Next ==
  \/ \E g \in Poster :
       \/ StartCreate(g) \/ InsertIncident(g) \/ SagaStep(g) \/ ClientAnswered(g)
       \/ \E v \in Service :
            \/ \E i \in Id : PostDirectly(g, v, i)
            \/ Validate(g, v) \/ CalleeFails(g, v) \/ InsertRow(g, v)
  \/ \E i \in Id : \/ DeleteIncident(i)
                   \/ \E txt \in Text : UpdateIncident(i, txt)
                   \/ \E st \in PutStatus : UpdateStatus(i, st)
  \/ \E row \in rows : DeleteRow(row) \/ \E txt \in Text : UpdateAlert(row, txt)
  \/ Restart

Spec == Init /\ [][Next]_vars

\* A Go http.Client with a Timeout answers or gives up; the callees owe nothing.
FairSpec == Spec /\ \A g \in Poster : WF_vars(SagaStep(g))

-----------------------------------------------------------------------------
\* "Set sequence to be higher than any existing ID": whatever was deleted before
\* a restart, the next incident gets an identifier above all that exist.
SequenceAhead == \A i \in Existing : i < next

\* An alert or shelter belongs to the incident with the identifier it names, and
\* never to a later incident that was given the number of a deleted one, until
\* the incident-service restarts and takes MAX(id) for the last number given.
RowNamesItsIncident ==
  ~restarted => \A row \in rows : row.incident \in Existing => incidents[row.incident].by = row.of

\* 201 means that the alert-service and the shelter-service have both inserted
\* their row for this very incident, whatever failed, was late or restarted.
CreatedIsAnnounced ==
  \A g \in Poster : pc[g] = "created" =>
     job[g].of = g /\ \A v \in Service : call[g][v] = "done"

\* Every POST /incidents whose incident is inserted is answered, unless the service
\* crashes under it.
CreateAnswered ==
  \A g \in Poster :
     pc[g] \in {"trigger"} \cup Service ~> pc[g] \in {"created", "failed", "crashed"}

\* An alert that is inserted tells what its POST has reported: neither an edit or
\* deletion of the incident since then, nor an edit of another alert, nor a number
\* that was given again gets into what the saga, its call and the alert-service's
\* handler carry.
AlertTellsReport ==
  [][\A g \in Poster : call[g]["alert"] # "done" /\ call'[g]["alert"] = "done" =>
        \E row \in rows' : row.service = "alert" /\ row.by = g /\ row.text = Report[g]]_vars

\* When a row is inserted its incident is ACTIVE: it is validated before.
InsertOnlyActive ==
  [][\A row \in rows' \ rows : IncidentActive(row.incident)]_vars

\* 503 "failed to trigger downstream services": at least one was not triggered.
FailedMeansUntriggered ==
  \A g \in Poster : pc[g] = "failed" /\ job[g].of = g =>
     \E v \in Service : call[g][v] # "done"

=============================================================================
