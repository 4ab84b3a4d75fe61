------------------------ MODULE IncidentSaga_proofs ------------------------
(***************************************************************************)
(* Proofs about IncidentSaga.  What a call is about is known from the      *)
(* moment it is sent, and the number it names was given out before; since  *)
(* the sequence yields larger numbers only, until a restart, nothing else  *)
(* ever gets that number.                                                  *)
(***************************************************************************)
EXTENDS IncidentSaga, FiniteSetTheorems, TLAPS

USE SagaAssumption

\* A call that was made, or is about to be, is about an incident somebody has created.
Known(g) == job[g].incident \in Id /\ job[g].of \in Poster
CallsKnowIncidents ==
  \A g \in Poster, v \in Service : pc[g] = "trigger" \/ call[g][v] # "none" => Known(g)

\* A number that was given out, with whoever got it, until it is taken back.
Names(i, g) == i < next /\ (i \in Existing => incidents[i].by = g)

JobsName == ~restarted => \A g \in Poster : Names(job[g].incident, job[g].of)
RowsName == ~restarted => \A row \in rows : Names(row.incident, row.of)

\* How far a POST /incidents is, its calls have come.
CallsInOrder ==
  \A g \in Poster :
     /\ pc[g] \in {"trigger", "alert", "shelter", "created"} => job[g].of = g
     /\ pc[g] = "shelter" => call[g]["alert"] = "done"
     /\ pc[g] = "created" => \A v \in Service : call[g][v] = "done"

\* What the client has sent, on its way to the alert-service: in the incident as it was
\* inserted, then in the message.
ReportCarried ==
  \A g \in Poster :
     /\ pc[g] = "trigger" => job[g].text = Report[g]
     /\ \A v \in Service : call[g][v] # "none" => message[g] = Report[g]

SagaInv ==
  /\ IncidentTypeOK /\ SequenceAhead /\ CallsKnowIncidents /\ JobsName /\ RowsName
  /\ CallsInOrder /\ ReportCarried

-----------------------------------------------------------------------------
\* ExistingMax is what MAX(id) yields: among finitely many numbers one is largest.
LEMMA LargestExists ==
  ASSUME NEW S \in SUBSET (0..MaxId), S # {}
  PROVE  \E m \in S : \A i \in S : i <= m
<1> DEFINE above(i) == {j \in S : i < j}
           T == {above(i) : i \in S}
<1>1. IsFiniteSet(0..MaxId) /\ S \subseteq Int
  BY FS_Interval
<1>2. \A i \in S : IsFiniteSet(above(i)) /\ above(i) \subseteq S
  BY <1>1, FS_Subset
<1>3. T \subseteq FiniteSubsetsOf(S) /\ T # {}
  <2>1. \A i \in S : above(i) \in FiniteSubsetsOf(S)
    BY <1>2 DEF FiniteSubsetsOf
  <2>2. ASSUME NEW t \in T PROVE t \in FiniteSubsetsOf(S)
    <3>1. PICK i \in S : t = above(i)
      OBVIOUS
    <3> QED
      BY <2>1, <3>1
  <2>3. PICK i \in S : TRUE
    OBVIOUS
  <2>4. above(i) \in T
    OBVIOUS
  <2> QED
    BY <2>2, <2>4
<1>4. PICK x \in T : \A y \in T : ~ (<<y, x>> \in StrictSubsetOrdering(S))
  <2> HIDE DEF T
  <2> QED
    BY <1>3, FS_StrictSubsetOrderingWellFounded, WFMin
<1>5. PICK m \in S : x = above(m)
  BY <1>4
<1>6. ASSUME NEW i \in S, m < i PROVE FALSE
  <2>1. \A j \in S : i < j => m < j
    BY <1>1, <1>6
  <2>2. above(i) \subseteq above(m)
    BY <2>1
  <2>3. i \in above(m) /\ i \notin above(i)
    BY <1>1, <1>6
  <2>4. <<above(i), above(m)>> \in StrictSubsetOrdering(S)
    BY <1>2, <2>2, <2>3 DEF StrictSubsetOrdering
  <2> QED
    BY <1>4, <1>5, <2>4
<1> QED
  BY <1>1, <1>6

LEMMA ExistingMaxIsMax ==
  ExistingMax \in Existing \cup {0} /\ \A i \in Existing : i <= ExistingMax
<1> DEFINE S == Existing \cup {0}
<1>0. S \in SUBSET (0..MaxId) /\ S # {}
  BY DEF Existing, Id
<1>1. \E m \in S : \A i \in S : i <= m
  <2> HIDE DEF S
  <2> QED
    BY <1>0, LargestExists
<1> QED
  BY <1>1 DEF ExistingMax

-----------------------------------------------------------------------------
LEMMA InitInv == Init => SagaInv
<1> SUFFICES ASSUME Init PROVE SagaInv
  OBVIOUS
<1>1. IncidentTypeOK
  <2>1. incidents \in [Id -> Incident]
    BY DEF Init, NoIncident, Incident
  <2>2. job \in [Poster -> Job] /\ call \in [Poster -> [Service -> CallState]]
    BY DEF Init, NoJob, Job, CallState
  <2>3. next \in 1..(MaxId + 2) /\ pc \in [Poster -> Pc] /\ rows \subseteq Row
    BY DEF Init, Pc
  <2> QED
    BY <2>1, <2>2, <2>3 DEF Init, IncidentTypeOK, NoIncident
<1>2. Existing = {}
  BY DEF Init, Existing, NoIncident
<1>3. SequenceAhead /\ CallsKnowIncidents /\ RowsName /\ CallsInOrder /\ ReportCarried
  BY <1>2 DEF Init, SequenceAhead, CallsKnowIncidents, RowsName, CallsInOrder, ReportCarried
<1>4. JobsName
  BY <1>2 DEF Init, JobsName, Names, NoJob
<1> QED
  BY <1>1, <1>3, <1>4 DEF SagaInv

\* Steps of the callees and of the callers leave incidents and sequence alone.
LEMMA CallStep ==
  ASSUME SagaInv, NEW g \in Poster, NEW v \in Service, NEW st \in CallState,
         SetCall(g, v, st), Known(g), UNCHANGED <<incidents, next, job, restarted>>
  PROVE  /\ call' \in [Poster -> [Service -> CallState]]
         /\ \A h \in Poster, w \in Service : call'[h][w] # "none" => Known(h)'
         /\ JobsName' /\ SequenceAhead'
  BY DEF SagaInv, IncidentTypeOK, CallsKnowIncidents, Known, JobsName, Names, SequenceAhead,
     Existing, SetCall

LEMMA StartInv ==
  ASSUME SagaInv, NEW g \in Poster, StartCreate(g) PROVE SagaInv'
<1>1. Goto(g, "insert") /\ UNCHANGED <<incidents, next, rows, job, call, message, restarted>>
  BY DEF StartCreate
<1>2. IncidentTypeOK'
  BY <1>1 DEF SagaInv, IncidentTypeOK, Goto, Pc
<1>3. CallsInOrder' /\ ReportCarried' /\ CallsKnowIncidents'
  BY <1>1 DEF SagaInv, IncidentTypeOK, CallsInOrder, ReportCarried, CallsKnowIncidents, Known, Goto
<1> QED
  BY <1>1, <1>2, <1>3 DEF SagaInv, SequenceAhead, JobsName, RowsName, Names, Existing

\* A new incident gets a number that nothing names.
LEMMA NewIncident ==
  ASSUME SagaInv, NEW g \in Poster, NEW n \in Id, n = next, n \notin Existing, next' = next + 1,
         incidents' = [incidents EXCEPT ![n] =
            [status |-> "ACTIVE", by |-> g, text |-> Report[g]]]
  PROVE  /\ incidents' \in [Id -> Incident]
         /\ \A i \in Id : incidents'[i].status = "none" <=> incidents'[i].by = None
         /\ SequenceAhead' /\ Names(n, g)'
         /\ \A i \in Id \cup {0}, h \in Poster \cup {None} : Names(i, h) => Names(i, h)'
<1> USE DEF SagaInv
<1>1. next' \in Int /\ n < next'
  BY DEF Id
<1>2. incidents' \in [Id -> Incident]
      /\ \A i \in Id : incidents'[i].status = "none" <=> incidents'[i].by = None
  BY DEF IncidentTypeOK, Incident, IncidentStatus
<1>3. /\ Existing' = Existing \cup {n}
      /\ incidents'[n].by = g
      /\ \A i \in Id \ {n} : incidents'[i] = incidents[i]
  BY DEF Existing, IncidentTypeOK
<1>4. SequenceAhead' /\ Names(n, g)'
  BY <1>1, <1>3 DEF SequenceAhead, Names, Existing, Id
<1>5. ASSUME NEW i \in Id \cup {0}, NEW h \in Poster \cup {None}, Names(i, h) PROVE Names(i, h)'
  BY <1>1, <1>3, <1>5 DEF Names, Existing, Id
<1> QED
  BY <1>2, <1>4, <1>5

LEMMA InsertIncidentInv ==
  ASSUME SagaInv, NEW g \in Poster, InsertIncident(g) PROVE SagaInv'
<1> USE DEF SagaInv
<1>1. /\ next \in Id /\ next' = next + 1 /\ next' \in 1..(MaxId + 2)
      /\ pc[g] \in {"insert", "orphan"}
      /\ UNCHANGED <<rows, call, message, restarted>>
  BY DEF InsertIncident, NewId, IncidentTypeOK, Id
<1>2. CASE next \in Existing
  <2>1. (Goto(g, "error") \/ Goto(g, "crashed")) /\ UNCHANGED <<incidents, job>>
    BY <1>2 DEF InsertIncident, NewId
  <2>2. IncidentTypeOK'
    BY <1>1, <2>1 DEF IncidentTypeOK, Goto, Pc, Final
  <2>3. SequenceAhead' /\ JobsName' /\ RowsName'
    BY <1>1, <2>1 DEF SequenceAhead, JobsName, RowsName, Names, Existing, Id, IncidentTypeOK, Job,
       Row
  <2>4. CallsKnowIncidents' /\ CallsInOrder' /\ ReportCarried'
    BY <1>1, <2>1 DEF CallsKnowIncidents, Known, CallsInOrder, ReportCarried, Goto, IncidentTypeOK
  <2> QED
    BY <2>2, <2>3, <2>4
<1>3. CASE next \notin Existing
  <2>0. PICK n \in Id : n = next
    BY <1>1
  <2>1. incidents' = [incidents EXCEPT ![n] =
            [status |-> "ACTIVE", by |-> g, text |-> Report[g]]]
    BY <1>1, <1>3, <2>0 DEF InsertIncident, NewId
  <2>2. \/ /\ job' = [job EXCEPT ![g] = [incident |-> n, of |-> g, text |-> Report[g]]]
           /\ Goto(g, "trigger")
        \/ Goto(g, "crashed") /\ UNCHANGED job
    BY <1>1, <1>3, <2>0 DEF InsertIncident, NewId
  <2>3. /\ incidents' \in [Id -> Incident]
        /\ \A i \in Id : incidents'[i].status = "none" <=> incidents'[i].by = None
        /\ SequenceAhead' /\ Names(n, g)'
        /\ \A i \in Id \cup {0}, h \in Poster \cup {None} : Names(i, h) => Names(i, h)'
    BY <1>1, <1>3, <2>0, <2>1, NewIncident
  <2>4. job' \in [Poster -> Job] /\ pc' \in [Poster -> Pc]
    <3>1. [incident |-> n, of |-> g, text |-> Report[g]] \in Job
      BY DEF Job
    <3>2. job' \in [Poster -> Job]
      BY <2>2, <3>1 DEF IncidentTypeOK
    <3>3. pc' \in [Poster -> Pc]
      BY <2>2 DEF IncidentTypeOK, Goto, Pc, Final
    <3> QED
      BY <3>2, <3>3
  <2>5. IncidentTypeOK'
    BY <1>1, <2>3, <2>4 DEF IncidentTypeOK
  <2>6. JobsName'
    <3> SUFFICES ASSUME ~restarted, NEW h \in Poster
                 PROVE  Names(job[h].incident, job[h].of)'
      BY <1>1 DEF JobsName
    <3>1. CASE job'[h] = job[h]
      <4>1. job[h].incident \in Id \cup {0} /\ job[h].of \in Poster \cup {None}
            /\ Names(job[h].incident, job[h].of)
        BY DEF JobsName, IncidentTypeOK, Job
      <4> QED
        BY <2>3, <3>1, <4>1 DEF Names
    <3>2. CASE job'[h] # job[h]
      <4>1. h = g /\ job'[h].incident = n /\ job'[h].of = g
        BY <2>2, <3>2 DEF IncidentTypeOK
      <4> QED
        BY <2>3, <4>1 DEF Names
    <3> QED
      BY <3>1, <3>2
  <2>7. RowsName'
    <3> SUFFICES ASSUME ~restarted, NEW row \in rows
                 PROVE  Names(row.incident, row.of)'
      BY <1>1 DEF RowsName
    <3>1. row.incident \in Id /\ row.of \in Poster /\ Names(row.incident, row.of)
      BY DEF RowsName, IncidentTypeOK, Row
    <3> QED
      BY <2>3, <3>1
  <2>8. CallsKnowIncidents' /\ CallsInOrder' /\ ReportCarried'
    BY <1>1, <2>2 DEF CallsKnowIncidents, Known, CallsInOrder, ReportCarried, IncidentTypeOK, Goto
  <2> QED
    BY <2>3, <2>5, <2>6, <2>7, <2>8
<1> QED
  BY <1>2, <1>3

LEMMA TriggerInv ==
  ASSUME SagaInv, NEW g \in Poster, TriggerAlert(g) PROVE SagaInv'
<1>1. /\ pc[g] = "trigger" /\ message' = [message EXCEPT ![g] = job[g].text]
      /\ Goto(g, "alert") /\ SetCall(g, "alert", "sent")
      /\ UNCHANGED <<incidents, next, rows, job, restarted>>
  BY DEF TriggerAlert
<1>2. Known(g) /\ "alert" \in Service /\ "sent" \in CallState
  BY <1>1 DEF SagaInv, CallsKnowIncidents, Service, CallState
<1>3. /\ call' \in [Poster -> [Service -> CallState]] /\ JobsName' /\ SequenceAhead'
      /\ \A h \in Poster, w \in Service : call'[h][w] # "none" => Known(h)'
  BY <1>1, <1>2, CallStep
<1>4. IncidentTypeOK' /\ RowsName'
  BY <1>1, <1>3 DEF SagaInv, IncidentTypeOK, RowsName, Names, Existing, Goto, Pc, Job
<1>5. CallsKnowIncidents'
  BY <1>1, <1>3 DEF SagaInv, IncidentTypeOK, CallsKnowIncidents, Known, Goto
<1>6. CallsInOrder' /\ ReportCarried'
  BY <1>1 DEF SagaInv, IncidentTypeOK, CallsInOrder, ReportCarried, Goto, SetCall
<1> QED
  BY <1>3, <1>4, <1>5, <1>6 DEF SagaInv

\* A change of an incident keeps who has created it.
LEMMA ChangeInv ==
  ASSUME SagaInv, NEW i \in Existing, incidents' \in [Id -> Incident],
         \A j \in Id : incidents'[j] # incidents[j] =>
            incidents'[j] = NoIncident
              \/ (incidents'[j].status # "none" /\ incidents[j].status # "none"
                  /\ incidents'[j].by = incidents[j].by),
         UNCHANGED <<next, rows, pc, job, call, message, restarted>>
  PROVE  SagaInv'
<1> USE DEF SagaInv
<1>1. Existing' \subseteq Existing /\ \A j \in Existing' : incidents'[j].by = incidents[j].by
  BY DEF Existing, NoIncident
<1>2. IncidentTypeOK'
  BY DEF IncidentTypeOK, NoIncident
<1>3. SequenceAhead'
  BY <1>1 DEF SequenceAhead
<1>4. JobsName' /\ RowsName'
  BY <1>1 DEF JobsName, RowsName, Names
<1> QED
  BY <1>2, <1>3, <1>4 DEF CallsKnowIncidents, Known, CallsInOrder, ReportCarried

LEMMA EditInv ==
  ASSUME SagaInv, NEW i \in Id,
         \/ \E txt \in Text : UpdateIncident(i, txt)
         \/ DeleteIncident(i)
         \/ \E st \in PutStatus : UpdateStatus(i, st)
  PROVE  SagaInv'
<1>0. i \in Existing /\ UNCHANGED <<next, rows, pc, job, call, message, restarted>>
  <2>1. ASSUME NEW txt \in Text, UpdateIncident(i, txt)
        PROVE  i \in Existing /\ UNCHANGED <<next, rows, pc, job, call, message, restarted>>
    BY <2>1 DEF UpdateIncident
  <2>2. ASSUME NEW st \in PutStatus, UpdateStatus(i, st)
        PROVE  i \in Existing /\ UNCHANGED <<next, rows, pc, job, call, message, restarted>>
    BY <2>2 DEF UpdateStatus
  <2> QED
    BY <2>1, <2>2 DEF DeleteIncident
<1>1. incidents[i].status \in IncidentStatus /\ incidents[i] \in Incident
  BY <1>0 DEF SagaInv, IncidentTypeOK, Incident, Existing
<1>2. /\ incidents' \in [Id -> Incident]
      /\ \A j \in Id \ {i} : incidents'[j] = incidents[j]
      /\ \/ incidents'[i] = NoIncident
         \/ (incidents'[i].status # "none" /\ incidents'[i].by = incidents[i].by)
  <2>1. CASE \E txt \in Text : UpdateIncident(i, txt)
    <3>1. PICK txt \in Text : incidents' = [incidents EXCEPT ![i].text = txt]
      BY <2>1 DEF UpdateIncident
    <3> QED
      BY <1>1, <3>1 DEF SagaInv, IncidentTypeOK, IncidentStatus, Incident
  <2>2. CASE DeleteIncident(i)
    BY <1>1, <2>2 DEF SagaInv, IncidentTypeOK, DeleteIncident, NoIncident, Incident
  <2>3. CASE \E st \in PutStatus : UpdateStatus(i, st)
    <3>1. PICK st \in IncidentStatus : incidents' = [incidents EXCEPT ![i].status = st]
      BY <2>3 DEF UpdateStatus
    <3> QED
      BY <1>1, <3>1 DEF SagaInv, IncidentTypeOK, IncidentStatus, Incident
  <2> QED
    BY <2>1, <2>2, <2>3
<1>3. \A j \in Id : incidents'[j] # incidents[j] =>
            incidents'[j] = NoIncident
              \/ (incidents'[j].status # "none" /\ incidents[j].status # "none"
                  /\ incidents'[j].by = incidents[j].by)
  <2>1. incidents[i].status # "none"
    BY <1>1 DEF IncidentStatus
  <2> SUFFICES ASSUME NEW j \in Id, incidents'[j] # incidents[j]
               PROVE  incidents'[j] = NoIncident
                 \/ (incidents'[j].status # "none" /\ incidents[j].status # "none"
                     /\ incidents'[j].by = incidents[j].by)
    OBVIOUS
  <2>2. j = i
    BY <1>2
  <2> QED
    BY <1>2, <2>1, <2>2
<1> QED
  BY <1>0, <1>2, <1>3, ChangeInv

-----------------------------------------------------------------------------
\* One step of a call, whoever takes it.
LEMMA CallInv ==
  ASSUME SagaInv, NEW g \in Poster, NEW v \in Service, NEW st \in CallState, SetCall(g, v, st),
         call[g][v] # "none" /\ call[g][v] # "done",
         UNCHANGED <<incidents, next, rows, pc, job, message, restarted>>
  PROVE  SagaInv'
<1>1. call' \in [Poster -> [Service -> CallState]] /\ CallsKnowIncidents' /\ JobsName'
      /\ SequenceAhead'
  <2>1. Known(g) /\ UNCHANGED <<incidents, next, job, restarted>>
    BY DEF SagaInv, CallsKnowIncidents
  <2>2. call' \in [Poster -> [Service -> CallState]] /\ JobsName' /\ SequenceAhead'
        /\ \A h \in Poster, w \in Service : call'[h][w] # "none" => Known(h)'
    BY <2>1, CallStep
  <2> QED
    BY <2>2 DEF SagaInv, CallsKnowIncidents, Known
<1>2. IncidentTypeOK' /\ RowsName'
  BY <1>1 DEF SagaInv, IncidentTypeOK, RowsName, Names, Existing
<1>3. CallsInOrder' /\ ReportCarried'
  BY DEF SagaInv, IncidentTypeOK, CallsInOrder, ReportCarried, SetCall, Service
<1> QED
  BY <1>1, <1>2, <1>3 DEF SagaInv

LEMMA ServedInv ==
  ASSUME SagaInv, NEW g \in Poster, NEW v \in Service, Validate(g, v) \/ CalleeFails(g, v)
  PROVE  SagaInv'
  BY CallInv DEF Validate, CalleeFails, CallState

LEMMA InsertInv ==
  ASSUME SagaInv, NEW g \in Poster, NEW v \in Service, InsertRow(g, v) PROVE SagaInv'
<1>1. /\ call[g][v] = "insert" /\ SetCall(g, v, "done")
      /\ rows' = rows \cup {NewRow(g, v)}
      /\ UNCHANGED <<incidents, next, pc, job, message, restarted>>
  BY DEF InsertRow
<1>2. call' \in [Poster -> [Service -> CallState]] /\ CallsKnowIncidents' /\ JobsName'
      /\ SequenceAhead'
  <2>1. Known(g) /\ UNCHANGED <<incidents, next, job, restarted>> /\ "done" \in CallState
    BY <1>1 DEF SagaInv, CallsKnowIncidents, CallState
  <2>2. call' \in [Poster -> [Service -> CallState]] /\ JobsName' /\ SequenceAhead'
        /\ \A h \in Poster, w \in Service : call'[h][w] # "none" => Known(h)'
    BY <1>1, <2>1, CallStep
  <2> QED
    BY <1>1, <2>2 DEF SagaInv, CallsKnowIncidents, Known
<1>3. NewRow(g, v) \in Row
  BY <1>1 DEF SagaInv, IncidentTypeOK, CallsKnowIncidents, Known, NewRow, Row
<1>4. IncidentTypeOK'
  BY <1>1, <1>2, <1>3 DEF SagaInv, IncidentTypeOK
<1>5. RowsName'
  BY <1>1 DEF SagaInv, RowsName, JobsName, Names, Existing, NewRow
<1>6. CallsInOrder' /\ ReportCarried'
  BY <1>1 DEF SagaInv, IncidentTypeOK, CallsInOrder, ReportCarried, SetCall, Service
<1> QED
  BY <1>2, <1>4, <1>5, <1>6 DEF SagaInv

LEMMA RowChangeInv ==
  ASSUME SagaInv, NEW row \in rows,
         DeleteRow(row) \/ \E txt \in Text : UpdateAlert(row, txt)
  PROVE  SagaInv'
<1>1. UNCHANGED <<incidents, next, pc, job, call, message, restarted>>
  BY DEF UpdateAlert, DeleteRow
<1>2. row \in Row /\ rows \subseteq Row
  BY DEF SagaInv, IncidentTypeOK
<1>3. ASSUME NEW new \in rows'
      PROVE  new \in Row /\ \E old \in rows : new.incident = old.incident /\ new.of = old.of
  <2>1. CASE new \in rows
    BY <1>2, <2>1
  <2>2. CASE \E txt \in Text : new = [row EXCEPT !.text = txt]
    BY <1>2, <2>2 DEF Row
  <2> QED
    BY <2>1, <2>2 DEF UpdateAlert, DeleteRow
<1>4. IncidentTypeOK'
  BY <1>1, <1>3 DEF SagaInv, IncidentTypeOK
<1>5. RowsName'
  BY <1>1, <1>3 DEF SagaInv, RowsName, Names, Existing
<1> QED
  BY <1>1, <1>4, <1>5 DEF SagaInv, SequenceAhead, CallsKnowIncidents, Known, JobsName, Names,
     CallsInOrder, ReportCarried, Existing

LEMMA PostInv ==
  ASSUME SagaInv, NEW g \in Poster, NEW v \in Service, NEW i \in Id, PostDirectly(g, v, i)
  PROVE  SagaInv'
<1>1. /\ i \in Existing
      /\ job' = [job EXCEPT ![g] =
            [incident |-> i, of |-> incidents[i].by, text |-> Report[g]]]
      /\ message' = [message EXCEPT ![g] = Report[g]]
      /\ Goto(g, "client") /\ SetCall(g, v, "sent")
      /\ UNCHANGED <<incidents, next, rows, restarted>>
  BY DEF PostDirectly
<1>2. incidents[i].by \in Poster
  BY <1>1 DEF SagaInv, IncidentTypeOK, Incident, Existing
<1>3. IncidentTypeOK'
  BY <1>1, <1>2 DEF SagaInv, IncidentTypeOK, Goto, SetCall, Pc, CallState, Job
<1>4. CallsKnowIncidents'
  BY <1>1, <1>2 DEF SagaInv, IncidentTypeOK, CallsKnowIncidents, Known, Goto, SetCall
<1>5. JobsName'
  BY <1>1 DEF SagaInv, IncidentTypeOK, JobsName, Names, SequenceAhead, Existing
<1>6. SequenceAhead' /\ RowsName'
  BY <1>1 DEF SagaInv, SequenceAhead, RowsName, Names, Existing
<1>7. CallsInOrder' /\ ReportCarried'
  BY <1>1 DEF SagaInv, IncidentTypeOK, CallsInOrder, ReportCarried, Goto, SetCall
<1> QED
  BY <1>3, <1>4, <1>5, <1>6, <1>7 DEF SagaInv

LEMMA AlertAnsweredInv ==
  ASSUME SagaInv, NEW g \in Poster, AlertAnswered(g) PROVE SagaInv'
<1>1. pc[g] = "alert" /\ UNCHANGED <<incidents, next, rows, job, message, restarted>>
  BY DEF AlertAnswered
<1>2. CASE call[g]["alert"] = "done" /\ Goto(g, "shelter") /\ SetCall(g, "shelter", "sent")
  <2>1. Known(g)
    BY <1>2 DEF SagaInv, CallsKnowIncidents, Service
  <2>2. call' \in [Poster -> [Service -> CallState]] /\ JobsName' /\ SequenceAhead'
        /\ \A h \in Poster, w \in Service : call'[h][w] # "none" => Known(h)'
    BY <1>1, <1>2, <2>1, CallStep DEF Service, CallState
  <2>5. CallsKnowIncidents'
    BY <1>1, <1>2, <2>2 DEF SagaInv, IncidentTypeOK, CallsKnowIncidents, Known, Goto
  <2>3. IncidentTypeOK' /\ RowsName'
    BY <1>1, <1>2, <2>2 DEF SagaInv, IncidentTypeOK, RowsName, Names, Existing, Goto, Pc
  <2>4. CallsInOrder' /\ ReportCarried'
    BY <1>1, <1>2 DEF SagaInv, IncidentTypeOK, CallsInOrder, ReportCarried, Goto, SetCall, Service
  <2> QED
    BY <2>2, <2>3, <2>4, <2>5 DEF SagaInv
<1>3. CASE Goto(g, "failed") /\ UNCHANGED call
  BY <1>1, <1>3 DEF SagaInv, IncidentTypeOK, SequenceAhead, CallsKnowIncidents, Known, JobsName,
     RowsName, Names, Existing, CallsInOrder, ReportCarried, Goto, Pc, Final
<1> QED
  BY <1>2, <1>3 DEF AlertAnswered

\* The end of a POST.
LEMMA AnswerInv ==
  ASSUME SagaInv, NEW g \in Poster, ShelterAnswered(g) \/ ClientAnswered(g) \/ GiveUp(g)
  PROVE  SagaInv'
<1>1. UNCHANGED <<incidents, next, rows, job, call, message, restarted>>
  BY DEF ShelterAnswered, ClientAnswered, GiveUp
<1>2. PICK where \in {"created", "posted", "failed"} :
         /\ Goto(g, where)
         /\ where = "created" => pc[g] = "shelter" /\ call[g]["shelter"] = "done"
  BY DEF ShelterAnswered, ClientAnswered, GiveUp
<1>3. IncidentTypeOK'
  BY <1>1, <1>2 DEF SagaInv, IncidentTypeOK, Goto, Pc, Final
<1>4. CallsInOrder' /\ ReportCarried' /\ CallsKnowIncidents'
  BY <1>1, <1>2 DEF SagaInv, IncidentTypeOK, CallsInOrder, ReportCarried, CallsKnowIncidents,
     Known, Goto, Service
<1> QED
  BY <1>1, <1>3, <1>4 DEF SagaInv, SequenceAhead, JobsName, RowsName, Names, Existing

LEMMA RestartInv ==
  ASSUME SagaInv, Restart PROVE SagaInv'
<1>1. next' = ExistingMax + 2 /\ restarted' = TRUE /\ UNCHANGED <<incidents, rows, job, call, message>>
  BY DEF Restart, Seed
<1>0. \A g \in Poster : pc'[g] = pc[g] \/ pc'[g] \in {"orphan", "crashed"}
  BY DEF Restart
<1>2. ExistingMax \in 0..MaxId
  BY ExistingMaxIsMax DEF Existing, Id
<1>3. IncidentTypeOK'
  <2>1. pc' \in [Poster -> Pc]
    BY DEF SagaInv, IncidentTypeOK, Restart, Pc, Final
  <2> QED
    BY <1>1, <1>2, <2>1 DEF SagaInv, IncidentTypeOK
<1>4. SequenceAhead'
  BY <1>1, <1>2, ExistingMaxIsMax DEF SequenceAhead, Existing, Id
<1>5. CallsInOrder' /\ ReportCarried' /\ CallsKnowIncidents'
  BY <1>0, <1>1 DEF SagaInv, CallsInOrder, ReportCarried, CallsKnowIncidents, Known
<1> QED
  BY <1>1, <1>3, <1>4, <1>5 DEF SagaInv, JobsName, RowsName

LEMMA NextInv == SagaInv /\ [Next]_vars => SagaInv'
<1> SUFFICES ASSUME SagaInv, [Next]_vars PROVE SagaInv'
  OBVIOUS
<1>1. CASE UNCHANGED vars
  BY <1>1 DEF vars, SagaInv, IncidentTypeOK, SequenceAhead, CallsKnowIncidents, Known, JobsName,
     RowsName, Names, Existing, CallsInOrder, ReportCarried
<1>2. CASE \E g \in Poster :
              StartCreate(g) \/ InsertIncident(g) \/ SagaStep(g) \/ ClientAnswered(g)
  BY <1>2, StartInv, InsertIncidentInv, TriggerInv, AlertAnsweredInv, AnswerInv DEF SagaStep
<1>3. CASE \E g \in Poster, v \in Service :
              \/ \E i \in Id : PostDirectly(g, v, i)
              \/ Validate(g, v) \/ CalleeFails(g, v) \/ InsertRow(g, v)
  BY <1>3, PostInv, ServedInv, InsertInv
<1>4. CASE \E i \in Id : \/ DeleteIncident(i) \/ \E txt \in Text : UpdateIncident(i, txt)
                         \/ \E st \in PutStatus : UpdateStatus(i, st)
  BY <1>4, EditInv
<1>5. CASE \E row \in rows : DeleteRow(row) \/ \E txt \in Text : UpdateAlert(row, txt)
  BY <1>5, RowChangeInv
<1>6. CASE Restart
  BY <1>6, RestartInv
<1> QED
  BY <1>1, <1>2, <1>3, <1>4, <1>5, <1>6 DEF Next

LEMMA InvAlways == Spec => []SagaInv
  BY InitInv, NextInv, PTL DEF Spec

-----------------------------------------------------------------------------
\* Tables, sequence and calls keep their types: a row that is inserted is about an
\* incident that somebody has created.
THEOREM IncidentTypes == Spec => []IncidentTypeOK
  BY InvAlways, PTL DEF SagaInv

\* Whatever incidents are created and deleted before a restart of the
\* incident-service, ensureSequenceStart leaves the sequence ahead of all that exist.
THEOREM SequenceAheadAlways == Spec => []SequenceAhead
  BY InvAlways, PTL DEF SagaInv

\* Until a restart, no incident gets a number that an alert, a shelter or a call
\* still under way has for an earlier one.
THEOREM RowNamesItsIncidentAlways == Spec => []RowNamesItsIncident
<1>1. SagaInv => RowNamesItsIncident
  BY DEF SagaInv, RowsName, Names, RowNamesItsIncident
<1> QED
  BY <1>1, InvAlways, PTL

\* POST /incidents answers 201 only when the alert-service and the shelter-service
\* have inserted their rows for this incident.
THEOREM CreatedIsAnnouncedAlways == Spec => []CreatedIsAnnounced
<1>1. SagaInv => CreatedIsAnnounced
  BY DEF SagaInv, CallsInOrder, CreatedIsAnnounced
<1> QED
  BY <1>1, InvAlways, PTL

\* What the client of a POST sent is what its alert says when it is inserted, for a
\* POST /incidents through the incident as it was inserted and the saga's message
\* (ReportCarried), whatever becomes of the incident, its number and other alerts.
THEOREM AlertAlwaysTellsReport == Spec => AlertTellsReport
<1> DEFINE A == \A g \in Poster : call[g]["alert"] # "done" /\ call'[g]["alert"] = "done" =>
                  \E row \in rows' : row.service = "alert" /\ row.by = g /\ row.text = Report[g]
<1>1. SagaInv /\ [Next]_vars => A
  <2> SUFFICES ASSUME SagaInv, [Next]_vars, NEW g \in Poster,
                      call[g]["alert"] # "done", call'[g]["alert"] = "done"
               PROVE  \E row \in rows' : row.service = "alert" /\ row.by = g /\ row.text = Report[g]
    OBVIOUS
  <2>1. call' # call
    OBVIOUS
  <2>2. PICK h \in Poster, v \in Service :
           \/ InsertRow(h, v)
           \/ \E st \in CallState \ {"done"} : SetCall(h, v, st)
    BY <2>1 DEF Next, SagaStep, vars, StartCreate, InsertIncident, TriggerAlert, PostDirectly,
       Validate, CalleeFails, AlertAnswered, ShelterAnswered, ClientAnswered, GiveUp,
       UpdateIncident, DeleteIncident, UpdateStatus, UpdateAlert, DeleteRow, Restart, CallState,
       Service
  <2>3. call \in [Poster -> [Service -> CallState]]
    BY DEF SagaInv, IncidentTypeOK
  <2>4. ~ \E st \in CallState \ {"done"} : SetCall(h, v, st)
    BY <2>3 DEF SetCall, Service
  <2>5. h = g /\ v = "alert"
    BY <2>2, <2>3, <2>4 DEF InsertRow, SetCall, Service
  <2>6. NewRow(g, "alert") \in rows' /\ call[g]["alert"] = "insert"
    BY <2>2, <2>4, <2>5 DEF InsertRow
  <2>7. message[g] = Report[g]
    BY <2>6 DEF SagaInv, ReportCarried, Service
  <2> QED
    BY <2>6, <2>7 DEF NewRow
<1> QED
  BY <1>1, InvAlways, PTL DEF Spec, AlertTellsReport

=============================================================================
