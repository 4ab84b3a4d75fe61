------------------------ MODULE ShelterService_proofs ------------------------
(***************************************************************************)
(* Proofs about ShelterService.  OccupancyFits is not inductive: between   *)
(* the check and the write the row may change, so the invariant says of    *)
(* every request under way that what it will write still fits the row, and *)
(* that an update of a shelter is alone with it.                           *)
(***************************************************************************)
EXTENDS ShelterService, TLAPS

USE ShelterAssumption

Writing(r) == pc[r] \in {"writeOccupancy", "writeShelter"}

OccupancyWillFit(r) ==
  pc[r] = "writeOccupancy" =>
     0 <= call[r].occupancy /\ call[r].occupancy <= shelters[call[r].shelter].capacity

CapacityWillFit(r) ==
  pc[r] = "writeShelter" => shelters[call[r].shelter].occupancy <= call[r].capacity

Alone(r, q) ==
  r # q /\ pc[r] = "writeShelter" /\ Writing(q) => call[r].shelter # call[q].shelter

CallHasRow(r) ==
  /\ pc[r] \in {"writeOccupancy", "writeShelter", "delete"} =>
        call[r].shelter \in Shelter /\ shelters[call[r].shelter].status # "new"
  /\ pc[r] = "insert" => call[r].capacity >= 0
  /\ pc[r] = "writeShelter" => call[r].status \in ShelterStatus

RowFits(s) ==
  0 <= shelters[s].occupancy /\ shelters[s].occupancy <= shelters[s].capacity

CallInv == \A r \in Request : CallHasRow(r)

TypeInv == ShelterTypeOK /\ CallInv

WillFit(r) == OccupancyWillFit(r) /\ CapacityWillFit(r)
FitInv ==
  /\ TypeInv
  /\ \A s \in Shelter : RowFits(s)
  /\ \A r \in Request : WillFit(r)
  /\ \A r, q \in Request : Alone(r, q)

\* What StatusOrRead returns is a status that PostgreSQL stores.
LEMMA StatusOrReadType ==
  ASSUME ShelterTypeOK, NEW s \in Shelter, ShelterExists(s),
         NEW st \in ShelterStatus \cup {"none"}
  PROVE  StatusOrRead(s, st) \in ShelterStatus
  BY DEF ShelterTypeOK, ShelterExists, ShelterRow, StatusOrRead, Gone, ShelterStatus

\* A handler that waits changes its own call only.
LEMMA AwaitFacts ==
  ASSUME ShelterTypeOK, NEW r \in Request, NEW where \in Pc, NEW c \in Call,
         Await(r, where, c)
  PROVE  /\ pc' \in [Request -> Pc] /\ call' \in [Request -> Call] /\ lost' = lost
         /\ pc'[r] = where /\ call'[r] = c
         /\ \A q \in Request : q # r => pc'[q] = pc[q] /\ call'[q] = call[q]
  BY DEF ShelterTypeOK, Await

\* A request that ends changes its own call only.
LEMMA EndFacts ==
  ASSUME ShelterTypeOK, NEW r \in Request, End(r)
  PROVE  /\ pc' \in [Request -> Pc] /\ call' \in [Request -> Call]
         /\ lost' \subseteq Request
         /\ pc'[r] = "idle"
         /\ \A q \in Request : q # r => pc'[q] = pc[q] /\ call'[q] = call[q]
<1>1. NoCall \in Call
  BY DEF NoCall, CallOf, Call, ShelterStatus
<1> QED BY <1>1 DEF ShelterTypeOK, End, Pc

\* No row goes back to "new", as far as the pending calls are concerned.
LEMMA CallKept ==
  ASSUME TypeInv, NEW q \in Request, pc'[q] = pc[q], call'[q] = call[q],
         \A s \in Shelter : shelters[s].status # "new" => shelters'[s].status # "new"
  PROVE  CallHasRow(q)'
  BY DEF TypeInv, CallInv, CallHasRow

\* Every row and every pending write keeps its type through all handlers.
LEMMA TypeStep == TypeInv /\ [ShelterNext]_shelterVars => TypeInv'
<1> SUFFICES ASSUME TypeInv, [ShelterNext]_shelterVars PROVE TypeInv'
  OBVIOUS
<1>t. ShelterTypeOK /\ CallInv
  BY DEF TypeInv
<1>a. ASSUME NEW r \in Request, NEW where \in Pc, NEW c \in Call,
             Await(r, where, c), UNCHANGED shelters,
             where \in {"writeOccupancy", "writeShelter", "delete"} =>
                c.shelter \in Shelter /\ shelters[c.shelter].status # "new",
             where = "insert" => c.capacity >= 0,
             where = "writeShelter" => c.status \in ShelterStatus
      PROVE  TypeInv'
  <2>1. ShelterTypeOK'
    BY <1>a, <1>t, AwaitFacts DEF ShelterTypeOK
  <2>2. CallHasRow(r)'
    BY <1>a, <1>t, AwaitFacts DEF CallHasRow
  <2>3. ASSUME NEW q \in Request, q # r PROVE CallHasRow(q)'
    BY <1>a, <1>t, <2>3, AwaitFacts, CallKept
  <2> QED BY <2>1, <2>2, <2>3 DEF TypeInv, CallInv
<1>e. ASSUME NEW r \in Request, End(r), shelters' \in [Shelter -> ShelterRow],
             \A s \in Shelter : shelters[s].status # "new" => shelters'[s].status # "new"
      PROVE  TypeInv'
  <2>1. ShelterTypeOK'
    BY <1>e, <1>t, EndFacts DEF ShelterTypeOK
  <2>2. CallHasRow(r)'
    BY <1>e, <1>t, EndFacts DEF CallHasRow
  <2>3. ASSUME NEW q \in Request, q # r PROVE CallHasRow(q)'
    BY <1>e, <1>t, <2>3, EndFacts, CallKept
  <2> QED BY <2>1, <2>2, <2>3 DEF TypeInv, CallInv
<1>d. ASSUME NEW r \in Request, ProcessDies(r)
      PROVE  TypeInv'
  BY <1>d DEF TypeInv, ProcessDies, ShelterTypeOK, CallInv, CallHasRow
<1>1. CASE UNCHANGED shelterVars
  BY <1>1 DEF TypeInv, shelterVars, ShelterTypeOK, CallInv, CallHasRow
<1>2. ASSUME NEW r \in Request, NEW c \in Capacity, StartCreate(r, c)
      PROVE  TypeInv'
  <2>1. CallOf(None, c, 0, "none", "none") \in Call
    BY DEF CallOf, Call, Capacity
  <2> QED BY <1>2, <2>1, <1>a DEF StartCreate, Pc, Capacity, CallOf
<1>3. ASSUME NEW r \in Request, NEW s \in Shelter, NEW n \in 0..MaxCapacity,
             StartOccupancy(r, s, n)
      PROVE  TypeInv'
  <2> DEFINE c == CallOf(s, 0, n, "none", "none")
  <2>1. c \in Call /\ c.shelter = s
    BY DEF CallOf, Call
  <2> HIDE DEF c
  <2>2. Await(r, "writeOccupancy", c) /\ UNCHANGED shelters
    BY <1>3 DEF StartOccupancy, c
  <2>3. shelters[s].status # "new"
    BY <1>3 DEF StartOccupancy, ShelterExists, Gone
  <2> QED BY <2>1, <2>2, <2>3, <1>a DEF Pc
<1>4. ASSUME NEW r \in Request, NEW s \in Shelter, NEW c \in Capacity,
             NEW st \in ShelterStatus \cup {"none"}, StartUpdate(r, s, c, st)
      PROVE  TypeInv'
  <2> DEFINE w == CallOf(s, c, 0, st, StatusOrRead(s, st))
  <2>1. StatusOrRead(s, st) \in ShelterStatus
    BY <1>4, <1>t, StatusOrReadType DEF StartUpdate
  <2>2. w \in Call /\ w.shelter = s /\ w.status \in ShelterStatus
    BY <2>1 DEF CallOf, Call, Capacity
  <2> HIDE DEF w
  <2>3. Await(r, "writeShelter", w) /\ UNCHANGED shelters
    BY <1>4 DEF StartUpdate, w
  <2>4. shelters[s].status # "new"
    BY <1>4 DEF StartUpdate, ShelterExists, Gone
  <2> QED BY <2>2, <2>3, <2>4, <1>a DEF Pc
<1>5. ASSUME NEW r \in Request, NEW s \in Shelter, StartDelete(r, s)
      PROVE  TypeInv'
  <2> DEFINE c == CallOf(s, 0, 0, "none", "none")
  <2>1. c \in Call /\ c.shelter = s
    BY DEF CallOf, Call
  <2> HIDE DEF c
  <2>2. Await(r, "delete", c) /\ UNCHANGED shelters
    BY <1>5 DEF StartDelete, c
  <2> QED BY <1>5, <2>1, <2>2, <1>a DEF StartDelete, Pc, ShelterExists, Gone
<1>6. ASSUME NEW r \in Request, RejectCreate(r) \/ ClientSeesReset(r)
      PROVE  TypeInv'
  BY <1>6, <1>t, <1>e DEF RejectCreate, ClientSeesReset, ShelterTypeOK
<1>7. ASSUME NEW r \in Request, NEW s \in Shelter, InsertShelter(r, s)
      PROVE  TypeInv'
  BY <1>7, <1>t, <1>e
     DEF InsertShelter, ShelterTypeOK, ShelterRow, ShelterStatus, Call
<1>8. ASSUME NEW r \in Request, WriteOccupancy(r)
      PROVE  TypeInv'
  <2> DEFINE s == call[r].shelter
  <2>0. s \in Shelter /\ End(r) /\ call[r] \in Call
    BY <1>8, <1>t DEF WriteOccupancy, CallInv, CallHasRow, ShelterTypeOK
  <2>1. CASE shelters' = shelters
    BY <2>0, <2>1, <1>t, <1>e DEF ShelterTypeOK
  <2>2. CASE shelters' = [shelters EXCEPT ![s].occupancy = call[r].occupancy]
    <3>1. shelters' \in [Shelter -> ShelterRow]
      BY <1>t, <2>0, <2>2 DEF ShelterTypeOK, ShelterRow, Call
    <3>2. \A x \in Shelter : shelters'[x].status = shelters[x].status
      BY <1>t, <2>0, <2>2 DEF ShelterTypeOK, ShelterRow
    <3> QED BY <2>0, <3>1, <3>2, <1>e
  <2> QED BY <1>8, <2>1, <2>2 DEF WriteOccupancy
<1>9. ASSUME NEW r \in Request, WriteShelter(r)
      PROVE  TypeInv'
  <2> DEFINE s == call[r].shelter
  <2>0. s \in Shelter /\ call[r].status \in ShelterStatus
    BY <1>9, <1>t DEF WriteShelter, CallInv, CallHasRow
  <2>1. CASE ProcessDies(r)
    BY <2>1, <1>d
  <2>2. ASSUME End(r),
               shelters' = [shelters EXCEPT ![s].capacity = call[r].capacity,
                                            ![s].status = call[r].status]
        PROVE  TypeInv'
    <3>1. shelters' \in [Shelter -> ShelterRow]
      BY <1>t, <2>0, <2>2 DEF ShelterTypeOK, ShelterRow, Call
    <3>2. \A x \in Shelter : shelters[x].status # "new" => shelters'[x].status # "new"
      BY <1>t, <2>0, <2>2 DEF ShelterTypeOK, ShelterRow, ShelterStatus
    <3> QED BY <2>2, <3>1, <3>2, <1>e
  <2> QED BY <1>9, <2>1, <2>2 DEF WriteShelter
<1>10. ASSUME NEW r \in Request, DeleteShelter(r)
       PROVE  TypeInv'
  BY <1>10, <1>t, <1>e DEF DeleteShelter, ShelterTypeOK, ShelterRow, Gone
<1>11. ASSUME NEW r \in Request, QueryFails(r)
       PROVE  TypeInv'
  BY <1>11, <1>d DEF QueryFails
<1> QED
  BY <1>1, <1>2, <1>3, <1>4, <1>5, <1>6, <1>7, <1>8, <1>9, <1>10, <1>11
     DEF ShelterNext, ShelterArrival, ShelterStep

LEMMA TypeInit == ShelterInit => TypeInv
<1>1. NoCall \in Call /\ NewShelter \in ShelterRow
  BY DEF NoCall, CallOf, Call, NewShelter, ShelterRow, Gone
<1> QED BY <1>1 DEF ShelterInit, TypeInv, ShelterTypeOK, CallInv, CallHasRow, Pc

\* The rows of the shelters table and the calls under way keep their types.
THEOREM ShelterTypeCorrect == ShelterSpec => []ShelterTypeOK
<1>1. TypeInv => ShelterTypeOK
  BY DEF TypeInv
<1> QED BY <1>1, TypeInit, TypeStep, PTL DEF ShelterSpec

-----------------------------------------------------------------------------
UpdatesAlone == "update_alone" \in Discipline

\* A request that ends leaves the others, which only must still fit the rows.
LEMMA EndFits ==
  ASSUME FitInv, TypeInv', NEW r \in Request, End(r),
         \A s \in Shelter : RowFits(s)',
         \A q \in Request : q # r => WillFit(q)'
  PROVE  FitInv'
<1>1. WillFit(r)'
  BY EndFacts DEF FitInv, TypeInv, WillFit, OccupancyWillFit, CapacityWillFit
<1>2. ASSUME NEW p \in Request, NEW q \in Request PROVE Alone(p, q)'
  BY EndFacts DEF FitInv, TypeInv, Alone, Writing
<1> QED BY <1>1, <1>2 DEF FitInv

\* A request that begins to wait must fit the rows and be alone if it updates.
LEMMA AwaitFits ==
  ASSUME FitInv, TypeInv', NEW r \in Request, NEW where \in Pc, NEW c \in Call,
         Await(r, where, c), UNCHANGED shelters,
         WillFit(r)',
         \A q \in Request : Alone(r, q)' /\ Alone(q, r)'
  PROVE  FitInv'
<1>1. ASSUME NEW q \in Request, q # r PROVE WillFit(q)'
  BY <1>1, AwaitFacts DEF FitInv, TypeInv, WillFit, OccupancyWillFit, CapacityWillFit
<1>2. ASSUME NEW p \in Request, NEW q \in Request, p # r, q # r PROVE Alone(p, q)'
  BY <1>2, AwaitFacts DEF FitInv, TypeInv, Alone, Writing
<1>3. \A s \in Shelter : RowFits(s)'
  BY DEF FitInv, RowFits
<1> QED BY <1>1, <1>2, <1>3 DEF FitInv

\* Rows that keep their capacity and occupancy still fit what is pending.
LEMMA RowsKept ==
  ASSUME FitInv, NEW q \in Request, pc'[q] = pc[q], call'[q] = call[q],
         pc[q] \in {"writeOccupancy", "writeShelter"} =>
            /\ shelters'[call[q].shelter].capacity = shelters[call[q].shelter].capacity
            /\ shelters'[call[q].shelter].occupancy = shelters[call[q].shelter].occupancy
  PROVE  WillFit(q)'
  BY DEF FitInv, WillFit, OccupancyWillFit, CapacityWillFit

LEMMA FitStep ==
  UpdatesAlone => (FitInv /\ [ShelterNext]_shelterVars => FitInv')
<1> SUFFICES ASSUME UpdatesAlone, FitInv, [ShelterNext]_shelterVars PROVE FitInv'
  OBVIOUS
<1>t. TypeInv /\ ShelterTypeOK /\ CallInv /\ TypeInv'
  BY TypeStep DEF FitInv, TypeInv
<1>f. /\ \A s \in Shelter : RowFits(s)
      /\ \A q \in Request : WillFit(q)
      /\ \A p, q \in Request : Alone(p, q)
  BY DEF FitInv
<1>u. CASE UNCHANGED <<shelters, pc, call>>
  BY <1>u, <1>t, <1>f
     DEF FitInv, RowFits, WillFit, OccupancyWillFit, CapacityWillFit, Alone, Writing
<1>2. ASSUME NEW r \in Request, NEW where \in Pc, NEW c \in Call, Await(r, where, c),
             where \notin {"writeOccupancy", "writeShelter"}, UNCHANGED shelters
      PROVE  FitInv'
  <2>1. pc'[r] = where /\ \A q \in Request : q # r => pc'[q] = pc[q]
    BY <1>2, <1>t, AwaitFacts
  <2>2. WillFit(r)' /\ \A q \in Request : Alone(r, q)' /\ Alone(q, r)'
    BY <1>2, <2>1 DEF WillFit, OccupancyWillFit, CapacityWillFit, Alone, Writing
  <2> QED BY <1>2, <2>2, <1>t, AwaitFits
<1>3. ASSUME NEW r \in Request, NEW s \in Shelter, NEW n \in 0..MaxCapacity,
             StartOccupancy(r, s, n)
      PROVE  FitInv'
  <2> DEFINE c == CallOf(s, 0, n, "none", "none")
  <2>1. c \in Call /\ c.shelter = s /\ c.occupancy = n
    BY DEF CallOf, Call
  <2> HIDE DEF c
  <2>2. Await(r, "writeOccupancy", c) /\ UNCHANGED shelters
    BY <1>3 DEF StartOccupancy, c
  <2>3. "writeOccupancy" \in Pc
    BY DEF Pc
  <2>4. /\ pc'[r] = "writeOccupancy" /\ call'[r] = c
        /\ \A q \in Request : q # r => pc'[q] = pc[q] /\ call'[q] = call[q]
    BY <2>1, <2>2, <2>3, <1>t, AwaitFacts
  <2>5. WillFit(r)'
    BY <1>3, <2>1, <2>2, <2>4
       DEF StartOccupancy, WillFit, OccupancyWillFit, CapacityWillFit
  <2>6. \A q \in Request : ~(call[q].shelter = s /\ pc[q] = "writeShelter")
    BY <1>3 DEF StartOccupancy, Apart, UpdatesAlone
  <2>7. \A q \in Request : Alone(r, q)' /\ Alone(q, r)'
    BY <2>1, <2>4, <2>6 DEF Alone, Writing
  <2> QED BY <2>1, <2>2, <2>3, <2>5, <2>7, <1>t, AwaitFits
<1>4. ASSUME NEW r \in Request, NEW s \in Shelter, NEW cap \in Capacity,
             NEW st \in ShelterStatus \cup {"none"}, StartUpdate(r, s, cap, st)
      PROVE  FitInv'
  <2> DEFINE c == CallOf(s, cap, 0, st, StatusOrRead(s, st))
  <2>1. c \in Call /\ c.shelter = s /\ c.capacity = cap
    BY <1>4, <1>t, StatusOrReadType DEF StartUpdate, CallOf, Call, Capacity
  <2> HIDE DEF c
  <2>2. Await(r, "writeShelter", c) /\ UNCHANGED shelters
    BY <1>4 DEF StartUpdate, c
  <2>3. "writeShelter" \in Pc
    BY DEF Pc
  <2>4. /\ pc'[r] = "writeShelter" /\ call'[r] = c
        /\ \A q \in Request : q # r => pc'[q] = pc[q] /\ call'[q] = call[q]
    BY <2>1, <2>2, <2>3, <1>t, AwaitFacts
  <2>5. shelters[s].occupancy <= cap
    BY <1>4, <1>t DEF StartUpdate, ShelterTypeOK, ShelterRow, Capacity
  <2>6. WillFit(r)'
    BY <2>1, <2>2, <2>4, <2>5 DEF WillFit, OccupancyWillFit, CapacityWillFit
  <2>7. \A q \in Request : ~(call[q].shelter = s /\ Writing(q))
    BY <1>4 DEF StartUpdate, Apart, UpdatesAlone, Writing
  <2>8. \A q \in Request : Alone(r, q)' /\ Alone(q, r)'
    BY <2>1, <2>4, <2>7 DEF Alone, Writing
  <2> QED BY <2>1, <2>2, <2>3, <2>6, <2>8, <1>t, AwaitFits
<1>5. ASSUME NEW r \in Request, End(r),
             \A s \in Shelter : /\ shelters'[s].capacity = shelters[s].capacity
                                /\ shelters'[s].occupancy = shelters[s].occupancy
      PROVE  FitInv'
  <2>1. ASSUME NEW q \in Request, q # r PROVE WillFit(q)'
    <3>1. pc'[q] = pc[q] /\ call'[q] = call[q]
      BY <1>5, <1>t, <2>1, EndFacts
    <3>2. Writing(q) => call[q].shelter \in Shelter
      BY <1>t DEF CallInv, CallHasRow, Writing
    <3> QED BY <1>5, <3>1, <3>2, RowsKept DEF Writing
  <2>2. \A s \in Shelter : RowFits(s)'
    BY <1>5, <1>f DEF RowFits
  <2> QED BY <1>5, <1>t, <2>1, <2>2, EndFits
<1>6. ASSUME NEW r \in Request, NEW s \in Shelter, InsertShelter(r, s)
      PROVE  FitInv'
  <2>1. /\ End(r)
        /\ shelters' = [shelters EXCEPT ![s] =
             [status |-> "REQUEST", capacity |-> call[r].capacity, occupancy |-> 0]]
        /\ call[r].capacity \in Int /\ 0 <= call[r].capacity
    BY <1>6, <1>t DEF InsertShelter, CallInv, CallHasRow, ShelterTypeOK, Call
  <2>2. \A x \in Shelter : RowFits(x)'
    BY <2>1, <1>t, <1>f DEF RowFits, ShelterTypeOK
  <2>3. ASSUME NEW q \in Request, q # r PROVE WillFit(q)'
    <3>1. pc'[q] = pc[q] /\ call'[q] = call[q]
      BY <2>1, <1>t, <2>3, EndFacts
    <3>2. Writing(q) => call[q].shelter \in Shelter /\ call[q].shelter # s
      BY <1>6, <1>t DEF InsertShelter, CallInv, CallHasRow, Writing
    <3>3. \A x \in Shelter : x # s => shelters'[x] = shelters[x]
      BY <2>1, <1>t DEF ShelterTypeOK
    <3> QED BY <3>1, <3>2, <3>3, RowsKept DEF Writing
  <2> QED BY <2>1, <1>t, <2>2, <2>3, EndFits
<1>7. ASSUME NEW r \in Request, WriteOccupancy(r)
      PROVE  FitInv'
  <2> DEFINE s == call[r].shelter
             n == call[r].occupancy
  <2>1. /\ s \in Shelter /\ End(r) /\ n \in Int
        /\ 0 <= n /\ n <= shelters[s].capacity
    BY <1>7, <1>t, <1>f
       DEF WriteOccupancy, CallInv, CallHasRow, ShelterTypeOK, Call, WillFit, OccupancyWillFit
  <2>2. CASE shelters' = shelters
    BY <2>1, <2>2, <1>5
  <2>3. CASE shelters' = [shelters EXCEPT ![s].occupancy = n]
    <3>1. /\ shelters'[s].occupancy = n /\ shelters'[s].capacity = shelters[s].capacity
          /\ \A x \in Shelter : x # s => shelters'[x] = shelters[x]
      BY <2>1, <2>3, <1>t DEF ShelterTypeOK, ShelterRow
    <3>2. \A x \in Shelter : RowFits(x)'
      BY <3>1, <2>1, <1>f DEF RowFits
    <3>3. ASSUME NEW q \in Request, q # r PROVE WillFit(q)'
      <4>1. pc'[q] = pc[q] /\ call'[q] = call[q]
        BY <2>1, <1>t, <3>3, EndFacts
      <4>2. Writing(q) => call[q].shelter \in Shelter
        BY <1>t DEF CallInv, CallHasRow, Writing
      <4>3. pc[q] = "writeShelter" => call[q].shelter # s
        BY <1>7, <1>f, <3>3 DEF Alone, Writing, WriteOccupancy
      <4> QED BY <4>1, <4>2, <4>3, <3>1, <1>f
              DEF WillFit, OccupancyWillFit, CapacityWillFit, Writing
    <3> QED BY <2>1, <1>t, <3>2, <3>3, EndFits
  <2> QED BY <1>7, <2>2, <2>3 DEF WriteOccupancy
<1>8. ASSUME NEW r \in Request, WriteShelter(r)
      PROVE  FitInv'
  <2> DEFINE s == call[r].shelter
             cap == call[r].capacity
  <2>1. /\ s \in Shelter /\ cap \in Int /\ shelters[s].occupancy <= cap
    BY <1>8, <1>t, <1>f
       DEF WriteShelter, CallInv, CallHasRow, ShelterTypeOK, Call, WillFit, CapacityWillFit
  <2>2. CASE ProcessDies(r)
    BY <2>2, <1>u DEF ProcessDies
  <2>3. ASSUME End(r), shelters' = [shelters EXCEPT ![s].capacity = cap,
                                                    ![s].status = call[r].status]
        PROVE  FitInv'
    <3>1. /\ shelters'[s].capacity = cap /\ shelters'[s].occupancy = shelters[s].occupancy
          /\ \A x \in Shelter : x # s => shelters'[x] = shelters[x]
      BY <2>1, <2>3, <1>t DEF ShelterTypeOK, ShelterRow
    <3>2. \A x \in Shelter : RowFits(x)'
      BY <3>1, <2>1, <1>f DEF RowFits
    <3>3. ASSUME NEW q \in Request, q # r PROVE WillFit(q)'
      <4>1. pc'[q] = pc[q] /\ call'[q] = call[q]
        BY <2>3, <1>t, <3>3, EndFacts
      <4>2. Writing(q) => call[q].shelter \in Shelter
        BY <1>t DEF CallInv, CallHasRow, Writing
      <4>3. Writing(q) => call[q].shelter # s
        BY <1>8, <1>f, <3>3 DEF Alone, WriteShelter
      <4> QED BY <4>1, <4>2, <4>3, <3>1, RowsKept DEF Writing
    <3> QED BY <2>3, <1>t, <3>2, <3>3, EndFits
  <2> QED BY <1>8, <2>2, <2>3 DEF WriteShelter
<1>9. ASSUME NEW r \in Request, DeleteShelter(r)
      PROVE  FitInv'
  <2>1. \A s \in Shelter : /\ shelters'[s].capacity = shelters[s].capacity
                           /\ shelters'[s].occupancy = shelters[s].occupancy
    BY <1>9, <1>t DEF DeleteShelter, ShelterTypeOK, ShelterRow
  <2> QED BY <1>9, <2>1, <1>5 DEF DeleteShelter
<1>10. ASSUME NEW r \in Request, RejectCreate(r) \/ ClientSeesReset(r)
       PROVE  FitInv'
  BY <1>10, <1>5 DEF RejectCreate, ClientSeesReset
<1>11. ASSUME NEW r \in Request, NEW c \in Capacity, StartCreate(r, c)
       PROVE  FitInv'
  <2>1. CallOf(None, c, 0, "none", "none") \in Call /\ "insert" \in Pc
    BY DEF CallOf, Call, Capacity, Pc
  <2> QED BY <1>11, <2>1, <1>2 DEF StartCreate
<1>12. ASSUME NEW r \in Request, NEW s \in Shelter, StartDelete(r, s)
       PROVE  FitInv'
  <2>1. CallOf(s, 0, 0, "none", "none") \in Call /\ "delete" \in Pc
    BY DEF CallOf, Call, Pc
  <2> QED BY <1>12, <2>1, <1>2 DEF StartDelete
<1>13. ASSUME NEW r \in Request, QueryFails(r)
       PROVE  FitInv'
  BY <1>13, <1>u DEF QueryFails, ProcessDies
<1>14. CASE UNCHANGED shelterVars
  BY <1>14, <1>u DEF shelterVars
<1> QED
  BY <1>3, <1>4, <1>6, <1>7, <1>8, <1>9, <1>10, <1>11, <1>12, <1>13, <1>14
     DEF ShelterNext, ShelterArrival, ShelterStep

LEMMA FitInit == ShelterInit => FitInv
<1> SUFFICES ASSUME ShelterInit PROVE FitInv
  OBVIOUS
<1>1. \A s \in Shelter : RowFits(s)
  BY DEF ShelterInit, NewShelter, RowFits
<1>2. \A r \in Request : pc[r] = "idle"
  BY DEF ShelterInit
<1> QED
  BY <1>1, <1>2, TypeInit
     DEF FitInv, WillFit, OccupancyWillFit, CapacityWillFit, Alone, Writing

\* If no client updates a shelter while another changes it, the occupancy is
\* always between 0 and the capacity, although no handler checks it when it
\* writes; updates of the occupancy may overlap with one another.
THEOREM OccupancyFitsTheorem == UpdatesAlone => (ShelterSpec => []OccupancyFits)
<1>1. FitInv => OccupancyFits
  BY DEF FitInv, OccupancyFits, RowFits
<1>2. ASSUME UpdatesAlone PROVE FitInv /\ [ShelterNext]_shelterVars => FitInv'
  BY <1>2, FitStep
<1>3. ASSUME UpdatesAlone PROVE ShelterSpec => []OccupancyFits
  BY <1>1, <1>2, <1>3, FitInit, PTL DEF ShelterSpec
<1> QED BY <1>3

-----------------------------------------------------------------------------
(* The status.  An update that was not asked for one writes back the status *)
(* it read, so it changes nothing only if that status still stands.         *)

StatusKnown(r) ==
  pc[r] = "writeShelter" =>
     LET s == call[r].shelter IN
       IF call[r].asked = "none"
         THEN ShelterExists(s) => call[r].status = shelters[s].status
         ELSE call[r].status = call[r].asked

StatusInv == FitInv /\ \A r \in Request : StatusKnown(r)

\* What a pending update remembers stays true while nobody writes another status.
LEMMA StatusKept ==
  ASSUME NEW q \in Request, StatusKnown(q), pc'[q] = pc[q], call'[q] = call[q],
         pc[q] = "writeShelter" =>
            \/ shelters'[call[q].shelter].status = shelters[call[q].shelter].status
            \/ shelters'[call[q].shelter].status \in Gone
  PROVE  StatusKnown(q)'
BY DEF StatusKnown, ShelterExists

LEMMA StatusStep ==
  ASSUME UpdatesAlone, StatusInv, [ShelterNext]_shelterVars
  PROVE  StatusInv'
<1>t. FitInv' /\ TypeInv /\ ShelterTypeOK /\ CallInv
  BY FitStep DEF StatusInv, FitInv, TypeInv
<1>f. \A q \in Request : StatusKnown(q)
  BY DEF StatusInv
<1>g. SUFFICES \A q \in Request : StatusKnown(q)'
  BY <1>t DEF StatusInv
<1>u. CASE UNCHANGED <<shelters, pc, call>>
  BY <1>u, <1>f DEF StatusKnown, ShelterExists
<1>a. ASSUME NEW r \in Request, NEW where \in Pc, NEW c \in Call, Await(r, where, c),
             UNCHANGED shelters,
             where = "writeShelter" =>
                IF c.asked = "none" THEN c.status = shelters[c.shelter].status
                                    ELSE c.status = c.asked
      PROVE  \A q \in Request : StatusKnown(q)'
  <2>1. /\ pc'[r] = where /\ call'[r] = c
        /\ \A q \in Request : q # r => pc'[q] = pc[q] /\ call'[q] = call[q]
    BY <1>a, <1>t, AwaitFacts
  <2>2. StatusKnown(r)'
    BY <1>a, <2>1 DEF StatusKnown
  <2>3. ASSUME NEW q \in Request, q # r PROVE StatusKnown(q)'
    BY <1>a, <1>f, <2>1, <2>3, StatusKept
  <2> QED BY <2>2, <2>3
<1>e. ASSUME NEW r \in Request, End(r),
             \A q \in Request : q # r /\ pc[q] = "writeShelter" =>
                \/ shelters'[call[q].shelter].status = shelters[call[q].shelter].status
                \/ shelters'[call[q].shelter].status \in Gone
      PROVE  \A q \in Request : StatusKnown(q)'
  <2>1. /\ pc'[r] = "idle"
        /\ \A q \in Request : q # r => pc'[q] = pc[q] /\ call'[q] = call[q]
    BY <1>e, <1>t, EndFacts
  <2>2. StatusKnown(r)'
    BY <2>1 DEF StatusKnown
  <2>3. ASSUME NEW q \in Request, q # r PROVE StatusKnown(q)'
    BY <1>e, <1>f, <2>1, <2>3, StatusKept
  <2> QED BY <2>2, <2>3
<1>s. \A q \in Request : pc[q] = "writeShelter" =>
         call[q].shelter \in Shelter /\ shelters[call[q].shelter].status # "new"
  BY <1>t DEF CallInv, CallHasRow
<1>1. ASSUME NEW r \in Request, NEW s \in Shelter, NEW cap \in Capacity,
             NEW st \in ShelterStatus \cup {"none"}, StartUpdate(r, s, cap, st)
      PROVE  \A q \in Request : StatusKnown(q)'
  <2> DEFINE c == CallOf(s, cap, 0, st, StatusOrRead(s, st))
  <2>1. /\ c \in Call /\ c.shelter = s /\ c.asked = st
        /\ c.status = IF st = "none" THEN shelters[s].status ELSE st
    BY <1>1, <1>t, StatusOrReadType
       DEF StartUpdate, CallOf, Call, Capacity, StatusOrRead
  <2> HIDE DEF c
  <2>2. Await(r, "writeShelter", c) /\ UNCHANGED shelters
    BY <1>1 DEF StartUpdate, c
  <2> QED BY <2>1, <2>2, <1>a DEF Pc
<1>2. ASSUME NEW r \in Request, NEW s \in Shelter, NEW n \in 0..MaxCapacity,
             StartOccupancy(r, s, n)
      PROVE  \A q \in Request : StatusKnown(q)'
  <2>1. CallOf(s, 0, n, "none", "none") \in Call /\ "writeOccupancy" \in Pc
    BY DEF CallOf, Call, Pc
  <2> QED BY <1>2, <2>1, <1>a DEF StartOccupancy
<1>3. ASSUME NEW r \in Request, NEW c \in Capacity, StartCreate(r, c)
      PROVE  \A q \in Request : StatusKnown(q)'
  <2>1. CallOf(None, c, 0, "none", "none") \in Call /\ "insert" \in Pc
    BY DEF CallOf, Call, Capacity, Pc
  <2> QED BY <1>3, <2>1, <1>a DEF StartCreate
<1>4. ASSUME NEW r \in Request, NEW s \in Shelter, StartDelete(r, s)
      PROVE  \A q \in Request : StatusKnown(q)'
  <2>1. CallOf(s, 0, 0, "none", "none") \in Call /\ "delete" \in Pc
    BY DEF CallOf, Call, Pc
  <2> QED BY <1>4, <2>1, <1>a DEF StartDelete
<1>5. ASSUME NEW r \in Request, RejectCreate(r) \/ ClientSeesReset(r)
      PROVE  \A q \in Request : StatusKnown(q)'
  BY <1>5, <1>e DEF RejectCreate, ClientSeesReset
<1>6. ASSUME NEW r \in Request, NEW s \in Shelter, InsertShelter(r, s)
      PROVE  \A q \in Request : StatusKnown(q)'
  <2>1. \A x \in Shelter : x # s => shelters'[x] = shelters[x]
    BY <1>6, <1>t DEF InsertShelter, ShelterTypeOK
  <2>2. \A q \in Request : pc[q] = "writeShelter" => call[q].shelter # s
    BY <1>6, <1>s DEF InsertShelter
  <2> QED BY <1>6, <1>s, <2>1, <2>2, <1>e DEF InsertShelter
<1>7. ASSUME NEW r \in Request, WriteOccupancy(r)
      PROVE  \A q \in Request : StatusKnown(q)'
  <2>1. \A x \in Shelter : shelters'[x].status = shelters[x].status
    BY <1>7, <1>t DEF WriteOccupancy, ShelterTypeOK, ShelterRow
  <2> QED BY <1>7, <1>s, <2>1, <1>e DEF WriteOccupancy
<1>8. ASSUME NEW r \in Request, WriteShelter(r)
      PROVE  \A q \in Request : StatusKnown(q)'
  <2>1. CASE ProcessDies(r)
    BY <2>1, <1>u DEF ProcessDies
  <2>2. ASSUME End(r), shelters' = [shelters EXCEPT
                          ![call[r].shelter].capacity = call[r].capacity,
                          ![call[r].shelter].status = call[r].status]
        PROVE  \A q \in Request : StatusKnown(q)'
    <3>1. \A x \in Shelter : x # call[r].shelter => shelters'[x] = shelters[x]
      BY <2>2, <1>t DEF ShelterTypeOK
    <3>2. \A q \in Request : q # r /\ pc[q] = "writeShelter" =>
             call[q].shelter # call[r].shelter
      BY <1>8 DEF WriteShelter, StatusInv, FitInv, Alone, Writing
    <3> QED BY <2>2, <1>s, <3>1, <3>2, <1>e
  <2> QED BY <1>8, <2>1, <2>2 DEF WriteShelter
<1>9. ASSUME NEW r \in Request, DeleteShelter(r)
      PROVE  \A q \in Request : StatusKnown(q)'
  <2>1. \A x \in Shelter : shelters'[x].status \in {shelters[x].status, "deleted"}
    BY <1>9, <1>t DEF DeleteShelter, ShelterTypeOK, ShelterRow
  <2> QED BY <1>9, <1>s, <2>1, <1>e DEF DeleteShelter, Gone
<1>10. ASSUME NEW r \in Request, QueryFails(r)
       PROVE  \A q \in Request : StatusKnown(q)'
  BY <1>10, <1>u DEF QueryFails, ProcessDies
<1>11. CASE UNCHANGED shelterVars
  BY <1>11, <1>u DEF shelterVars
<1> QED
  BY <1>1, <1>2, <1>3, <1>4, <1>5, <1>6, <1>7, <1>8, <1>9, <1>10, <1>11
     DEF ShelterNext, ShelterArrival, ShelterStep

\* The step of StatusChangesOnRequest.
StatusAsked ==
  \A s \in Shelter : ShelterExists(s) /\ shelters'[s].status \notin Gone =>
     \/ shelters'[s].status = shelters[s].status
     \/ Asked(s, shelters'[s].status)

LEMMA StatusIsAsked ==
  ASSUME StatusInv, ShelterNext
  PROVE  StatusAsked
<1>t. ShelterTypeOK /\ CallInv
  BY DEF StatusInv, FitInv, TypeInv
<1> SUFFICES ASSUME NEW s \in Shelter, ShelterExists(s), shelters'[s].status \notin Gone
             PROVE  shelters'[s].status = shelters[s].status \/ Asked(s, shelters'[s].status)
  BY DEF StatusAsked
<1> PICK r \in Request :
      ShelterArrival(r) \/ ShelterStep(r) \/ QueryFails(r) \/ ClientSeesReset(r)
  BY DEF ShelterNext
<1>1. CASE WriteShelter(r)
  <2>1. CASE UNCHANGED shelters
    BY <2>1
  <2>2. CASE /\ ShelterExists(call[r].shelter)
             /\ shelters' = [shelters EXCEPT
                    ![call[r].shelter].capacity = call[r].capacity,
                    ![call[r].shelter].status = call[r].status]
    <3>1. CASE s = call[r].shelter
      <4>1. shelters'[s].status = call[r].status /\ StatusKnown(r)
        BY <2>2, <3>1, <1>t DEF ShelterTypeOK, ShelterRow, StatusInv
      <4> QED BY <4>1, <3>1, <1>1 DEF WriteShelter, StatusKnown, Asked
    <3>2. CASE s # call[r].shelter
      BY <2>2, <3>2, <1>t DEF ShelterTypeOK
    <3> QED BY <3>1, <3>2
  <2> QED BY <1>1, <2>1, <2>2 DEF WriteShelter, ProcessDies
<1>2. CASE WriteOccupancy(r)
  BY <1>2, <1>t DEF WriteOccupancy, ShelterTypeOK, ShelterRow
<1>3. CASE DeleteShelter(r)
  BY <1>3, <1>t DEF DeleteShelter, ShelterTypeOK, ShelterRow, Gone
<1>4. CASE \E x \in Shelter : InsertShelter(r, x)
  BY <1>4, <1>t DEF InsertShelter, ShelterTypeOK, ShelterExists, Gone
<1>5. CASE \/ ShelterArrival(r) \/ RejectCreate(r) \/ QueryFails(r)
           \/ ClientSeesReset(r)
  BY <1>5 DEF ShelterArrival, StartCreate, StartOccupancy, StartUpdate, StartDelete,
              RejectCreate, QueryFails, ProcessDies, ClientSeesReset
<1> QED BY <1>1, <1>2, <1>3, <1>4, <1>5 DEF ShelterStep

\* Where no client updates a shelter while another changes it, an update of the
\* capacity leaves the status alone, although it writes one.
THEOREM StatusChangesOnRequestTheorem ==
  UpdatesAlone => (ShelterSpec => StatusChangesOnRequest)
<1> SUFFICES ASSUME UpdatesAlone PROVE ShelterSpec => StatusChangesOnRequest
  OBVIOUS
<1>1. ShelterInit => StatusInv
  <2>1. ShelterInit => \A r \in Request : StatusKnown(r)
    BY DEF ShelterInit, StatusKnown
  <2> QED BY <2>1, FitInit DEF StatusInv
<1>2. StatusInv /\ [ShelterNext]_shelterVars => StatusInv'
  BY StatusStep
<1>3. StatusInv /\ [ShelterNext]_shelterVars => [StatusAsked]_shelterVars
  BY StatusIsAsked
<1>4. ShelterSpec => [][StatusAsked]_shelterVars
  BY <1>1, <1>2, <1>3, PTL DEF ShelterSpec
<1> QED BY <1>4 DEF StatusChangesOnRequest, StatusAsked

=============================================================================
