---------------------------- MODULE ReliefSupply ----------------------------
(***************************************************************************)
(* resource-service together with the shelter-service it asks.  A dispatch *)
(* reads the stock, asks the shelter-service for the shelter, and writes   *)
(* the stock it computed from what it read; meanwhile other dispatches,    *)
(* updates and deletions of the resource, and all the handlers of the      *)
(* shelter-service, go on.                                                 *)
(***************************************************************************)
EXTENDS ShelterService

CONSTANTS
  Resource,          \* identifiers, from a counter that never repeats one
  Dispatcher,        \* PUT /resources/{id}/dispatch requests in progress
  MaxQuantity,       \* bound on the quantities clients send
  SupplyOps,         \* the requests that clients send
  OneByOne,          \* the resources whose dispatches do not overlap (StockApart)
  SupplyDiscipline,  \* what the clients promise about shelters (see Still)
  MongoFails         \* may a write to MongoDB end in an error?

Quantity == 1..MaxQuantity
ResourceStatus == {"AVAILABLE", "DISPATCHED"}

ASSUME SupplyAssumption ==
  /\ MaxQuantity \in Nat \ {0}
  /\ SupplyOps \subseteq {"CreateResource", "UpdateResource", "DeleteResource", "Dispatch"}
  /\ OneByOne \subseteq Resource
  /\ SupplyDiscipline \subseteq {"shelter_still"}
  /\ MongoFails \in BOOLEAN
  /\ None \notin Resource

VARIABLES
  resources,    \* [status, quantity, available] of each resource
  sent,         \* how much was confirmed as dispatched since the stock was set
  dpc, order    \* per dispatch: where it is, and its locals

stockVars == <<resources, sent, dpc, order>>
supplyVars == <<shelterVars, stockVars>>

ResourceRow == [status : ResourceStatus \cup Gone, quantity : Int, available : Int]
Order == [resource : Resource \cup {None}, shelter : Shelter \cup {None},
          quantity : Int,      \* what the client wants
          available : Int,     \* the stock when GetByID read it
          seen : ShelterRow]   \* the shelter as the shelter-service answered it
DispatchPc == {"idle", "asking", "answered", "rejected"}

NewResource == [status |-> "new", quantity |-> 0, available |-> 0]
NoOrder == [resource |-> None, shelter |-> None, quantity |-> 0, available |-> 0,
            seen |-> NewShelter]

SupplyTypeOK ==
  /\ ShelterTypeOK
  /\ resources \in [Resource -> ResourceRow]
  /\ sent \in [Resource -> Nat]
  /\ dpc \in [Dispatcher -> DispatchPc]
  /\ order \in [Dispatcher -> Order]

SupplyInit ==
  /\ ShelterInit
  /\ resources = [x \in Resource |-> NewResource]
  /\ sent = [x \in Resource |-> 0]
  /\ dpc = [d \in Dispatcher |-> "idle"]
  /\ order = [d \in Dispatcher |-> NoOrder]

-----------------------------------------------------------------------------
ResourceExists(x) == resources[x].status \notin Gone

\* The clients promise of some resources that their dispatches overlap neither
\* with one another nor with updates of the resource.
StockApart(x) ==
  x \in OneByOne =>
     \A d \in Dispatcher : dpc[d] # "idle" => order[d].resource # x

\* They may promise that no request changes a shelter while a dispatch to it is
\* under way.
Still(s) ==
  "shelter_still" \in SupplyDiscipline =>
     \A r \in Request : call[r].shelter # s

ShelterStepsStill ==
  "shelter_still" \in SupplyDiscipline =>
     \A d \in Dispatcher, r \in Request :
        dpc[d] # "idle" => call'[r].shelter # order[d].shelter

DispatchAt(d, where, o) ==
  /\ dpc' = [dpc EXCEPT ![d] = where]
  /\ order' = [order EXCEPT ![d] = o]

DispatchDone(d) == DispatchAt(d, "idle", NoOrder)

-----------------------------------------------------------------------------
(* CreateResource, UpdateResource, DeleteResource.                         *)

\* A new stock of q, all of it available.
SetStock(x, status, q) ==
  /\ resources' = [resources EXCEPT ![x] =
        [status |-> status, quantity |-> q, available |-> q]]
  /\ sent' = [sent EXCEPT ![x] = 0]
  /\ UNCHANGED <<dpc, order>>

\* Mutant: the status is left out of the new document.
CreateWithoutStatus(x, q) ==
  /\ "CreateResource" \in SupplyOps
  /\ resources[x].status = "new"
  /\ SetStock(x, "", q)

CreateResource(x, q) ==
  /\ "CreateResource" \in SupplyOps
  /\ resources[x].status = "new"
  /\ SetStock(x, "AVAILABLE", q)

\* The status stays what it was.
UpdateResource(x, q) ==
  /\ "UpdateResource" \in SupplyOps
  /\ ResourceExists(x)
  /\ StockApart(x)
  /\ SetStock(x, resources[x].status, q)

DeleteResource(x) ==
  /\ "DeleteResource" \in SupplyOps
  /\ ResourceExists(x)
  /\ resources' = [resources EXCEPT ![x].status = "deleted"]
  /\ UNCHANGED <<sent, dpc, order>>

-----------------------------------------------------------------------------
(* DispatchResource.                                                       *)

\* Mutant: the stock is not compared with the quantity.
StartDispatchUnchecked(d, x, s, q) ==
  /\ "Dispatch" \in SupplyOps
  /\ dpc[d] = "idle"
  /\ ResourceExists(x)
  /\ StockApart(x) /\ Still(s)
  /\ DispatchAt(d, "asking", [resource |-> x, shelter |-> s, quantity |-> q,
                              available |-> resources[x].available, seen |-> NewShelter])
  /\ UNCHANGED <<resources, sent>>

StartDispatch(d, x, s, q) ==
  /\ "Dispatch" \in SupplyOps
  /\ dpc[d] = "idle"
  /\ ResourceExists(x)
  /\ resources[x].available >= q
  /\ StockApart(x) /\ Still(s)
  /\ DispatchAt(d, "asking", [resource |-> x, shelter |-> s, quantity |-> q,
                              available |-> resources[x].available, seen |-> NewShelter])
  /\ UNCHANGED <<resources, sent>>

\* GetShelter answers with the row as it is when the shelter-service selects it.
GetShelter(d) ==
  /\ dpc[d] = "asking"
  /\ ShelterExists(order[d].shelter)
  /\ DispatchAt(d, "answered", [order[d] EXCEPT !.seen = shelters[order[d].shelter]])
  /\ UNCHANGED <<resources, sent>>

\* 404 for an unknown shelter; 502 when the service is down or late.
NoShelter(d) ==
  /\ dpc[d] = "asking"
  /\ DispatchDone(d)
  /\ UNCHANGED <<resources, sent>>

Full(s) == s.capacity > 0 /\ s.occupancy >= s.capacity

\* Mutant: only a shelter that is full is refused.
AcceptsUnlessFull(s) == ~Full(s)

Accepts(s) == s.status = "OPEN" /\ ~Full(s)

\* Mutant: the quantity is added.
LeftAfterReturn(o) == o.available + o.quantity

Left(o) == o.available - o.quantity

\* Mutant: the write is an upsert.
WriteDispatchUpserts(d) ==
  /\ dpc[d] = "answered"
  /\ Accepts(order[d].seen)
  /\ LET x == order[d].resource IN
       /\ resources' = [resources EXCEPT ![x].available = Left(order[d]),
                                         ![x].status = "DISPATCHED"]
       /\ sent' = [sent EXCEPT ![x] = @ + order[d].quantity]
  /\ DispatchDone(d)

\* UpdateDispatch: an absolute write; it matches nothing once the resource is
\* deleted, and then the dispatch is refused.  After an error nobody knows
\* whether the write took effect, and the dispatch is not confirmed.
WriteDispatch(d) ==
  /\ dpc[d] = "answered"
  /\ Accepts(order[d].seen)
  /\ LET x == order[d].resource
         written == [resources EXCEPT ![x].available = Left(order[d]),
                                      ![x].status = "DISPATCHED"]
     IN \/ /\ ResourceExists(x)
           /\ resources' = written
           /\ sent' = [sent EXCEPT ![x] = @ + order[d].quantity]
        \/ /\ ~ResourceExists(x)
           /\ UNCHANGED <<resources, sent>>
        \/ /\ MongoFails
           /\ resources' \in {resources} \cup IF ResourceExists(x) THEN {written} ELSE {}
           /\ UNCHANGED sent
  /\ DispatchDone(d)

RejectDispatch(d) ==
  /\ dpc[d] = "answered"
  /\ ~Accepts(order[d].seen)
  /\ DispatchAt(d, "rejected", order[d])
  /\ UNCHANGED <<resources, sent>>

\* The client has read the 409.
ReadRejection(d) ==
  /\ dpc[d] = "rejected"
  /\ DispatchDone(d)
  /\ UNCHANGED <<resources, sent>>

-----------------------------------------------------------------------------
ResourceStep ==
  \E x \in Resource :
     \/ \E q \in Quantity : CreateResource(x, q) \/ UpdateResource(x, q)
     \/ DeleteResource(x)

DispatchStep ==
  \E d \in Dispatcher :
     \/ \E x \in Resource, s \in Shelter, q \in Quantity : StartDispatch(d, x, s, q)
     \/ GetShelter(d) \/ NoShelter(d) \/ WriteDispatch(d) \/ RejectDispatch(d)
     \/ ReadRejection(d)

SupplyNext ==
  \/ ShelterNext /\ ShelterStepsStill /\ UNCHANGED stockVars
  \/ (ResourceStep \/ DispatchStep) /\ UNCHANGED shelterVars

SupplySpec == SupplyInit /\ [][SupplyNext]_supplyVars

-----------------------------------------------------------------------------
\* What is available and what was sent do not exceed the quantity that there is.
Covered(x) ==
  ResourceExists(x) => resources[x].available + sent[x] <= resources[x].quantity

\* DispatchResource promises a shelter only stock that exists, as long as the
\* dispatches of the resource do not overlap, whatever happens to the others.
StockCovered == \A x \in OneByOne : Covered(x)

\* A resource as its clients may think of it.
StockOf(x) ==
  IF ResourceExists(x)
    THEN [state |-> "kept", quantity |-> resources[x].quantity,
          available |-> resources[x].available, sent |-> sent[x]]
    ELSE [state |-> IF resources[x].status = "new" THEN "none" ELSE "removed",
          quantity |-> 0, available |-> 0, sent |-> 0]

Store == INSTANCE GoodsStore
           WITH Goods <- OneByOne, stock <- [x \in OneByOne |-> StockOf(x)]

\* DispatchResource, between whose check and write anything may happen, is one step
\* of a store as long as the dispatches of the resource do not overlap: no
\* dispatch is lost, counted twice or undone by one of another resource, by a
\* deletion, by a request on the shelter or by an error of MongoDB.
DispatchIsAtomic == Store!Spec

\* resource-service/README.md:154, "Available stock is sufficient": that it does
\* so for every resource.
StockSufficient == \A x \in Resource : Covered(x)

\* However dispatches, updates and deletions overlap, the stock that is written
\* is never negative: each dispatch subtracts from the number it has compared.
StockNotNegative ==
  \A x \in Resource : resources[x].available >= 0

\* Goods are confirmed only to a shelter that is OPEN and has room at that very
\* moment, if nobody changes the shelter while the dispatch is under way.
SentToWelcoming ==
  [][\A x \in Resource : sent'[x] > sent[x] =>
        \E d \in Dispatcher : /\ dpc[d] = "answered" /\ dpc'[d] = "idle"
                              /\ order[d].resource = x
                              /\ shelters[order[d].shelter].status = "OPEN"
                              /\ ~Full(shelters[order[d].shelter])]_supplyVars

\* A rejection means what it says: the shelter was closed or full.
RejectedIfClosedOrFull ==
  \A d \in Dispatcher : dpc[d] = "rejected" =>
     order[d].seen.status = "CLOSED" \/ Full(order[d].seen)

=============================================================================
