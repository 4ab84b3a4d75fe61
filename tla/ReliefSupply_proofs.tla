------------------------- MODULE ReliefSupply_proofs -------------------------
(***************************************************************************)
(* Proofs about ReliefSupply.  The stock invariants are about numbers that *)
(* a dispatch carries from its read to its write, so the invariant relates *)
(* what it carries to the document: always "the quantity was covered when  *)
(* it was compared", and, for a resource whose dispatches do not overlap,  *)
(* "the document still has the stock that was read".                       *)
(***************************************************************************)
EXTENDS ReliefSupply, ShelterService_proofs

USE SupplyAssumption

Busy(d) == dpc[d] # "idle"

OrderNames(d) ==
  Busy(d) =>
    /\ order[d].resource \in Resource
    /\ order[d].shelter \in Shelter
    /\ 0 < order[d].quantity /\ order[d].quantity <= order[d].available
    /\ resources[order[d].resource].status # "new"

StockType ==
  /\ resources \in [Resource -> ResourceRow]
  /\ sent \in [Resource -> Nat]
  /\ dpc \in [Dispatcher -> DispatchPc]
  /\ order \in [Dispatcher -> Order]

StockInv ==
  /\ StockType
  /\ \A d \in Dispatcher : OrderNames(d)
  /\ StockNotNegative

SupplyInv == TypeInv /\ StockInv

LEMMA NoneTypes == /\ NewShelter \in ShelterRow /\ NewResource \in ResourceRow
                   /\ NoOrder \in Order /\ "idle" \in DispatchPc
  BY DEF NewShelter, ShelterRow, NewResource, ResourceRow, NoOrder, Order, Gone, DispatchPc

\* A dispatch that goes on changes its own locals only.
LEMMA DispatchFacts ==
  ASSUME StockType, NEW d \in Dispatcher, NEW where \in DispatchPc, NEW o \in Order,
         DispatchAt(d, where, o)
  PROVE  /\ dpc' \in [Dispatcher -> DispatchPc] /\ order' \in [Dispatcher -> Order]
         /\ dpc'[d] = where /\ order'[d] = o
         /\ \A e \in Dispatcher : e # d => dpc'[e] = dpc[e] /\ order'[e] = order[e]
  BY DEF StockType, DispatchAt

\* Likewise one that has been answered.
LEMMA DoneFacts ==
  ASSUME StockType, NEW d \in Dispatcher, DispatchDone(d)
  PROVE  /\ dpc' \in [Dispatcher -> DispatchPc] /\ order' \in [Dispatcher -> Order]
         /\ dpc'[d] = "idle"
         /\ \A e \in Dispatcher : e # d => dpc'[e] = dpc[e] /\ order'[e] = order[e]
  BY NoneTypes, DispatchFacts DEF DispatchDone

\* The document after UpdateDispatch, and its untouched neighbours.
Written(d) == [resources EXCEPT ![order[d].resource].available = Left(order[d]),
                                ![order[d].resource].status = "DISPATCHED"]

LEMMA WrittenFacts ==
  ASSUME StockInv, NEW d \in Dispatcher, Busy(d), resources' = Written(d)
  PROVE  LET x == order[d].resource IN
         /\ x \in Resource
         /\ resources' \in [Resource -> ResourceRow]
         /\ resources'[x].available = order[d].available - order[d].quantity
         /\ resources'[x].quantity = resources[x].quantity
         /\ resources'[x].status = "DISPATCHED"
         /\ \A y \in Resource : y # x => resources'[y] = resources[y]
<1>1. order[d].resource \in Resource /\ order[d] \in Order
  BY DEF StockInv, OrderNames, StockType
<1>2. Left(order[d]) = order[d].available - order[d].quantity
  BY DEF Left
<1>3. Left(order[d]) \in Int
  BY <1>1, <1>2 DEF Order
<1> QED
  BY <1>1, <1>2, <1>3 DEF Written, StockInv, StockType, ResourceRow, ResourceStatus

\* What is in progress names the same document as long as rows are not "new".
LEMMA NamesKept ==
  ASSUME StockInv, NEW e \in Dispatcher, dpc'[e] = dpc[e], order'[e] = order[e],
         \A x \in Resource : resources[x].status # "new" => resources'[x].status # "new"
  PROVE  OrderNames(e)'
  BY DEF StockInv, OrderNames, Busy

LEMMA StockStep ==
  TypeInv /\ StockInv /\ [ResourceStep \/ DispatchStep]_stockVars => StockInv'
<1> SUFFICES ASSUME TypeInv, StockInv, [ResourceStep \/ DispatchStep]_stockVars PROVE StockInv'
  OBVIOUS
<1>t. StockType /\ StockNotNegative
  BY DEF StockInv
<1>1. CASE UNCHANGED stockVars
  BY <1>1 DEF stockVars, StockInv, StockType, OrderNames, Busy, StockNotNegative
<1>2. ASSUME NEW x \in Resource, NEW q \in Quantity, NEW st \in ResourceStatus, SetStock(x, st, q)
      PROVE  StockInv'
  <2>1. StockType'
    BY <1>2, <1>t DEF SetStock, StockType, ResourceRow, Quantity
  <2>2. StockNotNegative'
    BY <1>2, <1>t DEF SetStock, StockType, StockNotNegative, Quantity
  <2>3. \A y \in Resource : resources[y].status # "new" => resources'[y].status # "new"
    BY <1>2, <1>t DEF SetStock, StockType, ResourceStatus
  <2>4. ASSUME NEW e \in Dispatcher PROVE OrderNames(e)'
    BY <1>2, <2>3, NamesKept DEF SetStock
  <2> QED BY <2>1, <2>2, <2>4 DEF StockInv
<1>3. ASSUME NEW x \in Resource, NEW q \in Quantity, CreateResource(x, q) \/ UpdateResource(x, q)
      PROVE  StockInv'
  <2>1. UpdateResource(x, q) => resources[x].status \in ResourceStatus
    BY <1>t DEF UpdateResource, ResourceExists, StockType, ResourceRow
  <2> QED BY <1>3, <2>1, <1>2 DEF CreateResource, UpdateResource, ResourceStatus
<1>4. ASSUME NEW x \in Resource, DeleteResource(x) PROVE StockInv'
  <2>1. StockType'
    BY <1>4, <1>t DEF DeleteResource, StockType, ResourceRow, Gone
  <2>2. StockNotNegative'
    BY <1>4, <1>t DEF DeleteResource, StockType, StockNotNegative, ResourceRow
  <2>3. \A y \in Resource : resources[y].status # "new" => resources'[y].status # "new"
    BY <1>4, <1>t DEF DeleteResource, StockType, ResourceRow
  <2>4. ASSUME NEW e \in Dispatcher PROVE OrderNames(e)'
    BY <1>4, <2>3, NamesKept DEF DeleteResource
  <2> QED BY <2>1, <2>2, <2>4 DEF StockInv
<1>5. ASSUME NEW d \in Dispatcher, NEW where \in DispatchPc, NEW o \in Order,
             DispatchAt(d, where, o), UNCHANGED <<resources, sent>>,
             o.resource \in Resource, o.shelter \in Shelter,
             0 < o.quantity, o.quantity <= o.available,
             resources[o.resource].status # "new"
      PROVE  StockInv'
  <2>1. StockType' /\ StockNotNegative'
    BY <1>5, <1>t, DispatchFacts DEF StockType, StockNotNegative
  <2>2. OrderNames(d)'
    BY <1>5, <1>t, DispatchFacts DEF OrderNames
  <2>3. ASSUME NEW e \in Dispatcher, e # d PROVE OrderNames(e)'
    BY <1>5, <1>t, <2>3, DispatchFacts, NamesKept
  <2> QED BY <2>1, <2>2, <2>3 DEF StockInv
<1>6. ASSUME NEW d \in Dispatcher, DispatchDone(d), sent' \in [Resource -> Nat],
             resources' \in [Resource -> ResourceRow],
             \A x \in Resource : /\ resources[x].status # "new" => resources'[x].status # "new"
                                 /\ resources'[x].available >= 0
      PROVE  StockInv'
  <2>1. StockType' /\ StockNotNegative'
    BY <1>6, <1>t, DoneFacts DEF StockType, StockNotNegative
  <2>2. OrderNames(d)'
    BY <1>6, <1>t, DoneFacts DEF OrderNames, Busy
  <2>3. ASSUME NEW e \in Dispatcher, e # d PROVE OrderNames(e)'
    BY <1>6, <1>t, <2>3, DoneFacts, NamesKept
  <2> QED BY <2>1, <2>2, <2>3 DEF StockInv
<1>7. ASSUME NEW d \in Dispatcher, NEW x \in Resource, NEW s \in Shelter, NEW q \in Quantity,
             StartDispatch(d, x, s, q)
      PROVE  StockInv'
  <2> DEFINE o == [resource |-> x, shelter |-> s, quantity |-> q,
                   available |-> resources[x].available, seen |-> NewShelter]
  <2>1. /\ o \in Order /\ o.resource = x /\ o.shelter = s
        /\ 0 < o.quantity /\ o.quantity <= o.available
    BY <1>7, <1>t, NoneTypes DEF StartDispatch, Order, StockType, ResourceRow, Quantity
  <2> HIDE DEF o
  <2>2. DispatchAt(d, "asking", o) /\ UNCHANGED <<resources, sent>>
    BY <1>7 DEF StartDispatch, o
  <2>3. resources[x].status # "new" /\ "asking" \in DispatchPc
    BY <1>7 DEF StartDispatch, ResourceExists, Gone, DispatchPc
  <2> QED BY <2>1, <2>2, <2>3, <1>5
<1>8. ASSUME NEW d \in Dispatcher, GetShelter(d) PROVE StockInv'
  <2> DEFINE o == [order[d] EXCEPT !.seen = shelters[order[d].shelter]]
  <2>1. OrderNames(d) /\ Busy(d) /\ order[d] \in Order
    BY <1>8, <1>t DEF StockInv, StockType, GetShelter, Busy
  <2>2. shelters[order[d].shelter] \in ShelterRow
    BY <1>8, <2>1 DEF TypeInv, ShelterTypeOK, OrderNames
  <2>3. /\ o \in Order /\ o.resource = order[d].resource /\ o.shelter = order[d].shelter
        /\ o.quantity = order[d].quantity /\ o.available = order[d].available
    BY <2>1, <2>2 DEF Order
  <2> HIDE DEF o
  <2>4. DispatchAt(d, "answered", o) /\ UNCHANGED <<resources, sent>>
    BY <1>8 DEF GetShelter, o
  <2>5. "answered" \in DispatchPc
    BY DEF DispatchPc
  <2> QED BY <2>1, <2>3, <2>4, <2>5, <1>5 DEF OrderNames
<1>9. ASSUME NEW d \in Dispatcher, NoShelter(d) \/ ReadRejection(d) PROVE StockInv'
  BY <1>9, <1>6, <1>t DEF NoShelter, ReadRejection, StockType, StockNotNegative
<1>10. ASSUME NEW d \in Dispatcher, RejectDispatch(d) PROVE StockInv'
  <2>1. OrderNames(d) /\ Busy(d) /\ order[d] \in Order /\ "rejected" \in DispatchPc
    BY <1>10, <1>t DEF StockInv, StockType, RejectDispatch, Busy, DispatchPc
  <2> QED BY <1>10, <2>1, <1>5 DEF RejectDispatch, OrderNames
<1>11. ASSUME NEW d \in Dispatcher, WriteDispatch(d) PROVE StockInv'
  <2>1. Busy(d) /\ OrderNames(d) /\ order[d] \in Order /\ DispatchDone(d)
    BY <1>11, <1>t DEF StockInv, StockType, WriteDispatch, Busy
  <2>2. sent' \in [Resource -> Nat]
    BY <1>11, <2>1, <1>t DEF WriteDispatch, StockType, OrderNames, Order
  <2>3. CASE resources' = resources
    BY <2>1, <2>2, <2>3, <1>t, <1>6 DEF StockType, StockNotNegative
  <2>4. CASE resources' = Written(d)
    <3> DEFINE x == order[d].resource
    <3>1. /\ x \in Resource
          /\ resources' \in [Resource -> ResourceRow]
          /\ resources'[x].available = order[d].available - order[d].quantity
          /\ resources'[x].status = "DISPATCHED"
          /\ \A y \in Resource : y # x => resources'[y] = resources[y]
      BY <2>1, <2>4, WrittenFacts
    <3>2. resources'[x].available >= 0
      BY <2>1, <3>1 DEF OrderNames, Order
    <3> HIDE DEF x
    <3>3. \A y \in Resource : /\ resources[y].status # "new" => resources'[y].status # "new"
                              /\ resources'[y].available >= 0
      BY <3>1, <3>2, <1>t DEF StockNotNegative
    <3> QED BY <2>1, <2>2, <3>1, <3>3, <1>6
  <2> QED BY <1>11, <2>3, <2>4 DEF WriteDispatch, Written
<1> QED
  BY <1>1, <1>3, <1>4, <1>7, <1>8, <1>9, <1>10, <1>11 DEF ResourceStep, DispatchStep

LEMMA SupplyStep == SupplyInv /\ [SupplyNext]_supplyVars => SupplyInv'
<1> SUFFICES ASSUME SupplyInv, [SupplyNext]_supplyVars PROVE SupplyInv'
  OBVIOUS
<1>1. [ShelterNext]_shelterVars /\ [ResourceStep \/ DispatchStep]_stockVars
  BY DEF SupplyNext, supplyVars
<1> QED BY <1>1, TypeStep, StockStep DEF SupplyInv

LEMMA SupplyInvInit == SupplyInit => SupplyInv
<1> SUFFICES ASSUME SupplyInit PROVE SupplyInv
  OBVIOUS
<1>1. StockType
  BY NoneTypes DEF SupplyInit, StockType
<1>2. StockNotNegative /\ \A d \in Dispatcher : OrderNames(d)
  BY DEF SupplyInit, StockNotNegative, NewResource, OrderNames, Busy
<1> QED BY <1>1, <1>2, TypeInit DEF SupplyInit, SupplyInv, StockInv

\* Documents, rows and everything in progress in the two services keep their types.
THEOREM SupplyTypeCorrect == SupplySpec => []SupplyTypeOK
<1>1. SupplyInv => SupplyTypeOK
  BY DEF SupplyInv, TypeInv, StockInv, StockType, SupplyTypeOK
<1> QED BY <1>1, SupplyInvInit, SupplyStep, PTL DEF SupplySpec

\* No overlap of dispatches, updates, deletions and errors writes a negative stock.
THEOREM StockNotNegativeTheorem == SupplySpec => []StockNotNegative
<1>1. SupplyInv => StockNotNegative
  BY DEF SupplyInv, StockInv
<1> QED BY <1>1, SupplyInvInit, SupplyStep, PTL DEF SupplySpec

-----------------------------------------------------------------------------
\* A dispatch of a resource whose dispatches do not overlap.
BusyAlone(d) == Busy(d) /\ order[d].resource \in OneByOne

\* What such a dispatch read is still what the document holds.
ReadStands(d) ==
  BusyAlone(d) /\ ResourceExists(order[d].resource) =>
     order[d].available = resources[order[d].resource].available

DispatchAlone(d, e) ==
  d # e /\ BusyAlone(d) /\ Busy(e) => order[d].resource # order[e].resource

CoveredInv ==
  /\ SupplyInv
  /\ StockCovered
  /\ \A d \in Dispatcher : ReadStands(d)
  /\ \A d, e \in Dispatcher : DispatchAlone(d, e)

\* Steps that touch the documents of no other dispatch.
LEMMA ReadKept ==
  ASSUME CoveredInv, NEW e \in Dispatcher, dpc'[e] = dpc[e], order'[e] = order[e],
         BusyAlone(e) => /\ ResourceExists(order[e].resource)' => ResourceExists(order[e].resource)
                         /\ resources'[order[e].resource].available
                               = resources[order[e].resource].available
  PROVE  ReadStands(e)'
  BY DEF CoveredInv, ReadStands, ResourceExists, BusyAlone, Busy

LEMMA CoveredStep == CoveredInv /\ [SupplyNext]_supplyVars => CoveredInv'
<1> SUFFICES ASSUME CoveredInv, [SupplyNext]_supplyVars PROVE CoveredInv'
  OBVIOUS
<1>t. SupplyInv /\ SupplyInv' /\ TypeInv /\ StockInv /\ StockType
  BY SupplyStep DEF CoveredInv, SupplyInv, StockInv
<1>f. /\ \A x \in OneByOne : Covered(x)
      /\ \A d \in Dispatcher : ReadStands(d) /\ OrderNames(d)
      /\ \A d, e \in Dispatcher : DispatchAlone(d, e)
  BY <1>t DEF CoveredInv, StockInv, StockCovered
<1>1. CASE UNCHANGED stockVars
  BY <1>1, <1>t, <1>f
     DEF stockVars, CoveredInv, StockCovered, Covered, ReadStands, DispatchAlone,
         BusyAlone, Busy, ResourceExists
<1>2. ASSUME NEW x \in Resource, NEW q \in Quantity, NEW st \in ResourceStatus,
             SetStock(x, st, q), \A d \in Dispatcher : BusyAlone(d) => order[d].resource # x
      PROVE  CoveredInv'
  <2>1. /\ resources'[x].available = q /\ resources'[x].quantity = q /\ sent'[x] = 0
        /\ \A y \in Resource : y # x => resources'[y] = resources[y] /\ sent'[y] = sent[y]
    BY <1>2, <1>t DEF SetStock, StockType
  <2>2. ASSUME NEW y \in OneByOne PROVE Covered(y)'
    BY <2>1, <1>f DEF Covered, ResourceExists, Quantity
  <2>3. ASSUME NEW e \in Dispatcher PROVE ReadStands(e)'
    <3>1. BusyAlone(e) => order[e].resource \in Resource /\ order[e].resource # x
      BY <1>2, <1>f DEF OrderNames, BusyAlone
    <3>2. dpc'[e] = dpc[e] /\ order'[e] = order[e]
      BY <1>2 DEF SetStock
    <3> QED BY <2>1, <3>1, <3>2, ReadKept DEF ResourceExists
  <2>4. \A d, e \in Dispatcher : DispatchAlone(d, e)'
    BY <1>2, <1>f DEF SetStock, DispatchAlone, BusyAlone, Busy
  <2> QED BY <1>t, <2>2, <2>3, <2>4 DEF CoveredInv, StockCovered
<1>3. ASSUME NEW x \in Resource, NEW q \in Quantity, CreateResource(x, q) PROVE CoveredInv'
  <2>1. \A d \in Dispatcher : BusyAlone(d) => order[d].resource # x
    BY <1>3, <1>f DEF CreateResource, OrderNames, BusyAlone
  <2> QED BY <1>3, <2>1, <1>2 DEF CreateResource, ResourceStatus
<1>4. ASSUME NEW x \in Resource, NEW q \in Quantity, UpdateResource(x, q) PROVE CoveredInv'
  <2>1. \A d \in Dispatcher : BusyAlone(d) => order[d].resource # x
    BY <1>4 DEF UpdateResource, StockApart, BusyAlone, Busy
  <2>2. resources[x].status \in ResourceStatus
    BY <1>4, <1>t DEF UpdateResource, ResourceExists, StockType, ResourceRow
  <2> QED BY <1>4, <2>1, <2>2, <1>2 DEF UpdateResource
<1>5. ASSUME NEW x \in Resource, DeleteResource(x) PROVE CoveredInv'
  <2>1. /\ resources'[x].status = "deleted"
        /\ \A y \in Resource : resources'[y].available = resources[y].available
        /\ \A y \in Resource : y # x => resources'[y] = resources[y]
    BY <1>5, <1>t DEF DeleteResource, StockType, ResourceRow
  <2>2. ASSUME NEW y \in OneByOne PROVE Covered(y)'
    BY <1>5, <2>1, <1>f DEF Covered, ResourceExists, Gone, DeleteResource
  <2>3. ASSUME NEW e \in Dispatcher PROVE ReadStands(e)'
    <3>1. BusyAlone(e) => order[e].resource \in Resource
      BY <1>f DEF OrderNames, BusyAlone
    <3>2. dpc'[e] = dpc[e] /\ order'[e] = order[e]
      BY <1>5 DEF DeleteResource
    <3> QED BY <1>5, <2>1, <3>1, <3>2, ReadKept DEF ResourceExists, DeleteResource, Gone
  <2>4. \A d, e \in Dispatcher : DispatchAlone(d, e)'
    BY <1>5, <1>f DEF DeleteResource, DispatchAlone, BusyAlone, Busy
  <2> QED BY <1>t, <2>2, <2>3, <2>4 DEF CoveredInv, StockCovered
<1>6. ASSUME NEW d \in Dispatcher, NEW where \in DispatchPc, NEW o \in Order,
             DispatchAt(d, where, o), UNCHANGED <<resources, sent>>,
             o.resource \in OneByOne /\ ResourceExists(o.resource) =>
                o.available = resources[o.resource].available,
             o.resource \in OneByOne =>
                \A e \in Dispatcher : e # d /\ Busy(e) => order[e].resource # o.resource
      PROVE  CoveredInv'
  <2>1. \A x \in OneByOne : Covered(x)'
    BY <1>6, <1>f DEF Covered, ResourceExists
  <2>2. ReadStands(d)'
    BY <1>6, <1>t, DispatchFacts DEF ReadStands, BusyAlone, ResourceExists
  <2>3. ASSUME NEW e \in Dispatcher, e # d PROVE ReadStands(e)'
    BY <1>6, <1>t, <2>3, DispatchFacts, ReadKept DEF ResourceExists
  <2>4. ASSUME NEW e \in Dispatcher, NEW g \in Dispatcher PROVE DispatchAlone(e, g)'
    BY <1>6, <1>t, <1>f, DispatchFacts DEF DispatchAlone, BusyAlone, Busy
  <2> QED BY <1>t, <2>1, <2>2, <2>3, <2>4 DEF CoveredInv, StockCovered
<1>7. ASSUME NEW d \in Dispatcher, DispatchDone(d),
             \A x \in OneByOne : Covered(x)',
             \A e \in Dispatcher : e # d => ReadStands(e)'
      PROVE  CoveredInv'
  <2>1. ReadStands(d)'
    BY <1>7, <1>t, DoneFacts DEF ReadStands, BusyAlone, Busy
  <2>2. ASSUME NEW e \in Dispatcher, NEW g \in Dispatcher PROVE DispatchAlone(e, g)'
    BY <1>7, <1>t, <1>f, DoneFacts DEF DispatchAlone, BusyAlone, Busy
  <2> QED BY <1>t, <1>7, <2>1, <2>2 DEF CoveredInv, StockCovered
<1>8. ASSUME NEW d \in Dispatcher, NEW x \in Resource, NEW s \in Shelter, NEW q \in Quantity,
             StartDispatch(d, x, s, q)
      PROVE  CoveredInv'
  <2> DEFINE o == [resource |-> x, shelter |-> s, quantity |-> q,
                   available |-> resources[x].available, seen |-> NewShelter]
  <2>1. o \in Order /\ o.resource = x /\ o.available = resources[x].available
    BY <1>t, NoneTypes DEF Order, StockType, ResourceRow, Quantity
  <2> HIDE DEF o
  <2>2. DispatchAt(d, "asking", o) /\ UNCHANGED <<resources, sent>> /\ "asking" \in DispatchPc
    BY <1>8 DEF StartDispatch, o, DispatchPc
  <2>3. x \in OneByOne => \A e \in Dispatcher : Busy(e) => order[e].resource # x
    BY <1>8 DEF StartDispatch, StockApart, Busy
  <2> QED BY <2>1, <2>2, <2>3, <1>6
<1>9. ASSUME NEW d \in Dispatcher, GetShelter(d) PROVE CoveredInv'
  <2> DEFINE o == [order[d] EXCEPT !.seen = shelters[order[d].shelter]]
  <2>1. Busy(d) /\ order[d] \in Order /\ shelters[order[d].shelter] \in ShelterRow
    BY <1>9, <1>t, <1>f DEF GetShelter, Busy, StockType, OrderNames, TypeInv, ShelterTypeOK
  <2>2. /\ o \in Order /\ o.resource = order[d].resource
        /\ o.available = order[d].available
    BY <2>1 DEF Order
  <2> HIDE DEF o
  <2>3. DispatchAt(d, "answered", o) /\ UNCHANGED <<resources, sent>>
          /\ "answered" \in DispatchPc
    BY <1>9 DEF GetShelter, o, DispatchPc
  <2>4. o.resource \in OneByOne =>
          \A e \in Dispatcher : e # d /\ Busy(e) => order[e].resource # o.resource
    BY <2>1, <2>2, <1>f DEF DispatchAlone, BusyAlone
  <2> QED BY <2>1, <2>2, <2>3, <2>4, <1>f, <1>6 DEF ReadStands, BusyAlone
<1>10. ASSUME NEW d \in Dispatcher, RejectDispatch(d) PROVE CoveredInv'
  <2>1. Busy(d) /\ order[d] \in Order /\ "rejected" \in DispatchPc
    BY <1>10, <1>t DEF RejectDispatch, Busy, StockType, DispatchPc
  <2>2. order[d].resource \in OneByOne =>
          \A e \in Dispatcher : e # d /\ Busy(e) => order[e].resource # order[d].resource
    BY <2>1, <1>f DEF DispatchAlone, BusyAlone
  <2> QED BY <1>10, <2>1, <2>2, <1>f, <1>6 DEF RejectDispatch, ReadStands, BusyAlone
<1>11. ASSUME NEW d \in Dispatcher, DispatchDone(d), UNCHANGED <<resources, sent>>
       PROVE  CoveredInv'
  <2>1. \A x \in OneByOne : Covered(x)'
    BY <1>11, <1>f DEF Covered, ResourceExists
  <2>2. ASSUME NEW e \in Dispatcher, e # d PROVE ReadStands(e)'
    BY <1>11, <1>t, <2>2, DoneFacts, ReadKept DEF ResourceExists
  <2> QED BY <1>11, <2>1, <2>2, <1>7
<1>12. ASSUME NEW d \in Dispatcher, WriteDispatch(d) PROVE CoveredInv'
  <2> DEFINE x == order[d].resource
             q == order[d].quantity
  <2>1. Busy(d) /\ OrderNames(d) /\ order[d] \in Order /\ DispatchDone(d)
    BY <1>12, <1>t, <1>f DEF WriteDispatch, Busy, StockType
  <2>2. CASE UNCHANGED <<resources, sent>>
    BY <2>1, <2>2, <1>11
  <2>3. ASSUME resources' = Written(d), ResourceExists(x),
               sent' = sent \/ sent' = [sent EXCEPT ![x] = @ + q]
        PROVE  CoveredInv'
    <3>1. /\ x \in Resource
          /\ resources'[x].available = order[d].available - q
          /\ resources'[x].quantity = resources[x].quantity
          /\ \A y \in Resource : y # x => resources'[y] = resources[y]
      BY <1>t, <2>1, <2>3, WrittenFacts
    <3>2. x \in OneByOne => order[d].available = resources[x].available
      BY <1>f, <2>1, <2>3 DEF ReadStands, BusyAlone
    <3>3. /\ sent'[x] \in Int /\ sent'[x] <= sent[x] + q
          /\ \A y \in Resource : y # x => sent'[y] = sent[y]
      BY <2>1, <2>3, <3>1, <1>t DEF StockType, OrderNames, Order
    <3>4. /\ resources[x].available \in Int /\ resources[x].quantity \in Int
          /\ sent[x] \in Int /\ q \in Int
      BY <2>1, <3>1, <1>t DEF StockType, ResourceRow, Order
    <3>5. x \in OneByOne => resources[x].available + sent[x] <= resources[x].quantity
      BY <1>f, <2>3, <3>1 DEF Covered
    <3>6. x \in OneByOne => resources'[x].available + sent'[x] <= resources'[x].quantity
      BY <3>1, <3>2, <3>3, <3>4, <3>5
    <3>7. ASSUME NEW y \in OneByOne PROVE Covered(y)'
      BY <3>1, <3>3, <3>6, <1>f DEF Covered, ResourceExists
    <3>8. ASSUME NEW e \in Dispatcher, e # d PROVE ReadStands(e)'
      <4>1. BusyAlone(e) => order[e].resource \in Resource /\ order[e].resource # x
        BY <1>f, <2>1, <3>8 DEF DispatchAlone, BusyAlone, OrderNames
      <4>2. dpc'[e] = dpc[e] /\ order'[e] = order[e]
        BY <1>t, <2>1, <3>8, DoneFacts
      <4> QED BY <3>1, <4>1, <4>2, ReadKept DEF ResourceExists
    <3> QED BY <2>1, <3>7, <3>8, <1>7
  <2>4. CASE sent' = sent /\ resources' \in {resources} \cup IF ResourceExists(x) THEN {Written(d)} ELSE {}
    BY <2>1, <2>2, <2>3, <2>4
  <2> QED BY <1>12, <2>2, <2>3, <2>4 DEF WriteDispatch, Written
<1> QED
  BY <1>1, <1>3, <1>4, <1>5, <1>8, <1>9, <1>10, <1>11, <1>12
     DEF SupplyNext, supplyVars, ResourceStep, DispatchStep, NoShelter, ReadRejection

LEMMA CoveredInit == SupplyInit => CoveredInv
<1> SUFFICES ASSUME SupplyInit PROVE CoveredInv
  OBVIOUS
<1>1. \A d \in Dispatcher : ~Busy(d)
  BY DEF SupplyInit, Busy
<1>2. \A x \in OneByOne : ~ResourceExists(x)
  BY DEF SupplyInit, ResourceExists, NewResource, Gone
<1> QED BY <1>1, <1>2, SupplyInvInit
        DEF CoveredInv, StockCovered, Covered, ReadStands, DispatchAlone, BusyAlone

\* If the dispatches of a resource overlap neither with one another nor with an
\* update of it, what is available and what was sent never exceed the quantity,
\* whatever is done to other resources, with deletions at any time and writes
\* whose outcome is unknown.
THEOREM StockCoveredTheorem == SupplySpec => []StockCovered
<1>1. CoveredInv => StockCovered
  BY DEF CoveredInv
<1> QED BY <1>1, CoveredInit, CoveredStep, PTL DEF SupplySpec

-----------------------------------------------------------------------------
(* The shelter.  If it is left alone while a dispatch to it is under way,   *)
(* the row that the shelter-service answered is the row at the write.       *)

SheltersStill == "shelter_still" \in SupplyDiscipline

OrderStill(d) == Busy(d) => \A r \in Request : call[r].shelter # order[d].shelter

SeenStands(d) ==
  dpc[d] = "answered" => /\ ShelterExists(order[d].shelter)
                         /\ order[d].seen = shelters[order[d].shelter]

WelcomeInv ==
  /\ SupplyInv
  /\ \A d \in Dispatcher : OrderStill(d) /\ SeenStands(d)

\* A handler of shelter-service writes to the shelter it names, or a new one.
LEMMA RowsWritten ==
  ASSUME TypeInv, ShelterNext, NEW s \in Shelter, ShelterExists(s),
         \A r \in Request : call[r].shelter # s
  PROVE  shelters'[s] = shelters[s]
<1>t. ShelterTypeOK
  BY DEF TypeInv
<1> PICK r \in Request :
      ShelterArrival(r) \/ ShelterStep(r) \/ QueryFails(r) \/ ClientSeesReset(r)
  BY DEF ShelterNext
<1>1. CASE ShelterArrival(r)
  BY <1>1 DEF ShelterArrival, StartCreate, StartOccupancy, StartUpdate, StartDelete
<1>2. CASE RejectCreate(r) \/ QueryFails(r) \/ ClientSeesReset(r)
  BY <1>2 DEF RejectCreate, QueryFails, ProcessDies, ClientSeesReset
<1>3. CASE \E x \in Shelter : InsertShelter(r, x)
  BY <1>3, <1>t DEF InsertShelter, ShelterExists, Gone, ShelterTypeOK
<1>4. CASE WriteOccupancy(r)
  BY <1>4, <1>t DEF WriteOccupancy, ShelterTypeOK
<1>5. CASE WriteShelter(r)
  BY <1>5, <1>t DEF WriteShelter, ProcessDies, ShelterTypeOK
<1>6. CASE DeleteShelter(r)
  BY <1>6, <1>t DEF DeleteShelter, ShelterTypeOK
<1> QED BY <1>1, <1>2, <1>3, <1>4, <1>5, <1>6 DEF ShelterStep

LEMMA WelcomeStep ==
  ASSUME SheltersStill, WelcomeInv, [SupplyNext]_supplyVars
  PROVE  WelcomeInv'
<1>t. SupplyInv' /\ TypeInv /\ StockInv /\ StockType /\ \A d \in Dispatcher : OrderNames(d)
  BY SupplyStep DEF WelcomeInv, SupplyInv, StockInv
<1>f. \A d \in Dispatcher : OrderStill(d) /\ SeenStands(d)
  BY DEF WelcomeInv
<1>g. SUFFICES \A d \in Dispatcher : OrderStill(d)' /\ SeenStands(d)'
  BY <1>t DEF WelcomeInv
<1>u. CASE UNCHANGED supplyVars
  BY <1>u, <1>f DEF supplyVars, shelterVars, stockVars, OrderStill, SeenStands, Busy,
                    ShelterExists
<1>1. CASE ShelterNext /\ ShelterStepsStill /\ UNCHANGED stockVars
  <2>1. ASSUME NEW d \in Dispatcher, dpc[d] = "answered"
        PROVE  shelters'[order[d].shelter] = shelters[order[d].shelter]
    BY <1>1, <1>t, <1>f, <2>1, RowsWritten DEF OrderStill, SeenStands, OrderNames, Busy
  <2> QED BY <1>1, <1>f, <2>1
          DEF stockVars, ShelterStepsStill, SheltersStill, OrderStill, SeenStands, Busy,
              ShelterExists
<1>2. CASE ResourceStep /\ UNCHANGED shelterVars
  <2>1. UNCHANGED <<dpc, order>>
    BY <1>2 DEF ResourceStep, CreateResource, UpdateResource, SetStock, DeleteResource
  <2> QED BY <1>2, <2>1, <1>f DEF shelterVars, OrderStill, SeenStands, Busy, ShelterExists
<1>a. ASSUME NEW d \in Dispatcher, NEW where \in DispatchPc, NEW o \in Order,
             DispatchAt(d, where, o), UNCHANGED shelterVars,
             \A r \in Request : call[r].shelter # o.shelter,
             where = "answered" =>
                ShelterExists(o.shelter) /\ o.seen = shelters[o.shelter]
      PROVE  \A e \in Dispatcher : OrderStill(e)' /\ SeenStands(e)'
  <2>1. /\ dpc'[d] = where /\ order'[d] = o
        /\ \A e \in Dispatcher : e # d => dpc'[e] = dpc[e] /\ order'[e] = order[e]
    BY <1>a, <1>t, DispatchFacts
  <2>2. OrderStill(d)' /\ SeenStands(d)'
    BY <1>a, <2>1 DEF shelterVars, OrderStill, SeenStands, ShelterExists
  <2>3. ASSUME NEW e \in Dispatcher, e # d PROVE OrderStill(e)' /\ SeenStands(e)'
    BY <1>a, <1>f, <2>1, <2>3 DEF shelterVars, OrderStill, SeenStands, Busy, ShelterExists
  <2> QED BY <2>2, <2>3
<1>d. ASSUME NEW d \in Dispatcher, DispatchDone(d), UNCHANGED shelterVars
      PROVE  \A e \in Dispatcher : OrderStill(e)' /\ SeenStands(e)'
  <2>1. /\ dpc'[d] = "idle"
        /\ \A e \in Dispatcher : e # d => dpc'[e] = dpc[e] /\ order'[e] = order[e]
    BY <1>d, <1>t, DoneFacts
  <2> QED BY <1>d, <1>f, <2>1
          DEF shelterVars, OrderStill, SeenStands, Busy, ShelterExists
<1>3. ASSUME NEW d \in Dispatcher, NEW x \in Resource, NEW s \in Shelter, NEW q \in Quantity,
             StartDispatch(d, x, s, q), UNCHANGED shelterVars
      PROVE  \A e \in Dispatcher : OrderStill(e)' /\ SeenStands(e)'
  <2> DEFINE o == [resource |-> x, shelter |-> s, quantity |-> q,
                   available |-> resources[x].available, seen |-> NewShelter]
  <2>1. o \in Order /\ o.shelter = s /\ "asking" \in DispatchPc
    BY <1>t, NoneTypes DEF Order, StockType, ResourceRow, Quantity, DispatchPc
  <2> HIDE DEF o
  <2>2. DispatchAt(d, "asking", o)
    BY <1>3 DEF StartDispatch, o
  <2>3. \A r \in Request : call[r].shelter # s
    BY <1>3 DEF StartDispatch, Still, SheltersStill
  <2> QED BY <1>3, <2>1, <2>2, <2>3, <1>a
<1>4. ASSUME NEW d \in Dispatcher, GetShelter(d), UNCHANGED shelterVars
      PROVE  \A e \in Dispatcher : OrderStill(e)' /\ SeenStands(e)'
  <2> DEFINE o == [order[d] EXCEPT !.seen = shelters[order[d].shelter]]
  <2>1. Busy(d) /\ order[d] \in Order /\ shelters[order[d].shelter] \in ShelterRow
    BY <1>4, <1>t DEF GetShelter, Busy, StockType, OrderNames, TypeInv, ShelterTypeOK
  <2>2. /\ o \in Order /\ o.shelter = order[d].shelter
        /\ o.seen = shelters[order[d].shelter]
    BY <2>1 DEF Order
  <2> HIDE DEF o
  <2>3. DispatchAt(d, "answered", o) /\ ShelterExists(o.shelter) /\ "answered" \in DispatchPc
    BY <1>4, <2>2 DEF GetShelter, o, DispatchPc
  <2> QED BY <1>4, <1>f, <2>1, <2>2, <2>3, <1>a DEF OrderStill
<1>5. ASSUME NEW d \in Dispatcher, RejectDispatch(d), UNCHANGED shelterVars
      PROVE  \A e \in Dispatcher : OrderStill(e)' /\ SeenStands(e)'
  <2>1. Busy(d) /\ order[d] \in Order /\ "rejected" \in DispatchPc
    BY <1>5, <1>t DEF RejectDispatch, Busy, StockType, DispatchPc
  <2> QED BY <1>5, <1>f, <2>1, <1>a DEF RejectDispatch, OrderStill
<1>6. ASSUME NEW d \in Dispatcher, NoShelter(d) \/ WriteDispatch(d) \/ ReadRejection(d),
             UNCHANGED shelterVars
      PROVE  \A e \in Dispatcher : OrderStill(e)' /\ SeenStands(e)'
  BY <1>6, <1>d DEF NoShelter, WriteDispatch, ReadRejection
<1> QED BY <1>u, <1>1, <1>2, <1>3, <1>4, <1>5, <1>6 DEF SupplyNext, DispatchStep

\* The step of SentToWelcoming.
Welcomed ==
  \A x \in Resource : sent'[x] > sent[x] =>
     \E d \in Dispatcher : /\ dpc[d] = "answered" /\ dpc'[d] = "idle"
                           /\ order[d].resource = x
                           /\ shelters[order[d].shelter].status = "OPEN"
                           /\ ~Full(shelters[order[d].shelter])

LEMMA SentIsWelcomed ==
  ASSUME WelcomeInv, SupplyNext
  PROVE  Welcomed
<1>t. StockType /\ \A d \in Dispatcher : SeenStands(d)
  BY DEF WelcomeInv, SupplyInv, StockInv
<1>0. ASSUME sent' = sent PROVE Welcomed
  BY <1>0, <1>t DEF Welcomed, StockType
<1>1. CASE ShelterNext /\ UNCHANGED stockVars
  BY <1>0, <1>1 DEF stockVars
<1>2. ASSUME NEW y \in Resource, sent' = [sent EXCEPT ![y] = 0] PROVE Welcomed
  BY <1>2, <1>t DEF Welcomed, StockType
<1>3. CASE ResourceStep
  BY <1>0, <1>2, <1>3
     DEF ResourceStep, CreateResource, UpdateResource, SetStock, DeleteResource
<1>4. ASSUME NEW d \in Dispatcher, WriteDispatch(d) PROVE Welcomed
  <2> DEFINE y == order[d].resource
  <2>1. /\ dpc[d] = "answered" /\ dpc'[d] = "idle"
        /\ shelters[order[d].shelter].status = "OPEN"
        /\ ~Full(shelters[order[d].shelter])
    BY <1>4, <1>t, DoneFacts DEF WriteDispatch, SeenStands, Accepts
  <2>2. \A x \in Resource : x # y => sent'[x] = sent[x]
    BY <1>4, <1>t DEF WriteDispatch, StockType
  <2>3. \A x \in Resource : sent'[x] > sent[x] => x = y
    BY <2>2, <1>t DEF StockType
  <2> QED BY <2>1, <2>3 DEF Welcomed
<1>5. ASSUME NEW d \in Dispatcher,
             \/ \E x \in Resource, s \in Shelter, q \in Quantity : StartDispatch(d, x, s, q)
             \/ GetShelter(d) \/ NoShelter(d) \/ RejectDispatch(d) \/ ReadRejection(d)
      PROVE  Welcomed
  BY <1>0, <1>5 DEF StartDispatch, GetShelter, NoShelter, RejectDispatch, ReadRejection
<1> QED BY <1>1, <1>3, <1>4, <1>5 DEF SupplyNext, DispatchStep

\* Goods are confirmed only to a shelter that is OPEN and has room when the
\* dispatch is written, as long as no request changes the shelter meanwhile.
THEOREM SentToWelcomingTheorem == SheltersStill => (SupplySpec => SentToWelcoming)
<1> SUFFICES ASSUME SheltersStill PROVE SupplySpec => SentToWelcoming
  OBVIOUS
<1>1. SupplyInit => WelcomeInv
  <2>1. SupplyInit => \A d \in Dispatcher : OrderStill(d) /\ SeenStands(d)
    BY DEF SupplyInit, OrderStill, SeenStands, Busy
  <2> QED BY <2>1, SupplyInvInit DEF WelcomeInv
<1>2. WelcomeInv /\ [SupplyNext]_supplyVars => WelcomeInv'
  BY WelcomeStep
<1>3. WelcomeInv /\ [SupplyNext]_supplyVars => [Welcomed]_supplyVars
  BY SentIsWelcomed
<1>4. SupplySpec => [][Welcomed]_supplyVars
  BY <1>1, <1>2, <1>3, PTL DEF SupplySpec
<1> QED BY <1>4 DEF SentToWelcoming, Welcomed

-----------------------------------------------------------------------------
(* The store.  What a dispatch writes is computed from what the document    *)
(* still holds (ReadStands), so its write is the step of the store.         *)

View == [x \in OneByOne |-> StockOf(x)]

\* A step of one resource is a step of the store's goods.
LEMMA ViewBecomes ==
  ASSUME NEW x \in OneByOne, \A y \in OneByOne \ {x} : StockOf(y)' = StockOf(y)
  PROVE  View' = [View EXCEPT ![x] = StockOf(x)']
  BY DEF View

LEMMA ViewSame ==
  ASSUME \A y \in OneByOne : StockOf(y)' = StockOf(y)
  PROVE  View' = View
  BY DEF View

LEMMA StoreStep ==
  ASSUME CoveredInv, [SupplyNext]_supplyVars
  PROVE  [Store!Next]_View
<1> USE DEF Store!Kept, Store!Enough, Store!Becomes, Store!Nothing, Store!Amount
<1>t. StockType /\ OneByOne \subseteq Resource
      /\ \A d \in Dispatcher : OrderNames(d) /\ ReadStands(d)
  BY DEF CoveredInv, SupplyInv, StockInv
<1>v. \A x \in OneByOne : View[x] = StockOf(x)
  BY DEF View
<1>u. ASSUME UNCHANGED <<resources, sent>> PROVE View' = View
  BY <1>u, ViewSame DEF StockOf, ResourceExists
<1>1. CASE UNCHANGED supplyVars \/ UNCHANGED stockVars
  BY <1>1, <1>u DEF supplyVars, stockVars
<1>2. ASSUME NEW x \in Resource, NEW q \in Quantity, NEW st \in ResourceStatus,
             SetStock(x, st, q), resources[x].status # "deleted"
      PROVE  [Store!Next]_View
  <2>1. \A y \in OneByOne \ {x} : StockOf(y)' = StockOf(y)
    BY <1>2, <1>t DEF SetStock, StockOf, ResourceExists, StockType
  <2>2. CASE x \in OneByOne
    <3>1. /\ resources'[x] = [status |-> st, quantity |-> q, available |-> q]
          /\ sent'[x] = 0
      BY <1>2, <1>t DEF SetStock, StockType
    <3>2. StockOf(x)' = [state |-> "kept", quantity |-> q, available |-> q, sent |-> 0]
      BY <3>1, <1>2 DEF StockOf, ResourceExists, ResourceStatus, Gone
    <3>3. View[x].state # "removed"
      <4>1. StockOf(x).state # "removed"
        BY <1>2 DEF StockOf, ResourceExists, Gone
      <4> QED BY <4>1, <1>v, <2>2
    <3>4. View' = [View EXCEPT ![x] = StockOf(x)']
      BY <2>1, <2>2, ViewBecomes
    <3>5. Store!Supply(x, q)
      BY <3>2, <3>3, <3>4 DEF Store!Supply, View
    <3> QED BY <3>5, <2>2 DEF Store!Next, Quantity
  <2>3. CASE x \notin OneByOne
    BY <2>1, <2>3, ViewSame
  <2> QED BY <2>2, <2>3
<1>3. ASSUME NEW x \in Resource, NEW q \in Quantity, CreateResource(x, q) \/ UpdateResource(x, q)
      PROVE  [Store!Next]_View
  <2>1. resources[x].status # "deleted" /\
        (UpdateResource(x, q) => resources[x].status \in ResourceStatus)
    BY <1>3, <1>t DEF CreateResource, UpdateResource, ResourceExists, Gone, StockType, ResourceRow
  <2> QED BY <1>3, <2>1, <1>2 DEF CreateResource, UpdateResource, ResourceStatus
<1>4. ASSUME NEW x \in Resource, DeleteResource(x) PROVE [Store!Next]_View
  <2>1. \A y \in OneByOne \ {x} : StockOf(y)' = StockOf(y)
    BY <1>4, <1>t DEF DeleteResource, StockOf, ResourceExists, StockType
  <2>2. CASE x \in OneByOne
    <3>1. resources'[x].status = "deleted"
      BY <1>4, <1>t DEF DeleteResource, StockType, ResourceRow
    <3>2. StockOf(x)' = [state |-> "removed", quantity |-> 0, available |-> 0, sent |-> 0]
      BY <3>1 DEF StockOf, ResourceExists, Gone
    <3>3. View[x].state = "kept"
      <4>1. StockOf(x).state = "kept"
        BY <1>4 DEF StockOf, DeleteResource
      <4> QED BY <4>1, <1>v, <2>2
    <3>4. View' = [View EXCEPT ![x] = StockOf(x)']
      BY <2>1, <2>2, ViewBecomes
    <3>5. Store!Remove(x)
      BY <3>2, <3>3, <3>4 DEF Store!Remove, View
    <3> QED BY <3>5, <2>2 DEF Store!Next
  <2>3. CASE x \notin OneByOne
    BY <2>1, <2>3, ViewSame
  <2> QED BY <2>2, <2>3
<1>5. ASSUME NEW d \in Dispatcher, WriteDispatch(d) PROVE [Store!Next]_View
  <2> SUFFICES ASSUME NEW x, x = order[d].resource, NEW q, q = order[d].quantity
               PROVE  [Store!Next]_View
    OBVIOUS
  <2>1. /\ Busy(d) /\ OrderNames(d) /\ ReadStands(d) /\ order[d] \in Order
        /\ x \in Resource /\ q \in Int /\ 0 < q /\ q <= order[d].available
    BY <1>5, <1>t DEF WriteDispatch, Busy, StockType, OrderNames, Order
  <2>2. CASE UNCHANGED <<resources, sent>>
    BY <2>2, <1>u
  <2>3. ASSUME ResourceExists(x), resources' = Written(d),
               sent' = sent \/ sent' = [sent EXCEPT ![x] = @ + q]
        PROVE  [Store!Next]_View
    <3>1. /\ resources'[x].available = order[d].available - q
          /\ resources'[x].quantity = resources[x].quantity
          /\ resources'[x].status = "DISPATCHED"
          /\ \A y \in Resource : y # x => resources'[y] = resources[y]
      BY <2>1, <2>3, WrittenFacts DEF CoveredInv, SupplyInv
    <3>2. \A y \in OneByOne \ {x} : StockOf(y)' = StockOf(y)
      BY <2>3, <3>1, <1>t DEF StockOf, ResourceExists, StockType
    <3>3. CASE x \notin OneByOne
      BY <3>2, <3>3, ViewSame
    <3>4. CASE x \in OneByOne
      <4>1. order[d].available = resources[x].available
        BY <2>1, <2>3, <3>4 DEF ReadStands, BusyAlone
      <4>2. View[x] = [state |-> "kept", quantity |-> resources[x].quantity,
                       available |-> resources[x].available, sent |-> sent[x]]
        BY <2>3, <3>4, <1>v DEF StockOf
      <4>3. StockOf(x)' = [state |-> "kept", quantity |-> resources[x].quantity,
                           available |-> resources[x].available - q, sent |-> sent'[x]]
        BY <3>1, <4>1 DEF StockOf, ResourceExists, Gone
      <4>4. View' = [View EXCEPT ![x] = StockOf(x)']
        BY <3>2, <3>4, ViewBecomes
      <4>5. Store!Enough(x, q)
        BY <2>1, <4>1, <4>2 DEF Store!Enough, View
      <4>6. q \in 1..View[x].available
        BY <2>1, <4>1, <4>2 DEF Order
      <4>7. CASE sent' = sent
        <5>1. StockOf(x)' = Store!Kept(View[x].quantity, View[x].available - q, View[x].sent)
          BY <4>2, <4>3, <4>7
        <5>2. Store!Lose(x, q)
          BY <4>4, <4>5, <5>1 DEF Store!Lose, View
        <5> QED BY <5>2, <3>4, <4>6 DEF Store!Next, View
      <4>8. CASE sent' = [sent EXCEPT ![x] = @ + q]
        <5>1. sent'[x] = sent[x] + q
          BY <2>1, <4>8, <1>t DEF StockType
        <5>2. StockOf(x)' =
                 Store!Kept(View[x].quantity, View[x].available - q, View[x].sent + q)
          BY <4>2, <4>3, <5>1
        <5>3. Store!Take(x, q)
          BY <4>4, <4>5, <5>2 DEF Store!Take, View
        <5> QED BY <5>3, <3>4, <4>6 DEF Store!Next, View
      <4> QED BY <2>3, <4>7, <4>8
    <3> QED BY <3>3, <3>4
  <2>4. CASE sent' = sent /\ resources' \in {resources} \cup IF ResourceExists(x) THEN {Written(d)} ELSE {}
    BY <2>2, <2>3, <2>4
  <2> QED BY <1>5, <2>2, <2>3, <2>4 DEF WriteDispatch, Written
<1>6. ASSUME NEW d \in Dispatcher,
             \/ \E x \in Resource, s \in Shelter, q \in Quantity : StartDispatch(d, x, s, q)
             \/ GetShelter(d) \/ NoShelter(d) \/ RejectDispatch(d) \/ ReadRejection(d)
      PROVE  [Store!Next]_View
  BY <1>6, <1>u DEF StartDispatch, GetShelter, NoShelter, RejectDispatch, ReadRejection
<1> QED
  BY <1>1, <1>3, <1>4, <1>5, <1>6 DEF SupplyNext, ResourceStep, DispatchStep

\* Every dispatch of a resource in OneByOne is one step of a store, whatever happens
\* between its check and its write.
THEOREM DispatchIsAtomicTheorem == SupplySpec => DispatchIsAtomic
<1>1. SupplyInit => Store!Init
  BY SupplyAssumption
     DEF SupplyInit, Store!Init, Store!Nothing, StockOf, ResourceExists, NewResource, Gone
<1>2. SupplySpec => []CoveredInv
  BY CoveredInit, CoveredStep, PTL DEF SupplySpec
<1>3. SupplySpec => [][Store!Next]_View
  BY <1>2, StoreStep, PTL DEF SupplySpec
<1> QED BY <1>1, <1>3, PTL DEF SupplySpec, DispatchIsAtomic, Store!Spec, View

-----------------------------------------------------------------------------
(* The shelter-service that dispatches ask is the one of ShelterService.    *)

\* resource-service only reads shelters: what it adds to the shelter-service is
\* stuttering of the latter, so all that ShelterSpec implies holds here too.
THEOREM SupplyKeepsShelters == SupplySpec => ShelterSpec
<1>1. SupplyInit => ShelterInit
  BY DEF SupplyInit
<1>2. [SupplyNext]_supplyVars => [ShelterNext]_shelterVars
  BY DEF SupplyNext, supplyVars
<1> QED BY <1>1, <1>2, PTL DEF SupplySpec, ShelterSpec

\* While dispatches are going on, occupancies stay between 0 and the capacity and
\* updates leave a status alone that they were not asked to change.
THEOREM SupplyShelterTheorem ==
  UpdatesAlone => (SupplySpec => []OccupancyFits /\ StatusChangesOnRequest)
<1> SUFFICES ASSUME UpdatesAlone
             PROVE  SupplySpec => []OccupancyFits /\ StatusChangesOnRequest
  OBVIOUS
<1>1. ShelterSpec => []OccupancyFits
  BY OccupancyFitsTheorem
<1>2. ShelterSpec => StatusChangesOnRequest
  BY StatusChangesOnRequestTheorem
<1> QED BY <1>1, <1>2, SupplyKeepsShelters

=============================================================================
