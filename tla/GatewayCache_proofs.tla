------------------------- MODULE GatewayCache_proofs -------------------------
(***************************************************************************)
(* Proofs about GatewayCache: what its requests carry, for any client, and *)
(* that invalidation works for clients that keep GETs and mutations apart  *)
(* (QuietClients).  What a GET is about to store is then what the service  *)
(* stores, and whatever a mutation makes stale is on its list until it is  *)
(* deleted.                                                                *)
(***************************************************************************)
EXTENDS GatewayCache, TLAPS

USE CacheAssumption

RequestsNamed ==
  \A r \in Request :
     /\ pc[r] \in {"ask", "store", "replied"} => req[r].key \in Key
     /\ pc[r] \in {"mutate", "scan", "delete"} => req[r].prefix \in Prefix

TypeInv == CacheTypeOK /\ RequestsNamed

\* No GET asks while a mutation is in the service, the data that a URL shows are
\* changed under its own prefix only, and neither Redis nor a mutation fails late.
QuietClients ==
  /\ "quiet" \in Discipline /\ Faults = {}
  /\ \A k \in Key, p \in Prefix : DataOf[k] \in Touches[p] => PrefixOf[k] = p

Apart == \A r \in Request, s \in Request, d \in Data : ~(Getting(r, d) /\ Mutating(s, d))

StoresCurrent ==
  \A r \in Request : pc[r] = "store" => req[r].seen = version[DataOf[req[r].key]]

FreshInv == Apart /\ StoresCurrent /\ StaleIsDoomed

\* What was answered, or is going to be, was made.
MadeOwn ==
  /\ \A d \in Data : answered[d] <= version[d]
  /\ \A r \in Request, d \in Data :
       /\ req[r].made[d] <= version[d]
       /\ pc[r] = "scan" /\ req[r].made[d] # 0 => d \in Touches[req[r].prefix]

\* No entry is older than what was answered.
EntriesRecent == \A k \in Key : cache[k] # NoEntry => cache[k] >= answered[DataOf[k]]

\* An entry older than what a mutation has made is on its list.
OldListed ==
  \A r \in Request, k \in Key :
     pc[r] = "delete" /\ cache[k] # NoEntry /\ cache[k] < req[r].made[DataOf[k]] =>
        k \in req[r].found

GetsRecent ==
  \A r \in Request :
     /\ pc[r] = "ask" => req[r].since <= answered[DataOf[req[r].key]]
     /\ pc[r] \in {"store", "replied"} => req[r].seen >= req[r].since

ReadInv == MadeOwn /\ EntriesRecent /\ OldListed /\ GetsRecent

-----------------------------------------------------------------------------
(* Types.                                                                  *)

LEMMA NoReqType == NoReq \in Req
  BY DEF NoReq, Req, Version, NoEntry

LEMMA TypeInit == Init => TypeInv
  BY NoReqType DEF Init, TypeInv, CacheTypeOK, RequestsNamed, Version, NoEntry, Pc

\* A request that moves on with locals of the right type.
LEMMA AtType ==
  ASSUME TypeInv, NEW r \in Request, NEW where \in Pc, NEW q \in Req, At(r, where, q),
         where \in {"store", "replied"} => q.seen # NoEntry,
         where \in {"ask", "store", "replied"} => q.key \in Key,
         where \in {"mutate", "scan", "delete"} => q.prefix \in Prefix
  PROVE  /\ pc' \in [Request -> Pc] /\ req' \in [Request -> Req]
         /\ \A s \in Request : pc'[s] \in {"store", "replied"} => req'[s].seen # NoEntry
         /\ RequestsNamed'
  BY DEF TypeInv, CacheTypeOK, RequestsNamed, At

LEMMA DoneType ==
  ASSUME TypeInv, NEW r \in Request, Done(r)
  PROVE  /\ pc' \in [Request -> Pc] /\ req' \in [Request -> Req]
         /\ \A s \in Request : pc'[s] \in {"store", "replied"} => req'[s].seen # NoEntry
         /\ RequestsNamed'
  BY AtType, NoReqType DEF Done, Pc

LEMMA GetType ==
  ASSUME TypeInv, NEW r \in Request,
         \/ \E k \in Key : Hit(r, k) \/ Miss(r, k)
         \/ AskService(r) \/ AskFails(r) \/ Store(r) \/ EndGet(r)
  PROVE  TypeInv'
<1>0. /\ UNCHANGED <<version, answered>>
      /\ \A k \in Key : cache[k] \in Version \cup {NoEntry} /\ DataOf[k] \in Data
      /\ \A d \in Data : answered[d] \in Version /\ version[d] \in Version
  BY DEF TypeInv, CacheTypeOK, Hit, Miss, AskService, AskFails, Store, EndGet
<1>1. ASSUME NEW k \in Key, Hit(r, k) PROVE TypeInv'
  <2> DEFINE q == [NoReq EXCEPT !.key = k, !.seen = cache[k], !.since = answered[DataOf[k]]]
  <2>1. q \in Req /\ q.key = k /\ q.seen = cache[k]
    BY <1>0, NoReqType DEF Req, NoReq
  <2> QED
    BY <1>1, <2>1, AtType DEF Hit, TypeInv, CacheTypeOK, Pc
<1>2. ASSUME NEW k \in Key, Miss(r, k) PROVE TypeInv'
  <2> DEFINE q == [NoReq EXCEPT !.key = k, !.since = answered[DataOf[k]]]
  <2>1. q \in Req /\ q.key = k
    BY <1>0, NoReqType DEF Req, NoReq
  <2> QED
    BY <1>2, <2>1, AtType DEF Miss, TypeInv, CacheTypeOK, Pc
<1>3. CASE AskService(r)
  <2> DEFINE q == [req[r] EXCEPT !.seen = version[DataOf[req[r].key]]]
  <2>1. pc[r] = "ask" /\ req[r] \in Req /\ req[r].key \in Key
    BY <1>3 DEF AskService, TypeInv, CacheTypeOK, RequestsNamed
  <2>2. q \in Req /\ q.key = req[r].key /\ q.seen \in Version
    BY <1>0, <2>1 DEF Req
  <2>3. q.seen # NoEntry
    BY <2>2 DEF Version, NoEntry
  <2> QED
    BY <1>3, <2>1, <2>2, <2>3, AtType DEF AskService, TypeInv, CacheTypeOK, Pc
<1>4. CASE AskFails(r) \/ EndGet(r)
  BY <1>4, DoneType DEF AskFails, EndGet, TypeInv, CacheTypeOK
<1>5. CASE Store(r)
  <2>1. pc[r] = "store" /\ req[r] \in Req /\ req[r].key \in Key /\ req[r].seen # NoEntry
    BY <1>5 DEF Store, TypeInv, CacheTypeOK, RequestsNamed
  <2>2. cache' \in [Key -> Version \cup {NoEntry}]
    BY <1>5, <2>1 DEF Store, Req, TypeInv, CacheTypeOK
  <2> QED
    BY <1>5, <2>1, <2>2, AtType DEF Store, TypeInv, CacheTypeOK, Pc
<1> QED
  BY <1>1, <1>2, <1>3, <1>4, <1>5

LEMMA MutationType ==
  ASSUME TypeInv, NEW r \in Request,
         \/ \E p \in Prefix : StartMutation(r, p)
         \/ Mutate(r) \/ RefuseMutation(r) \/ Scan(r) \/ EndMutation(r) \/ InvalidationFails(r)
         \/ \E k \in Key : DeleteEntry(r, k)
  PROVE  TypeInv'
<1>0. req[r] \in Req /\ \A d \in Data : req[r].made[d] \in Version /\ answered[d] \in Version
  BY DEF TypeInv, CacheTypeOK, Req
<1>1. ASSUME NEW p \in Prefix, StartMutation(r, p) PROVE TypeInv'
  <2> DEFINE q == [NoReq EXCEPT !.prefix = p]
  <2>1. q \in Req /\ q.prefix = p
    BY NoReqType DEF Req, NoReq
  <2> QED
    BY <1>1, <2>1, AtType DEF StartMutation, TypeInv, CacheTypeOK, Pc
<1>2. CASE Mutate(r)
  <2> DEFINE made == [d \in Data |-> IF d \in Touches[req[r].prefix] THEN version'[d] ELSE 0]
             q == [req[r] EXCEPT !.made = made]
  <2>1. req[r].prefix \in Prefix /\ Touches[req[r].prefix] \subseteq Data
    BY <1>2 DEF Mutate, TypeInv, RequestsNamed
  <2>2. version' \in [Data -> Version]
    BY <1>2, <2>1 DEF Mutate, TypeInv, CacheTypeOK, Version
  <2>3. q \in Req /\ q.prefix = req[r].prefix
    BY <1>0, <2>2 DEF Req, Version
  <2>4. CASE At(r, "scan", q)
    BY <1>2, <2>1, <2>2, <2>3, <2>4, AtType DEF Mutate, TypeInv, CacheTypeOK, Pc
  <2>5. CASE Done(r)
    BY <1>2, <2>2, <2>5, DoneType DEF Mutate, TypeInv, CacheTypeOK
  <2> QED
    BY <1>2, <2>4, <2>5 DEF Mutate
<1>3. CASE RefuseMutation(r)
  BY <1>3, DoneType DEF RefuseMutation, TypeInv, CacheTypeOK
<1>4. CASE Scan(r)
  <2> DEFINE q == [req[r] EXCEPT !.found = {k \in Keys(req[r].prefix) : cache[k] # NoEntry}]
  <2>1. req[r].prefix \in Prefix
    BY <1>4 DEF Scan, TypeInv, RequestsNamed
  <2>2. q \in Req /\ q.prefix = req[r].prefix
    BY <1>0 DEF Req, Keys
  <2> QED
    BY <1>4, <2>1, <2>2, AtType DEF Scan, TypeInv, CacheTypeOK, Pc
<1>5. CASE EndMutation(r) \/ InvalidationFails(r)
  <2>1. answered' \in [Data -> Version]
    BY <1>0, <1>5 DEF EndMutation, InvalidationFails, Answer, TypeInv, CacheTypeOK
  <2> QED
    BY <1>5, <2>1, DoneType DEF EndMutation, InvalidationFails, Answer, TypeInv, CacheTypeOK
<1>6. ASSUME NEW k \in Key, DeleteEntry(r, k) PROVE TypeInv'
  <2> DEFINE q == [req[r] EXCEPT !.found = @ \ {k}]
  <2>1. req[r].prefix \in Prefix
    BY <1>6 DEF DeleteEntry, TypeInv, RequestsNamed
  <2>2. q \in Req /\ q.prefix = req[r].prefix
    BY <1>0 DEF Req
  <2>3. cache' \in [Key -> Version \cup {NoEntry}]
    BY <1>6 DEF DeleteEntry, TypeInv, CacheTypeOK
  <2> QED
    BY <1>6, <2>1, <2>2, <2>3, AtType DEF DeleteEntry, TypeInv, CacheTypeOK, Pc
<1> QED
  BY <1>1, <1>2, <1>3, <1>4, <1>5, <1>6

LEMMA TypeNext == TypeInv /\ [Next]_vars => TypeInv'
<1> SUFFICES ASSUME TypeInv, [Next]_vars PROVE TypeInv'
  OBVIOUS
<1>1. ASSUME NEW k \in Key, Expire(k) PROVE TypeInv'
  BY <1>1 DEF Expire, TypeInv, CacheTypeOK, RequestsNamed
<1>2. CASE UNCHANGED vars
  BY <1>2 DEF vars, TypeInv, CacheTypeOK, RequestsNamed
<1> QED
  BY <1>1, <1>2, GetType, MutationType DEF Next, Step

\* Entries, versions and what a request carries keep their types, whatever the
\* clients and Redis do.
THEOREM CacheTypes == Spec => []CacheTypeOK
<1>1. TypeInv => CacheTypeOK
  BY DEF TypeInv
<1> QED
  BY <1>1, TypeInit, TypeNext, PTL DEF Spec

-----------------------------------------------------------------------------
(* Invalidation.                                                           *)

LEMMA AtFacts ==
  ASSUME TypeInv, NEW r \in Request, NEW where, NEW q, At(r, where, q)
  PROVE  /\ pc'[r] = where /\ req'[r] = q
         /\ \A s \in Request \ {r} : pc'[s] = pc[s] /\ req'[s] = req[s]
  BY DEF At, TypeInv, CacheTypeOK

\* r is going to delete the entry of k.
Dooms(r, k) == \/ pc[r] = "scan" /\ req[r].prefix = PrefixOf[k]
               \/ pc[r] = "delete" /\ k \in req[r].found

LEMMA FreshInit == Init => FreshInv
  BY DEF Init, FreshInv, Apart, Getting, Mutating, StoresCurrent, StaleIsDoomed, Stale

\* A request that ends, or has its reply, disturbs nothing.
LEMMA MoveFresh ==
  ASSUME TypeInv, FreshInv, NEW r \in Request, NEW where \in {"idle", "replied"}, NEW q,
         At(r, where, q), UNCHANGED <<version, cache>>, \A k \in Key : ~Dooms(r, k)
  PROVE  FreshInv'
<1>1. /\ pc'[r] = where /\ req'[r] = q
      /\ \A s \in Request \ {r} : pc'[s] = pc[s] /\ req'[s] = req[s]
  BY AtFacts
<1>2. Apart'
  BY <1>1 DEF FreshInv, Apart, Getting, Mutating
<1>3. StoresCurrent'
  BY <1>1 DEF FreshInv, StoresCurrent
<1>4. StaleIsDoomed'
  BY <1>1 DEF FreshInv, StaleIsDoomed, Stale, Dooms
<1> QED
  BY <1>2, <1>3, <1>4 DEF FreshInv

LEMMA GetFresh ==
  ASSUME TypeInv, FreshInv, QuietClients, NEW r \in Request,
         \/ \E k \in Key : Hit(r, k) \/ Miss(r, k)
         \/ AskService(r) \/ AskFails(r) \/ Store(r) \/ EndGet(r)
  PROVE  FreshInv'
<1>1. CASE (\E k \in Key : Hit(r, k)) \/ AskFails(r) \/ EndGet(r)
  BY <1>1, MoveFresh DEF Hit, AskFails, EndGet, Done, Dooms
<1>2. ASSUME NEW k \in Key, Miss(r, k) PROVE FreshInv'
  <2>1. /\ pc[r] = "idle" /\ pc'[r] = "ask" /\ req'[r].key = k
        /\ \A s \in Request \ {r} : pc'[s] = pc[s] /\ req'[s] = req[s]
        /\ UNCHANGED <<version, cache>>
    <3> DEFINE q == [NoReq EXCEPT !.key = k, !.since = answered[DataOf[k]]]
    <3>1. q.key = k
      BY DEF NoReq
    <3> QED
      BY <1>2, <3>1, AtFacts DEF Miss
  <2>2. \A s \in Request : ~Mutating(s, DataOf[k])
    BY <1>2 DEF Miss, QuietForGet, QuietClients
  <2>3. ASSUME NEW s \in Request, NEW t \in Request, NEW d \in Data,
               Getting(s, d)', Mutating(t, d)'
        PROVE  FALSE
    <3>1. t # r /\ Mutating(t, d)
      BY <2>1, <2>3 DEF Mutating
    <3>2. CASE s = r
      BY <2>1, <2>2, <2>3, <3>1, <3>2 DEF Getting
    <3>3. CASE s # r
      BY <2>1, <2>3, <3>1, <3>3 DEF FreshInv, Apart, Getting
    <3> QED
      BY <3>2, <3>3
  <2>4. StoresCurrent' /\ StaleIsDoomed'
    BY <2>1 DEF FreshInv, StoresCurrent, StaleIsDoomed, Stale
  <2> QED
    BY <2>3, <2>4 DEF FreshInv, Apart
<1>3. CASE AskService(r)
  <2>1. /\ pc[r] = "ask" /\ pc'[r] = "store"
        /\ \A s \in Request \ {r} : pc'[s] = pc[s] /\ req'[s] = req[s]
        /\ UNCHANGED <<version, cache>>
    BY <1>3, AtFacts DEF AskService
  <2>2. req'[r].key = req[r].key /\ req'[r].seen = version[DataOf[req[r].key]]
    BY <1>3, AtFacts DEF AskService, TypeInv, CacheTypeOK, Req
  <2>3. ASSUME NEW s \in Request, NEW t \in Request, NEW d \in Data,
               Getting(s, d)', Mutating(t, d)'
        PROVE  FALSE
    <3>1. t # r /\ Mutating(t, d)
      BY <2>1, <2>3 DEF Mutating
    <3>2. Getting(s, d)
      BY <2>1, <2>2, <2>3 DEF Getting
    <3> QED
      BY <3>1, <3>2 DEF FreshInv, Apart
  <2>4. StoresCurrent'
    BY <2>1, <2>2 DEF FreshInv, StoresCurrent
  <2>5. StaleIsDoomed'
    BY <2>1, <2>2 DEF FreshInv, StaleIsDoomed, Stale
  <2> QED
    BY <2>3, <2>4, <2>5 DEF FreshInv, Apart
<1>4. CASE Store(r)
  <2>1. /\ pc[r] = "store" /\ pc'[r] = "replied" /\ req'[r] = req[r]
        /\ \A s \in Request \ {r} : pc'[s] = pc[s] /\ req'[s] = req[s]
        /\ cache' = [cache EXCEPT ![req[r].key] = req[r].seen] /\ UNCHANGED version
    BY <1>4, AtFacts DEF Store, QuietClients
  <2>2. req[r].key \in Key /\ req[r].seen = version[DataOf[req[r].key]]
    BY <2>1 DEF TypeInv, RequestsNamed, FreshInv, StoresCurrent
  <2>3. Apart' /\ StoresCurrent'
    BY <2>1 DEF FreshInv, Apart, Getting, Mutating, StoresCurrent
  <2>4. \A k \in Key : Stale(k)' => Stale(k)
    BY <2>1, <2>2 DEF Stale, TypeInv, CacheTypeOK
  <2>5. StaleIsDoomed'
    BY <2>1, <2>4 DEF FreshInv, StaleIsDoomed
  <2> QED
    BY <2>3, <2>5 DEF FreshInv
<1> QED
  BY <1>1, <1>2, <1>3, <1>4

LEMMA MutationFresh ==
  ASSUME TypeInv, FreshInv, QuietClients, NEW r \in Request,
         \/ \E p \in Prefix : StartMutation(r, p)
         \/ Mutate(r) \/ RefuseMutation(r) \/ Scan(r) \/ EndMutation(r) \/ InvalidationFails(r)
         \/ \E k \in Key : DeleteEntry(r, k)
  PROVE  FreshInv'
<1>1. CASE RefuseMutation(r) \/ EndMutation(r)
  BY <1>1, MoveFresh DEF RefuseMutation, EndMutation, Answer, Done, Dooms
<1>2. ~InvalidationFails(r)
  BY DEF InvalidationFails, QuietClients
<1>3. ASSUME NEW p \in Prefix, StartMutation(r, p) PROVE FreshInv'
  <2>1. /\ pc[r] = "idle" /\ pc'[r] = "mutate" /\ req'[r].prefix = p
        /\ \A s \in Request \ {r} : pc'[s] = pc[s] /\ req'[s] = req[s]
        /\ UNCHANGED <<version, cache>>
    BY <1>3, AtFacts DEF StartMutation, NoReq
  <2>2. \A s \in Request, d \in Touches[p] : ~Getting(s, d)
    BY <1>3 DEF StartMutation, QuietForMutation, QuietClients
  <2>3. Apart'
    BY <2>1, <2>2 DEF FreshInv, Apart, Getting, Mutating
  <2>4. StoresCurrent' /\ StaleIsDoomed'
    BY <2>1 DEF FreshInv, StoresCurrent, StaleIsDoomed, Stale
  <2> QED
    BY <2>3, <2>4 DEF FreshInv
<1>4. CASE Mutate(r)
  <2> DEFINE p == req[r].prefix
  <2>1. /\ pc[r] = "mutate" /\ pc'[r] = "scan"
        /\ \A s \in Request \ {r} : pc'[s] = pc[s] /\ req'[s] = req[s]
        /\ UNCHANGED cache
    BY <1>4, AtFacts DEF Mutate, QuietClients
  <2>2. p \in Prefix /\ req'[r].prefix = p
    BY <1>4, <2>1, AtFacts DEF Mutate, QuietClients, TypeInv, RequestsNamed, CacheTypeOK, Req
  <2>3. \A d \in Data \ Touches[p] : version'[d] = version[d]
    BY <1>4 DEF Mutate
  <2>4. Apart'
    BY <2>1 DEF FreshInv, Apart, Getting, Mutating
  <2>5. ASSUME NEW s \in Request, pc[s] = "store"
        PROVE  req[s].key \in Key /\ DataOf[req[s].key] \in Data \ Touches[p]
    <3>1. req[s].key \in Key /\ DataOf[req[s].key] \in Data
      BY <2>5 DEF TypeInv, RequestsNamed
    <3>2. Getting(s, DataOf[req[s].key])
      BY <2>5 DEF Getting
    <3> QED
      BY <2>1, <3>1, <3>2 DEF FreshInv, Apart, Mutating
  <2>6. StoresCurrent'
    BY <2>1, <2>3, <2>5 DEF FreshInv, StoresCurrent
  <2>7. ASSUME NEW k \in Key, Stale(k)' PROVE \E s \in Request : Dooms(s, k)'
    <3>1. CASE DataOf[k] \in Touches[p]
      BY <2>1, <2>2, <3>1 DEF QuietClients, Dooms
    <3>2. CASE DataOf[k] \notin Touches[p]
      <4>1. Stale(k)
        BY <2>1, <2>3, <2>7, <3>2 DEF Stale
      <4>2. PICK s \in Request : Dooms(s, k)
        BY <4>1 DEF FreshInv, StaleIsDoomed, Dooms
      <4> QED
        BY <2>1, <4>2 DEF Dooms
    <3> QED
      BY <3>1, <3>2
  <2>8. StaleIsDoomed'
    BY <2>7 DEF StaleIsDoomed, Dooms
  <2> QED
    BY <2>4, <2>6, <2>8 DEF FreshInv
<1>5. CASE Scan(r)
  <2>1. /\ pc[r] = "scan" /\ pc'[r] = "delete"
        /\ req'[r] = [req[r] EXCEPT !.found = {k \in Keys(req[r].prefix) : cache[k] # NoEntry}]
        /\ \A s \in Request \ {r} : pc'[s] = pc[s] /\ req'[s] = req[s]
        /\ UNCHANGED <<version, cache>>
    BY <1>5, AtFacts DEF Scan
  <2>2. req'[r].found = {k \in Keys(req[r].prefix) : cache[k] # NoEntry}
    BY <2>1 DEF TypeInv, CacheTypeOK, Req
  <2>3. Apart' /\ StoresCurrent'
    BY <2>1 DEF FreshInv, Apart, Getting, Mutating, StoresCurrent
  <2>4. ASSUME NEW k \in Key, Stale(k)' PROVE \E s \in Request : Dooms(s, k)'
    <3>1. Stale(k) /\ cache[k] # NoEntry
      BY <2>1, <2>4 DEF Stale
    <3>2. PICK s \in Request : Dooms(s, k)
      BY <3>1 DEF FreshInv, StaleIsDoomed, Dooms
    <3>3. CASE s = r
      BY <2>1, <2>2, <3>1, <3>2, <3>3 DEF Dooms, Keys
    <3>4. CASE s # r
      BY <2>1, <3>2, <3>4 DEF Dooms
    <3> QED
      BY <3>3, <3>4
  <2>5. StaleIsDoomed'
    BY <2>4 DEF StaleIsDoomed, Dooms
  <2> QED
    BY <2>3, <2>5 DEF FreshInv
<1>6. ASSUME NEW k \in Key, DeleteEntry(r, k) PROVE FreshInv'
  <2>1. /\ pc[r] = "delete" /\ pc'[r] = "delete" /\ cache' = [cache EXCEPT ![k] = NoEntry]
        /\ req'[r] = [req[r] EXCEPT !.found = @ \ {k}]
        /\ \A s \in Request \ {r} : pc'[s] = pc[s] /\ req'[s] = req[s]
        /\ UNCHANGED version
    BY <1>6, AtFacts DEF DeleteEntry
  <2>2. req'[r].found = req[r].found \ {k}
    BY <2>1 DEF TypeInv, CacheTypeOK, Req
  <2>3. Apart' /\ StoresCurrent'
    BY <2>1 DEF FreshInv, Apart, Getting, Mutating, StoresCurrent
  <2>4. \A j \in Key : Stale(j)' => Stale(j) /\ j # k
    BY <2>1 DEF Stale, TypeInv, CacheTypeOK
  <2>5. ASSUME NEW j \in Key, Stale(j)' PROVE \E s \in Request : Dooms(s, j)'
    <3>1. Stale(j) /\ j # k
      BY <2>4, <2>5
    <3>2. PICK s \in Request : Dooms(s, j)
      BY <3>1 DEF FreshInv, StaleIsDoomed, Dooms
    <3>3. CASE s = r
      BY <2>1, <2>2, <3>1, <3>2, <3>3 DEF Dooms
    <3>4. CASE s # r
      BY <2>1, <3>2, <3>4 DEF Dooms
    <3> QED
      BY <3>3, <3>4
  <2>6. StaleIsDoomed'
    BY <2>5 DEF StaleIsDoomed, Dooms
  <2> QED
    BY <2>3, <2>6 DEF FreshInv
<1> QED
  BY <1>1, <1>2, <1>3, <1>4, <1>5, <1>6

LEMMA FreshNext == QuietClients /\ TypeInv /\ FreshInv /\ [Next]_vars => FreshInv'
<1> SUFFICES ASSUME QuietClients, TypeInv, FreshInv, [Next]_vars PROVE FreshInv'
  OBVIOUS
<1>1. ASSUME NEW k \in Key, Expire(k) PROVE FreshInv'
  <2>1. \A j \in Key : Stale(j)' => Stale(j)
    BY <1>1 DEF Expire, Stale, TypeInv, CacheTypeOK
  <2> QED
    BY <1>1, <2>1 DEF Expire, FreshInv, Apart, Getting, Mutating, StoresCurrent, StaleIsDoomed
<1>2. CASE UNCHANGED vars
  BY <1>2 DEF vars, FreshInv, Apart, Getting, Mutating, StoresCurrent, StaleIsDoomed, Stale
<1> QED
  BY <1>1, <1>2, GetFresh, MutationFresh DEF Next, Step

LEMMA FreshAlways == QuietClients => (Spec => [](TypeInv /\ FreshInv))
<1>1. ASSUME QuietClients PROVE TypeInv /\ FreshInv /\ [Next]_vars => (TypeInv /\ FreshInv)'
  BY <1>1, TypeNext, FreshNext
<1>2. ASSUME QuietClients PROVE Spec => [](TypeInv /\ FreshInv)
  BY <1>1, <1>2, TypeInit, FreshInit, PTL DEF Spec
<1> QED
  BY <1>2

\* An entry that no longer shows what the service stores is on the list of a mutation
\* that has not been answered, if clients keep GETs and mutations apart.
THEOREM StaleIsAlwaysDoomed == QuietClients => (Spec => []StaleIsDoomed)
<1>1. FreshInv => StaleIsDoomed
  BY DEF FreshInv
<1>2. ASSUME QuietClients PROVE Spec => []StaleIsDoomed
  BY <1>1, <1>2, FreshAlways, PTL
<1> QED
  BY <1>2

-----------------------------------------------------------------------------
(* What a GET shows.                                                       *)

LEMMA Numbers ==
  ASSUME TypeInv
  PROVE  /\ \A d \in Data : version[d] \in Nat /\ answered[d] \in Nat
         /\ \A k \in Key : DataOf[k] \in Data /\ cache[k] \in Int
                           /\ (cache[k] # NoEntry => cache[k] >= 0)
         /\ \A r \in Request : /\ req[r].seen \in Int /\ req[r].since \in Nat
                               /\ \A d \in Data : req[r].made[d] \in Nat
  BY DEF TypeInv, CacheTypeOK, Req, Version, NoEntry

LEMMA ReadInit == Init => ReadInv
  BY DEF Init, NoReq, ReadInv, MadeOwn, EntriesRecent, OldListed, GetsRecent, NoEntry

\* A request that moves on and changes neither version nor answered nor cache.
LEMMA MoveRead ==
  ASSUME TypeInv, TypeInv', ReadInv, NEW r \in Request, NEW where, NEW q, At(r, where, q),
         UNCHANGED <<version, answered, cache>>,
         \A d \in Data : q.made[d] = 0 \/ q.made[d] = req[r].made[d],
         where # "scan",
         where = "delete" => \A k \in Key :
            cache[k] # NoEntry /\ cache[k] < q.made[DataOf[k]] => k \in q.found,
         where = "ask" => q.since <= answered[DataOf[q.key]],
         where \in {"store", "replied"} => q.seen >= q.since
  PROVE  ReadInv'
<1>1. /\ pc'[r] = where /\ req'[r] = q
      /\ \A s \in Request \ {r} : pc'[s] = pc[s] /\ req'[s] = req[s]
  BY AtFacts
<1>2. MadeOwn'
  <2>1. \A d \in Data : answered'[d] <= version'[d]
    BY DEF ReadInv, MadeOwn
  <2>2. ASSUME NEW s \in Request, NEW d \in Data
        PROVE  /\ req'[s].made[d] <= version'[d]
               /\ pc'[s] = "scan" /\ req'[s].made[d] # 0 => d \in Touches[req'[s].prefix]
    <3>1. CASE s = r
      BY <1>1, <3>1, Numbers DEF ReadInv, MadeOwn
    <3>2. CASE s # r
      BY <1>1, <3>2 DEF ReadInv, MadeOwn
    <3> QED
      BY <3>1, <3>2
  <2> QED
    BY <2>1, <2>2 DEF MadeOwn
<1>3. EntriesRecent'
  BY DEF ReadInv, EntriesRecent
<1>4. OldListed'
  <2>1. ASSUME NEW s \in Request, NEW k \in Key, pc'[s] = "delete", cache'[k] # NoEntry,
               cache'[k] < req'[s].made[DataOf[k]]
        PROVE  k \in req'[s].found
    BY <1>1, <2>1 DEF ReadInv, OldListed
  <2> QED
    BY <2>1 DEF OldListed
<1>5. GetsRecent'
  BY <1>1 DEF ReadInv, GetsRecent
<1> QED
  BY <1>2, <1>3, <1>4, <1>5 DEF ReadInv

LEMMA DoneRead ==
  ASSUME TypeInv, TypeInv', ReadInv, NEW r \in Request, Done(r),
         UNCHANGED <<version, answered, cache>>
  PROVE  ReadInv'
<1>1. \A d \in Data : NoReq.made[d] = 0
  BY DEF NoReq
<1> QED
  BY <1>1, MoveRead DEF Done

LEMMA GetRead ==
  ASSUME TypeInv, TypeInv', FreshInv, ReadInv, QuietClients, NEW r \in Request,
         \/ \E k \in Key : Hit(r, k) \/ Miss(r, k)
         \/ AskService(r) \/ AskFails(r) \/ Store(r) \/ EndGet(r)
  PROVE  ReadInv'
<1>1. ASSUME NEW k \in Key, Hit(r, k) PROVE ReadInv'
  <2> DEFINE q == [NoReq EXCEPT !.key = k, !.seen = cache[k], !.since = answered[DataOf[k]]]
  <2>1. /\ q.seen = cache[k] /\ q.since = answered[DataOf[k]]
        /\ \A d \in Data : q.made[d] = 0
    BY DEF NoReq
  <2>2. q.seen >= q.since
    BY <1>1, <2>1 DEF Hit, ReadInv, EntriesRecent
  <2>3. At(r, "replied", q) /\ UNCHANGED <<version, answered, cache>>
    BY <1>1 DEF Hit
  <2> HIDE DEF q
  <2> QED
    BY <2>1, <2>2, <2>3, MoveRead
<1>2. ASSUME NEW k \in Key, Miss(r, k) PROVE ReadInv'
  <2> DEFINE q == [NoReq EXCEPT !.key = k, !.since = answered[DataOf[k]]]
  <2>1. /\ q.key = k /\ q.since = answered[DataOf[k]]
        /\ \A d \in Data : q.made[d] = 0
    BY DEF NoReq
  <2>2. q.since <= answered[DataOf[q.key]]
    BY <2>1, Numbers
  <2>3. At(r, "ask", q) /\ UNCHANGED <<version, answered, cache>>
    BY <1>2 DEF Miss
  <2> HIDE DEF q
  <2> QED
    BY <2>1, <2>2, <2>3, MoveRead
<1>3. CASE AskService(r)
  <2> DEFINE q == [req[r] EXCEPT !.seen = version[DataOf[req[r].key]]]
  <2>1. pc[r] = "ask" /\ req[r].key \in Key
    BY <1>3 DEF AskService, TypeInv, RequestsNamed
  <2>2. /\ q.seen = version[DataOf[req[r].key]] /\ q.since = req[r].since
        /\ q.made = req[r].made
    BY DEF TypeInv, CacheTypeOK, Req
  <2>3. q.seen >= q.since
    BY <2>1, <2>2, Numbers DEF ReadInv, MadeOwn, GetsRecent
  <2>4. At(r, "store", q) /\ UNCHANGED <<version, answered, cache>>
    BY <1>3 DEF AskService
  <2> HIDE DEF q
  <2> QED
    BY <2>2, <2>3, <2>4, MoveRead
<1>4. CASE AskFails(r) \/ EndGet(r)
  BY <1>4, DoneRead DEF AskFails, EndGet
<1>5. CASE Store(r)
  <2>1. /\ pc[r] = "store" /\ pc'[r] = "replied" /\ req' = req
        /\ \A s \in Request \ {r} : pc'[s] = pc[s]
        /\ cache' = [cache EXCEPT ![req[r].key] = req[r].seen]
        /\ UNCHANGED <<version, answered>>
    BY <1>5, AtFacts DEF Store, At, QuietClients, TypeInv, CacheTypeOK
  <2>2. req[r].key \in Key /\ req[r].seen = version[DataOf[req[r].key]]
    BY <2>1 DEF TypeInv, RequestsNamed, FreshInv, StoresCurrent
  <2>3. /\ cache'[req[r].key] = version[DataOf[req[r].key]]
        /\ \A k \in Key \ {req[r].key} : cache'[k] = cache[k]
    BY <2>1, <2>2 DEF TypeInv, CacheTypeOK
  <2>4. MadeOwn' /\ GetsRecent'
    BY <2>1 DEF ReadInv, MadeOwn, GetsRecent
  <2>5. EntriesRecent'
    BY <2>1, <2>2, <2>3, Numbers DEF ReadInv, MadeOwn, EntriesRecent
  <2>6. OldListed'
    BY <2>1, <2>2, <2>3, Numbers DEF ReadInv, MadeOwn, OldListed
  <2> QED
    BY <2>4, <2>5, <2>6 DEF ReadInv
<1> QED
  BY <1>1, <1>2, <1>3, <1>4, <1>5

LEMMA MutationRead ==
  ASSUME TypeInv, TypeInv', FreshInv, ReadInv, QuietClients, NEW r \in Request,
         \/ \E p \in Prefix : StartMutation(r, p)
         \/ Mutate(r) \/ RefuseMutation(r) \/ Scan(r) \/ EndMutation(r) \/ InvalidationFails(r)
         \/ \E k \in Key : DeleteEntry(r, k)
  PROVE  ReadInv'
<1>1. ~InvalidationFails(r)
  BY DEF InvalidationFails, QuietClients
<1>2. ASSUME NEW p \in Prefix, StartMutation(r, p) PROVE ReadInv'
  <2> DEFINE q == [NoReq EXCEPT !.prefix = p]
  <2>1. \A d \in Data : q.made[d] = 0
    BY DEF NoReq
  <2>2. At(r, "mutate", q) /\ UNCHANGED <<version, answered, cache>>
    BY <1>2 DEF StartMutation
  <2> HIDE DEF q
  <2> QED
    BY <2>1, <2>2, MoveRead
<1>3. CASE Mutate(r)
  <2> DEFINE p == req[r].prefix
             made == [d \in Data |-> IF d \in Touches[p] THEN version'[d] ELSE 0]
             q == [req[r] EXCEPT !.made = made]
  <2>1. /\ pc'[r] = "scan" /\ req'[r] = q
        /\ \A s \in Request \ {r} : pc'[s] = pc[s] /\ req'[s] = req[s]
        /\ UNCHANGED <<answered, cache>>
    BY <1>3, AtFacts DEF Mutate, QuietClients
  <2>2. q.prefix = p /\ q.made = made
    BY DEF TypeInv, CacheTypeOK, Req
  <2>3. \A d \in Data : version'[d] >= version[d] /\ version'[d] \in Nat
    BY <1>3, Numbers DEF Mutate
  <2>4. MadeOwn'
    <3>1. \A d \in Data : answered'[d] <= version'[d]
      BY <2>1, <2>3, Numbers DEF ReadInv, MadeOwn
    <3>2. ASSUME NEW s \in Request, NEW d \in Data
          PROVE  /\ req'[s].made[d] <= version'[d]
                 /\ pc'[s] = "scan" /\ req'[s].made[d] # 0 => d \in Touches[req'[s].prefix]
      <4>1. CASE s = r
        <5>1. req'[s].made[d] = (IF d \in Touches[p] THEN version'[d] ELSE 0)
          <6>1. made[d] = (IF d \in Touches[p] THEN version'[d] ELSE 0)
            OBVIOUS
          <6> HIDE DEF made, p
          <6>2. req'[s].made = made
            BY <2>1, <2>2, <4>1
          <6> QED
            BY <6>1, <6>2
        <5>2. req'[s].prefix = p
          BY <2>1, <2>2, <4>1
        <5>3. version'[d] \in Nat
          BY <2>3
        <5> HIDE DEF p
        <5>4. CASE d \in Touches[p]
          BY <5>1, <5>2, <5>3, <5>4
        <5>5. CASE d \notin Touches[p]
          BY <5>1, <5>2, <5>3, <5>5
        <5> QED
          BY <5>4, <5>5
      <4>2. CASE s # r
        BY <2>1, <2>3, <4>2, Numbers DEF ReadInv, MadeOwn
      <4> QED
        BY <4>1, <4>2
    <3> QED
      BY <3>1, <3>2 DEF MadeOwn
  <2>5. EntriesRecent' /\ OldListed' /\ GetsRecent'
    BY <2>1 DEF ReadInv, EntriesRecent, OldListed, GetsRecent
  <2> QED
    BY <2>4, <2>5 DEF ReadInv
<1>4. CASE RefuseMutation(r)
  BY <1>4, DoneRead DEF RefuseMutation
<1>5. CASE Scan(r)
  <2> DEFINE listed == {k \in Keys(req[r].prefix) : cache[k] # NoEntry}
             q == [req[r] EXCEPT !.found = listed]
  <2>1. pc[r] = "scan" /\ req[r].prefix \in Prefix
    BY <1>5 DEF Scan, TypeInv, RequestsNamed
  <2>2. q.made = req[r].made /\ q.found = listed
    BY DEF TypeInv, CacheTypeOK, Req
  <2>3. ASSUME NEW k \in Key, cache[k] # NoEntry, cache[k] < q.made[DataOf[k]]
        PROVE  k \in q.found
    <3>1. req[r].made[DataOf[k]] # 0
      BY <2>2, <2>3, Numbers
    <3>2. DataOf[k] \in Touches[req[r].prefix]
      BY <2>1, <3>1, Numbers DEF ReadInv, MadeOwn
    <3>3. PrefixOf[k] = req[r].prefix
      BY <2>1, <3>2 DEF QuietClients
    <3> QED
      BY <2>2, <2>3, <3>3 DEF Keys
  <2> QED
    BY <1>5, <2>2, <2>3, MoveRead DEF Scan
<1>6. CASE EndMutation(r)
  <2>1. /\ pc[r] = "delete" /\ req[r].found = {} /\ UNCHANGED <<version, cache>>
        /\ pc'[r] = "idle" /\ req'[r] = NoReq
        /\ \A s \in Request \ {r} : pc'[s] = pc[s] /\ req'[s] = req[s]
    BY <1>6, AtFacts DEF EndMutation, Answer, Done
  <2>2. \A d \in Data : answered'[d] = IF req[r].made[d] > answered[d]
                                        THEN req[r].made[d] ELSE answered[d]
    BY <1>6 DEF EndMutation, Answer
  <2>3. MadeOwn'
    <3>1. \A d \in Data : answered'[d] <= version'[d]
      BY <2>1, <2>2 DEF ReadInv, MadeOwn
    <3>2. \A s \in Request, d \in Data :
             /\ req'[s].made[d] <= version'[d]
             /\ pc'[s] = "scan" /\ req'[s].made[d] # 0 => d \in Touches[req'[s].prefix]
      BY <2>1, Numbers DEF NoReq, ReadInv, MadeOwn
    <3> QED
      BY <3>1, <3>2 DEF MadeOwn
  <2>4. EntriesRecent'
    <3>1. ASSUME NEW k \in Key, cache[k] # NoEntry PROVE cache[k] >= answered'[DataOf[k]]
      <4>1. ~(cache[k] < req[r].made[DataOf[k]])
        BY <2>1, <3>1 DEF ReadInv, OldListed
      <4>2. cache[k] >= answered[DataOf[k]]
        BY <3>1 DEF ReadInv, EntriesRecent
      <4> QED
        BY <2>2, <4>1, <4>2, Numbers
    <3> QED
      BY <2>1, <3>1 DEF EntriesRecent
  <2>5. OldListed'
    BY <2>1 DEF ReadInv, OldListed
  <2>6. GetsRecent'
    <3>1. ASSUME NEW s \in Request, pc'[s] = "ask"
          PROVE  req'[s].since <= answered'[DataOf[req'[s].key]]
      <4>1. s # r /\ pc[s] = "ask" /\ req'[s] = req[s] /\ DataOf[req[s].key] \in Data
        BY <2>1, <3>1 DEF TypeInv, RequestsNamed
      <4>2. req[s].since <= answered[DataOf[req[s].key]]
        BY <4>1 DEF ReadInv, GetsRecent
      <4> QED
        BY <2>2, <4>1, <4>2, Numbers
    <3>2. \A s \in Request : pc'[s] \in {"store", "replied"} => req'[s].seen >= req'[s].since
      BY <2>1 DEF ReadInv, GetsRecent
    <3> QED
      BY <3>1, <3>2 DEF GetsRecent
  <2> QED
    BY <2>3, <2>4, <2>5, <2>6 DEF ReadInv
<1>7. ASSUME NEW k \in Key, DeleteEntry(r, k) PROVE ReadInv'
  <2>1. /\ pc[r] = "delete" /\ pc' = pc /\ UNCHANGED <<version, answered>>
        /\ cache' = [cache EXCEPT ![k] = NoEntry]
        /\ req'[r] = [req[r] EXCEPT !.found = @ \ {k}]
        /\ \A s \in Request \ {r} : req'[s] = req[s]
    BY <1>7, AtFacts DEF DeleteEntry, At, TypeInv, CacheTypeOK
  <2>2. \A s \in Request : /\ req'[s].made = req[s].made /\ req'[s].seen = req[s].seen
                           /\ req'[s].since = req[s].since /\ req'[s].key = req[s].key
                           /\ req'[s].prefix = req[s].prefix
                           /\ \A j \in Key \ {k} : j \in req[s].found => j \in req'[s].found
    <3>1. req[r] \in Req
      BY DEF TypeInv, CacheTypeOK
    <3>2. /\ req'[r].made = req[r].made /\ req'[r].seen = req[r].seen
          /\ req'[r].since = req[r].since /\ req'[r].key = req[r].key
          /\ req'[r].prefix = req[r].prefix /\ req'[r].found = req[r].found \ {k}
      BY <2>1, <3>1 DEF Req
    <3> QED
      BY <2>1, <3>2
  <2>3. \A j \in Key : cache'[j] # NoEntry => j # k /\ cache'[j] = cache[j]
    BY <2>1 DEF TypeInv, CacheTypeOK
  <2>4. MadeOwn' /\ GetsRecent'
    BY <2>1, <2>2 DEF ReadInv, MadeOwn, GetsRecent
  <2>5. EntriesRecent' /\ OldListed'
    BY <2>1, <2>2, <2>3 DEF ReadInv, EntriesRecent, OldListed
  <2> QED
    BY <2>4, <2>5 DEF ReadInv
<1> QED
  BY <1>1, <1>2, <1>3, <1>4, <1>5, <1>6, <1>7

LEMMA ReadNext ==
  QuietClients /\ TypeInv /\ TypeInv' /\ FreshInv /\ ReadInv /\ [Next]_vars => ReadInv'
<1> SUFFICES ASSUME QuietClients, TypeInv, TypeInv', FreshInv, ReadInv, [Next]_vars
             PROVE  ReadInv'
  OBVIOUS
<1>1. ASSUME NEW k \in Key, Expire(k) PROVE ReadInv'
  <2>1. \A j \in Key : cache'[j] # NoEntry => cache'[j] = cache[j]
    BY <1>1 DEF Expire, TypeInv, CacheTypeOK
  <2> QED
    BY <1>1, <2>1 DEF Expire, ReadInv, MadeOwn, EntriesRecent, OldListed, GetsRecent
<1>2. CASE UNCHANGED vars
  BY <1>2 DEF vars, ReadInv, MadeOwn, EntriesRecent, OldListed, GetsRecent
<1> QED
  BY <1>1, <1>2, GetRead, MutationRead DEF Next, Step

\* A GET that arrives after a mutation was answered shows its effect or that of a later
\* one, whether it is answered from Redis or by the service, for the same clients.
THEOREM ReadsAlwaysSeeAnswered == QuietClients => (Spec => []ReadsSeeAnswered)
<1>1. ReadInv => ReadsSeeAnswered
  BY DEF ReadInv, GetsRecent, ReadsSeeAnswered
<1>2. ASSUME QuietClients
      PROVE  /\ TypeInv /\ FreshInv /\ [Next]_vars => (TypeInv /\ FreshInv)'
             /\ TypeInv /\ FreshInv /\ ReadInv /\ [Next]_vars => ReadInv'
  BY <1>2, TypeNext, FreshNext, ReadNext
<1>3. ASSUME QuietClients PROVE Spec => []ReadsSeeAnswered
  BY <1>1, <1>2, <1>3, TypeInit, FreshInit, ReadInit, PTL DEF Spec
<1> QED
  BY <1>3

-----------------------------------------------------------------------------
(* What is late only moves on: the safe half of FreshInTheEnd, for any      *)
(* clients and faults.                                                      *)

\* A reply that a mutation has overtaken and that is going to be stored.
LateReply(r) == pc[r] = "store" /\ req[r].seen # version[DataOf[req[r].key]]

\* As long as no service changes its data, no reply becomes late, and an entry
\* becomes stale only as a late reply is stored in it, which is late no more: each
\* of them spoils one entry at most, once.
LateOnlyMoves ==
  [][version' = version =>
       /\ \A r \in Request : LateReply(r)' => LateReply(r)
       /\ \A k \in Key : Stale(k)' /\ ~Stale(k) =>
             \E r \in Request : req[r].key = k /\ LateReply(r) /\ ~LateReply(r)']_vars

LateMoves ==
  version' = version =>
    /\ \A r \in Request : LateReply(r)' => LateReply(r)
    /\ \A k \in Key : Stale(k)' /\ ~Stale(k) =>
          \E r \in Request : req[r].key = k /\ LateReply(r) /\ ~LateReply(r)'

LEMMA LateStep == ASSUME TypeInv, Next PROVE LateMoves
<1> SUFFICES ASSUME version' = version
             PROVE  /\ \A r \in Request : LateReply(r)' => LateReply(r)
                    /\ \A k \in Key : Stale(k)' /\ ~Stale(k) =>
                          \E r \in Request :
                             req[r].key = k /\ LateReply(r) /\ ~LateReply(r)'
  BY DEF LateMoves
<1> DEFINE Goal == /\ \A r \in Request : LateReply(r)' => LateReply(r)
                   /\ \A k \in Key : Stale(k)' /\ ~Stale(k) =>
                         \E r \in Request :
                            req[r].key = k /\ LateReply(r) /\ ~LateReply(r)'
\* A request that moves on, but not to "store", and leaves no new entry.
<1>m. ASSUME NEW r \in Request, NEW where \in Pc \ {"store"}, NEW q, At(r, where, q),
             \A k \in Key : cache'[k] \in {cache[k], NoEntry}
      PROVE  Goal
  <2>1. /\ pc'[r] = where
        /\ \A s \in Request \ {r} : pc'[s] = pc[s] /\ req'[s] = req[s]
    BY <1>m, AtFacts
  <2> QED BY <1>m, <2>1 DEF LateReply, Stale
<1>1. ASSUME NEW r \in Request, AskService(r) PROVE Goal
  <2>1. /\ req'[r].seen = version[DataOf[req[r].key]] /\ req'[r].key = req[r].key
        /\ \A s \in Request \ {r} : pc'[s] = pc[s] /\ req'[s] = req[s]
        /\ cache' = cache
    BY <1>1, AtFacts DEF AskService, TypeInv, CacheTypeOK, Req
  <2> QED BY <2>1 DEF LateReply, Stale
<1>2. ASSUME NEW r \in Request, Store(r) PROVE Goal
  <2>1. /\ pc[r] = "store" /\ pc'[r] = "replied" /\ req[r].key \in Key
        /\ \A s \in Request \ {r} : pc'[s] = pc[s] /\ req'[s] = req[s]
        /\ cache' \in {cache, [cache EXCEPT ![req[r].key] = req[r].seen]}
    BY <1>2, AtFacts DEF Store, TypeInv, RequestsNamed
  <2>2. \A k \in Key : Stale(k)' /\ ~Stale(k) => k = req[r].key /\ LateReply(r)
    BY <2>1 DEF Stale, LateReply, TypeInv, CacheTypeOK
  <2> QED BY <2>1, <2>2 DEF LateReply
<1>3. ASSUME NEW r \in Request, NEW k \in Key, Hit(r, k) \/ Miss(r, k) PROVE Goal
  BY <1>3, <1>m DEF Hit, Miss, Pc
<1>4. ASSUME NEW r \in Request,
             \/ AskFails(r) \/ EndGet(r) \/ RefuseMutation(r) \/ Scan(r)
             \/ EndMutation(r) \/ InvalidationFails(r)
      PROVE  Goal
  BY <1>4, <1>m DEF AskFails, EndGet, RefuseMutation, Scan, EndMutation,
                    InvalidationFails, Answer, Done, Pc
<1>5. ASSUME NEW r \in Request, NEW p \in Prefix, StartMutation(r, p) PROVE Goal
  BY <1>5, <1>m DEF StartMutation, Pc
<1>6. ASSUME NEW r \in Request, Mutate(r) PROVE Goal
  BY <1>6, <1>m DEF Mutate, Done, Pc
<1>7. ASSUME NEW r \in Request, NEW k \in Key, DeleteEntry(r, k) PROVE Goal
  <2>1. \A c \in Key : cache'[c] \in {cache[c], NoEntry}
    BY <1>7 DEF DeleteEntry, TypeInv, CacheTypeOK
  <2> QED BY <1>7, <2>1, <1>m DEF DeleteEntry, Pc
<1>8. ASSUME NEW k \in Key, Expire(k) PROVE Goal
  BY <1>8 DEF Expire, TypeInv, CacheTypeOK, LateReply, Stale
<1> QED BY <1>1, <1>2, <1>3, <1>4, <1>5, <1>6, <1>7, <1>8 DEF Next, Step

\* Whatever overlaps, is lost or is stored too late: once the data no longer change,
\* staleness does not spread.
THEOREM LateOnlyMovesTheorem == Spec => LateOnlyMoves
<1>1. TypeInv /\ [Next]_vars => [LateMoves]_vars
  BY LateStep
<1>2. Spec => [][LateMoves]_vars
  BY <1>1, TypeInit, TypeNext, PTL DEF Spec
<1> QED BY <1>2 DEF LateOnlyMoves, LateMoves

=============================================================================
