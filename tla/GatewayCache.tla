---------------------------- MODULE GatewayCache ----------------------------
(***************************************************************************)
(* The gateway's response cache in front of the services.  A GET looks in  *)
(* Redis, asks the service if it finds nothing, and stores the reply; a    *)
(* mutation that succeeds deletes the entries of its own path prefix, key  *)
(* by key as SCAN yields them.  Handlers run concurrently, and Redis drops *)
(* entries when their time is over.                                        *)
(***************************************************************************)
EXTENDS Integers, FiniteSets

CONSTANTS
  Key,          \* cached URLs (path and query)
  Prefix,       \* the gateway's targets
  PrefixOf,     \* the target that serves a URL
  Data,         \* what the services store
  DataOf,       \* the data that the reply to a URL shows
  Touches,      \* the data that a mutation under a prefix changes
  Request,      \* requests in the gateway
  None,         \* "no such value"
  MaxVersion,   \* bound on the number of changes of one datum
  Discipline,   \* what the clients promise (see Quiet)
  Faults        \* what may go wrong

ASSUME CacheAssumption ==
  /\ PrefixOf \in [Key -> Prefix]
  /\ DataOf \in [Key -> Data]
  /\ Touches \in [Prefix -> SUBSET Data]
  /\ MaxVersion \in Nat
  /\ Discipline \subseteq {"quiet"}
  /\ Faults \subseteq {"redis", "late_error"}
  /\ None \notin Key \cup Prefix

Version == 0..MaxVersion
NoEntry == -1

VARIABLES
  version,   \* how often each datum has changed
  answered,  \* the latest version whose mutation the gateway has answered
  cache,     \* per URL, the version its entry shows, or NoEntry
  pc, req    \* per request: where it is, and its locals

vars == <<version, answered, cache, pc, req>>

Pc == {"idle", "ask", "store", "replied", "mutate", "scan", "delete"}
Req == [key : Key \cup {None}, prefix : Prefix \cup {None},
        seen : Version \cup {NoEntry},   \* the version that the reply shows
        since : Version,                 \* what had been answered when it arrived
        made : [Data -> Version],        \* the versions that the mutation has made
        found : SUBSET Key]              \* entries that SCAN is bound to yield

NoReq == [key |-> None, prefix |-> None, seen |-> NoEntry, since |-> 0,
          made |-> [d \in Data |-> 0], found |-> {}]

CacheTypeOK ==
  /\ version \in [Data -> Version]
  /\ answered \in [Data -> Version]
  /\ cache \in [Key -> Version \cup {NoEntry}]
  /\ pc \in [Request -> Pc]
  /\ req \in [Request -> Req]
  /\ \A r \in Request : pc[r] \in {"store", "replied"} => req[r].seen # NoEntry

Init ==
  /\ version = [d \in Data |-> 0]
  /\ answered = [d \in Data |-> 0]
  /\ cache = [k \in Key |-> NoEntry]
  /\ pc = [r \in Request |-> "idle"]
  /\ req = [r \in Request |-> NoReq]

-----------------------------------------------------------------------------
Keys(p) == {k \in Key : PrefixOf[k] = p}

At(r, where, q) ==
  /\ pc' = [pc EXCEPT ![r] = where]
  /\ req' = [req EXCEPT ![r] = q]

Done(r) == At(r, "idle", NoReq)

Getting(r, d) == pc[r] \in {"ask", "store"} /\ DataOf[req[r].key] = d
Mutating(r, d) == pc[r] = "mutate" /\ d \in Touches[req[r].prefix]

\* The clients may promise that no GET that asks a service overlaps with a
\* mutation, as long as the mutation is in the service.
QuietForGet(d) == "quiet" \in Discipline => ~\E r \in Request : Mutating(r, d)
QuietForMutation(p) ==
  "quiet" \in Discipline => ~\E r \in Request, d \in Touches[p] : Getting(r, d)

-----------------------------------------------------------------------------
(* handler, for a GET.                                                     *)

\* Mutant: that nothing was found is not looked at.
HitUnchecked(r, k) ==
  /\ pc[r] = "idle"
  /\ At(r, "replied", [NoReq EXCEPT !.key = k, !.seen = cache[k],
                                    !.since = answered[DataOf[k]]])
  /\ UNCHANGED <<version, answered, cache>>

Hit(r, k) ==
  /\ pc[r] = "idle"
  /\ cache[k] # NoEntry
  /\ At(r, "replied", [NoReq EXCEPT !.key = k, !.seen = cache[k],
                                    !.since = answered[DataOf[k]]])
  /\ UNCHANGED <<version, answered, cache>>

\* An error of Redis counts as a miss.
Miss(r, k) ==
  /\ pc[r] = "idle"
  /\ cache[k] = NoEntry \/ "redis" \in Faults
  /\ QuietForGet(DataOf[k])
  /\ At(r, "ask", [NoReq EXCEPT !.key = k, !.since = answered[DataOf[k]]])
  /\ UNCHANGED <<version, answered, cache>>

\* The service reads, and the proxy passes on and records its reply.
AskService(r) ==
  /\ pc[r] = "ask"
  /\ At(r, "store", [req[r] EXCEPT !.seen = version[DataOf[req[r].key]]])
  /\ UNCHANGED <<version, answered, cache>>

\* A reply with an error status is not stored, nor is one when Redis fails.
AskFails(r) ==
  /\ pc[r] = "ask"
  /\ Done(r)
  /\ UNCHANGED <<version, answered, cache>>

Store(r) ==
  /\ pc[r] = "store"
  /\ \/ cache' = [cache EXCEPT ![req[r].key] = req[r].seen]
     \/ "redis" \in Faults /\ UNCHANGED cache
  /\ At(r, "replied", req[r])
  /\ UNCHANGED <<version, answered>>

EndGet(r) ==
  /\ pc[r] = "replied"
  /\ Done(r)
  /\ UNCHANGED <<version, answered, cache>>

-----------------------------------------------------------------------------
(* handler, for a POST, PUT or DELETE.                                     *)

StartMutation(r, p) ==
  /\ pc[r] = "idle"
  /\ QuietForMutation(p)
  /\ At(r, "mutate", [NoReq EXCEPT !.prefix = p])
  /\ UNCHANGED <<version, answered, cache>>

\* The service changes its data.  It may still reply with an error, and then
\* nothing is invalidated.
Mutate(r) ==
  /\ pc[r] = "mutate"
  /\ \A d \in Touches[req[r].prefix] : version[d] < MaxVersion
  /\ version' = [d \in Data |-> IF d \in Touches[req[r].prefix]
                                  THEN version[d] + 1 ELSE version[d]]
  /\ \/ At(r, "scan", [req[r] EXCEPT !.made = [d \in Data |->
             IF d \in Touches[req[r].prefix] THEN version'[d] ELSE 0]])
     \/ "late_error" \in Faults /\ Done(r)
  /\ UNCHANGED <<answered, cache>>

RefuseMutation(r) ==
  /\ pc[r] = "mutate"
  /\ Done(r)
  /\ UNCHANGED <<version, answered, cache>>

\* Mutant: the entry of one URL is enough.
ScanOne(r) ==
  /\ pc[r] = "scan"
  /\ \E k \in Keys(req[r].prefix) : At(r, "delete", [req[r] EXCEPT !.found = {k}])
  /\ UNCHANGED <<version, answered, cache>>

\* SCAN yields what is there from its start to its end.
Scan(r) ==
  /\ pc[r] = "scan"
  /\ At(r, "delete", [req[r] EXCEPT
        !.found = {k \in Keys(req[r].prefix) : cache[k] # NoEntry}])
  /\ UNCHANGED <<version, answered, cache>>

\* It may also yield what came meanwhile.
DeleteEntry(r, k) ==
  /\ pc[r] = "delete"
  /\ k \in Keys(req[r].prefix)
  /\ k \in req[r].found \/ cache[k] # NoEntry
  /\ cache' = [cache EXCEPT ![k] = NoEntry]
  /\ At(r, "delete", [req[r] EXCEPT !.found = @ \ {k}])
  /\ UNCHANGED <<version, answered>>

Answer(r) ==
  /\ answered' = [d \in Data |-> IF req[r].made[d] > answered[d]
                                   THEN req[r].made[d] ELSE answered[d]]
  /\ Done(r)
  /\ UNCHANGED <<version, cache>>

EndMutation(r) ==
  /\ pc[r] = "delete"
  /\ req[r].found = {}
  /\ Answer(r)

\* An error of Redis, or a client that has gone, ends the invalidation.
InvalidationFails(r) ==
  /\ "redis" \in Faults
  /\ pc[r] \in {"scan", "delete"}
  /\ Answer(r)

-----------------------------------------------------------------------------
\* Mutant: an entry lives as long as it is asked for.
ExpireUnused(k) ==
  /\ cache[k] # NoEntry
  /\ ~\E r \in Request : pc[r] = "replied" /\ req[r].key = k
  /\ cache' = [cache EXCEPT ![k] = NoEntry]
  /\ UNCHANGED <<version, answered, pc, req>>

\* The entry's time to live is over; it runs from the Set and not from a hit.
Expire(k) ==
  /\ cache[k] # NoEntry
  /\ cache' = [cache EXCEPT ![k] = NoEntry]
  /\ UNCHANGED <<version, answered, pc, req>>

Step(r) ==
  \/ AskService(r) \/ AskFails(r) \/ Store(r) \/ EndGet(r)
  \/ Mutate(r) \/ RefuseMutation(r) \/ Scan(r) \/ EndMutation(r) \/ InvalidationFails(r)
  \/ \E k \in Key : DeleteEntry(r, k)

Next ==
  \/ \E r \in Request :
       \/ Step(r)
       \/ \E k \in Key : Hit(r, k) \/ Miss(r, k)
       \/ \E p \in Prefix : StartMutation(r, p)
  \/ \E k \in Key : Expire(k)

Spec == Init /\ [][Next]_vars

\* Handlers are scheduled, and Redis lets entries expire.
FairSpec ==
  /\ Spec
  /\ \A r \in Request : WF_vars(Step(r))
  /\ \A k \in Key : WF_vars(Expire(k))

-----------------------------------------------------------------------------
\* gateway/main.go:186, "Invalidate all GET cache entries for this service prefix":
\* an entry that no longer shows what the service stores is about to be deleted.
Stale(k) == cache[k] # NoEntry /\ cache[k] # version[DataOf[k]]

StaleIsDoomed ==
  \A k \in Key : Stale(k) =>
     \E r \in Request : \/ pc[r] = "scan" /\ req[r].prefix = PrefixOf[k]
                        \/ pc[r] = "delete" /\ k \in req[r].found

\* gateway/main.go:182, "Invalidate cache on successful mutations": a GET that
\* arrives after a mutation was answered shows its effect, or that of a later one.
ReadsSeeAnswered ==
  \A r \in Request : pc[r] = "replied" => req[r].seen >= req[r].since

\* Once the data no longer change, the cache ends up showing nothing but what the
\* services store, whatever was missed, lost or stored too late.
FreshInTheEnd == <>[](\A k \in Key : ~Stale(k))

=============================================================================
