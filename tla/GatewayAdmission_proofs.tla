----------------------- MODULE GatewayAdmission_proofs -----------------------
(***************************************************************************)
(* Proofs about GatewayAdmission.  What has been served in a window and    *)
(* what is left in the bucket add up to at most what the window allows; in *)
(* the window that began when the bucket was last full, to exactly that.   *)
(* A token expires within the last second of its time to live, and what is *)
(* in the gateway came with one that has not.                              *)
(***************************************************************************)
EXTENDS GatewayAdmission, TLAPS

USE AdmissionAssumption

Inside(r) == pc[r] \in {"limiter", "served"} /\ job[r].target \notin Open

\* Nothing but the bucket's own refill, and a restart, adds to what may still be served.
Spent(l) ==
  LET s == ServiceOf(l) IN
  Limited(s) => window[s].served + level[l] <=
                  Capacity(s) * (1 + window[s].starts) + Rate(s) * (now - window[s].at)

SpentExactly(l) ==
  LET s == ServiceOf(l) IN
  Limited(s) => full[l].served + level[l] = Capacity(s) + Rate(s) * (now - full[l].at)

ExpiresOnTime(tok) == tok.exp <= tok.at + Ttl /\ tok.at + Ttl < tok.exp + Second

CameWithToken(r) ==
  Inside(r) => /\ job[r].token \in tokens
                /\ job[r].token.by = gatewayEnv
                /\ job[r].at < job[r].token.at + Ttl

BucketInv == \A l \in Limiter : Spent(l) /\ SpentExactly(l)
TokenInv == /\ \A tok \in tokens : ExpiresOnTime(tok)
            /\ \A r \in Request : CameWithToken(r)

\* A service has one limiter, whichever of its targets a request is for.
LEMMA OneLimiter ==
  /\ \A t \in Served : LimiterOf(t) \in Limiter /\ ServiceOf(t) \in Service
  /\ \A t \in Served : ServiceOf(LimiterOf(t)) = ServiceOf(t)
  /\ \A l \in Limiter : ServiceOf(l) \in Service
  /\ \A l, m \in Limiter : ServiceOf(l) = ServiceOf(m) => l = m
<1>1. \A t \in Target : ServiceOf(LimiterOf(t)) = ServiceOf(t)
  BY DEF Target, ServiceOf, LimiterOf
<1>2. \A t, u \in Target : ServiceOf(t) = ServiceOf(u) => LimiterOf(t) = LimiterOf(u)
  BY DEF Target, ServiceOf, LimiterOf
<1>3. Limiter = {LimiterOf(t) : t \in Served} /\ Service = {ServiceOf(t) : t \in Served}
  BY DEF Limiter, Service
<1> QED
  BY <1>1, <1>2, <1>3

LEMMA RateType == \A s \in Service : Rate(s) \in Nat
  BY DEF Rate, IsEnv

LEMMA CapacityType == \A s \in Service : Capacity(s) \in Nat
<1> SUFFICES ASSUME NEW s \in Service PROVE Capacity(s) \in Nat
  OBVIOUS
<1> DEFINE q == (2 * Second * Rate(s) + Cost - 1) \div Cost
<1>1. Rate(s) \in Nat
  BY RateType
<1>2. 2 * Second * Rate(s) + Cost - 1 \in Int
  BY <1>1
<1>3. q \in Int
  BY <1>2
<1>4. Burst(s) = IF q < 1 THEN 1 ELSE q
  BY DEF Burst
<1> HIDE DEF q
<1>5. Burst(s) \in Nat
  BY <1>3, <1>4
<1> QED
  BY <1>5 DEF Capacity

LEMMA TtlType == Ttl \in Nat
<1> DEFINE s == IF TtlEnv = <<>> \/ TtlEnv[1] < 0 THEN DefaultTtl ELSE TtlEnv[1]
<1>1. s \in Nat
  BY DEF IsEnv
<1> QED
  BY <1>1 DEF Ttl

LEMMA RefilledType ==
  ASSUME NEW l \in Limiter, NEW s \in Service, s = ServiceOf(l),
         level[l] \in Nat, level[l] <= Capacity(s)
  PROVE  /\ Refilled(l) \in Nat /\ Refilled(l) <= Capacity(s)
         /\ Refilled(l) <= level[l] + Rate(s)
         /\ Refilled(l) # Capacity(s) => Refilled(l) = level[l] + Rate(s)
  BY RateType, CapacityType DEF Refilled

\* A restart allows one burst more.
LEMMA Another ==
  ASSUME NEW k \in Nat, NEW n \in Nat
  PROVE  k * (1 + (n + 1)) = k * (1 + n) + k /\ k * (1 + n) \in Nat
  OBVIOUS

\* A window that is a tick longer allows one refill more.
LEMMA Longer ==
  ASSUME NEW k \in Nat, NEW t \in Nat, NEW at \in Nat, at <= t
  PROVE  k * ((t + 1) - at) = k * (t - at) + k
  OBVIOUS

-----------------------------------------------------------------------------
LEMMA TypeInit == Init => AdmissionTypeOK
<1> SUFFICES ASSUME Init PROVE AdmissionTypeOK
  OBVIOUS
<1>1. 0 \in Time
  BY DEF Time
<1>2. NoJob \in Job /\ From(0) \in Count /\ Opened(0) \in Window
  BY <1>1 DEF NoJob, Job, From, Count, Opened, Window
<1>3. level \in [Limiter -> Nat] /\ \A l \in Limiter : level[l] <= Capacity(ServiceOf(l))
  <2>1. \A l \in Limiter : Capacity(ServiceOf(l)) \in Nat
    BY CapacityType, OneLimiter
  <2> QED
    BY <2>1 DEF Init
<1> QED
  BY <1>1, <1>2, <1>3 DEF Init, AdmissionTypeOK, From, Opened

\* Admit takes the cost of a request from the bucket that it finds.
LEMMA AdmitFacts ==
  ASSUME AdmissionTypeOK, NEW r \in Request, Admit(r)
  PROVE  /\ level' \in [Limiter -> Nat]
         /\ window' \in [Service -> Window] /\ full' \in [Limiter -> Count]
         /\ \A s \in Service : window'[s].at = window[s].at
                               /\ window'[s].starts = window[s].starts
         /\ \A l \in Limiter :
              /\ level'[l] <= level[l] /\ full'[l].at = full[l].at
              /\ full'[l].served + level'[l] = full[l].served + level[l]
              /\ window'[ServiceOf(l)].served + level'[l]
                   = window[ServiceOf(l)].served + level[l]
<1>1. PICK m \in Limiter, u \in Service :
         m = LimiterOf(job[r].target) /\ u = ServiceOf(job[r].target) /\ u = ServiceOf(m)
  BY OneLimiter DEF Admit, AdmissionTypeOK
<1>2. /\ window \in [Service -> Window] /\ full \in [Limiter -> Count]
      /\ level \in [Limiter -> Nat]
  BY DEF AdmissionTypeOK
<1>3. \A l \in Limiter : ServiceOf(l) \in Service
  BY OneLimiter
<1>4. CASE UNCHANGED <<level, window, full>>
  BY <1>2, <1>3, <1>4
<1>5. CASE /\ level[m] >= Cost
           /\ level' = [level EXCEPT ![m] = level[m] - Cost]
           /\ window' = Counted(window, u) /\ full' = Counted(full, m)
  <2>1. /\ window' \in [Service -> Window]
        /\ \A s \in Service : window'[s].at = window[s].at /\ window'[s].starts = window[s].starts
        /\ \A s \in Service \ {u} : window'[s] = window[s]
        /\ window'[u].served = window[u].served + Cost
    BY <1>2, <1>5 DEF Counted, Window
  <2>2. /\ full' \in [Limiter -> Count]
        /\ \A l \in Limiter : full'[l].at = full[l].at
        /\ \A l \in Limiter \ {m} : full'[l] = full[l]
        /\ full'[m].served = full[m].served + Cost
    BY <1>2, <1>5 DEF Counted, Count
  <2>3. /\ level' \in [Limiter -> Nat]
        /\ \A l \in Limiter \ {m} : level'[l] = level[l]
        /\ level'[m] = level[m] - Cost
    BY <1>2, <1>5
  <2>4. ASSUME NEW l \in Limiter
        PROVE  /\ level'[l] <= level[l]
               /\ full'[l].served + level'[l] = full[l].served + level[l]
               /\ window'[ServiceOf(l)].served + level'[l]
                    = window[ServiceOf(l)].served + level[l]
    <3>1. PICK s \in Service : s = ServiceOf(l)
      BY <1>3
    <3>2. window[s].served \in Nat /\ full[l].served \in Nat /\ level[l] \in Nat
      BY <1>2 DEF Count, Window
    <3>3. CASE l = m
      BY <3>1, <3>2, <3>3, <1>1, <2>1, <2>2, <2>3
    <3>4. CASE l # m
      <4>1. s # u
        BY <3>1, <3>4, <1>1, OneLimiter
      <4> QED
        BY <3>1, <3>2, <3>4, <4>1, <2>1, <2>2, <2>3
    <3> QED
      BY <3>3, <3>4
  <2> QED
    BY <2>1, <2>2, <2>3, <2>4
<1> QED
  BY <1>1, <1>4, <1>5 DEF Admit

LEMMA TypeNext == AdmissionTypeOK /\ [Next]_vars => AdmissionTypeOK'
<1> SUFFICES ASSUME AdmissionTypeOK, [Next]_vars PROVE AdmissionTypeOK'
  OBVIOUS
<1>j. NoJob \in Job
  BY DEF NoJob, Job, Time
<1>1. ASSUME NEW r \in Request, NEW t \in Served, Arrive(r, t) PROVE AdmissionTypeOK'
  <2>1. \A tok \in tokens \cup {None} :
          [target |-> t, token |-> tok, at |-> now] \in Job
    BY DEF AdmissionTypeOK, Job
  <2>2. PICK tok \in tokens \cup {None} : Accept(r, t, tok)
    BY <1>1 DEF Arrive
  <2>3. job' \in [Request -> Job] /\ pc' \in [Request -> {"idle", "limiter", "served", "limited"}]
    BY <2>1, <2>2 DEF Accept, AdmissionTypeOK
  <2>4. \A s \in Request : pc'[s] # "idle" => job'[s].target \in Served
    BY <2>2 DEF Accept, AdmissionTypeOK
  <2> QED
    BY <1>1, <2>3, <2>4 DEF Arrive, AdmissionTypeOK
<1>2. ASSUME NEW r \in Request, Admit(r) PROVE AdmissionTypeOK'
  <2>1. \A l \in Limiter : level'[l] <= Capacity(ServiceOf(l))
    <3>1. \A l \in Limiter : Capacity(ServiceOf(l)) \in Nat
      BY CapacityType, OneLimiter
    <3> QED
      BY <1>2, <3>1, AdmitFacts DEF AdmissionTypeOK
  <2>2. now' = now /\ \A s \in Service : window'[s].at <= now'
    BY <1>2, AdmitFacts DEF Admit, AdmissionTypeOK
  <2>3. \A l \in Limiter : full'[l].at <= now'
    BY <1>2, AdmitFacts DEF Admit, AdmissionTypeOK
  <2> QED
    BY <1>2, <2>1, <2>2, <2>3, AdmitFacts DEF Admit, AdmissionTypeOK
<1>3. ASSUME NEW r \in Request, Refuse(r) PROVE AdmissionTypeOK'
  BY <1>3 DEF Refuse, AdmissionTypeOK
<1>4. ASSUME NEW r \in Request, Reply(r) PROVE AdmissionTypeOK'
  BY <1>4, <1>j DEF Reply, Finish, AdmissionTypeOK
<1>5. ASSUME NEW r \in Request, LoginHandler(r) PROVE AdmissionTypeOK'
  <2>1. PICK e \in 0..(now + Ttl + Second) :
          tokens' = tokens \cup {[by |-> authEnv, at |-> now, exp |-> e]}
    BY <1>5 DEF LoginHandler
  <2>2. e \in Nat
    BY TtlType DEF AdmissionTypeOK, Time
  <2>3. tokens' \subseteq Token
    BY <2>1, <2>2 DEF AdmissionTypeOK, Token
  <2> QED
    BY <1>5, <1>j, <2>3 DEF LoginHandler, Finish, AdmissionTypeOK
<1>6. CASE Tick
  <2>1. now' \in Time /\ now' = now + 1
    BY <1>6 DEF Tick, AdmissionTypeOK, Time
  <2>2. level' \in [Limiter -> Nat] /\ \A l \in Limiter : level'[l] <= Capacity(ServiceOf(l))
    <3>1. \A l \in Limiter : Refilled(l) \in Nat /\ Refilled(l) <= Capacity(ServiceOf(l))
      BY RefilledType, OneLimiter DEF AdmissionTypeOK
    <3> QED
      BY <1>6, <3>1 DEF Tick
  <2>3. From(now') \in Count /\ From(now').at = now'
    BY <2>1 DEF From, Count
  <2>4. full' \in [Limiter -> Count]
    BY <1>6, <2>3 DEF Tick, AdmissionTypeOK
  <2>5. \A l \in Limiter : full'[l].at <= now'
    <3>1. ASSUME NEW l \in Limiter PROVE full'[l].at <= now'
      <4>1. full'[l] = IF Refilled(l) = Capacity(ServiceOf(l)) THEN From(now') ELSE full[l]
        BY <1>6 DEF Tick
      <4>2. full[l].at \in Time /\ full[l].at <= now /\ now \in Time
        BY DEF AdmissionTypeOK, Count
      <4> QED
        BY <4>1, <4>2, <2>1, <2>3 DEF Time
    <3> QED BY <3>1
  <2>6. \A s \in Service : window[s].at <= now'
    BY <2>1 DEF AdmissionTypeOK, Window, Time
  <2> QED
    BY <1>6, <2>1, <2>2, <2>4, <2>5, <2>6 DEF Tick, AdmissionTypeOK
<1>7. CASE RestartGateway
  <2>1. From(now) \in Count /\ From(now).at <= now
    BY DEF From, Count, AdmissionTypeOK, Time
  <2>2. level' \in [Limiter -> Nat] /\ \A l \in Limiter : level'[l] <= Capacity(ServiceOf(l))
    <3>1. \A l \in Limiter : Capacity(ServiceOf(l)) \in Nat
      BY CapacityType, OneLimiter
    <3> QED
      BY <1>7, <3>1 DEF RestartGateway
  <2>3. /\ window' \in [Service -> Window]
        /\ \A s \in Service : window'[s].at = window[s].at
    BY <1>7 DEF RestartGateway, AdmissionTypeOK, Window
  <2> QED
    BY <1>7, <1>j, <2>1, <2>2, <2>3 DEF RestartGateway, AdmissionTypeOK
<1>8. CASE RestartAuth
  BY <1>8 DEF RestartAuth, AdmissionTypeOK
<1>9. CASE Observe
  <2>1. Opened(now) \in Window /\ Opened(now).at <= now
    BY DEF Opened, Window, AdmissionTypeOK, Time
  <2> QED
    BY <1>9, <2>1 DEF Observe, AdmissionTypeOK
<1>10. CASE UNCHANGED vars
  BY <1>10 DEF vars, AdmissionTypeOK
<1> QED
  BY <1>1, <1>2, <1>3, <1>4, <1>5, <1>6, <1>7, <1>8, <1>9, <1>10 DEF Next

\* Type correctness of the gateway's admission, for any rates and settings.
THEOREM AdmissionTypes == Spec => []AdmissionTypeOK
  BY TypeInit, TypeNext, PTL DEF Spec

-----------------------------------------------------------------------------
LEMMA BucketInit == Init => BucketInv
<1> SUFFICES ASSUME Init, NEW l \in Limiter PROVE Spent(l) /\ SpentExactly(l)
  BY DEF BucketInv
<1>0. PICK s \in Service : s = ServiceOf(l)
  BY OneLimiter
<1>1. /\ now = 0 /\ level[l] = Capacity(s)
      /\ window[s].at = 0 /\ window[s].served = 0 /\ window[s].starts = 0
      /\ full[l].at = 0 /\ full[l].served = 0
  BY <1>0 DEF Init, From, Opened
<1> QED
  BY <1>0, <1>1, CapacityType, RateType DEF Spent, SpentExactly

\* What the step does to one bucket, and to its service, is all that matters.
LEMMA BucketNext == AdmissionTypeOK /\ BucketInv /\ [Next]_vars => BucketInv'
<1> SUFFICES ASSUME AdmissionTypeOK, BucketInv, [Next]_vars, NEW l \in Limiter
             PROVE  Spent(l)' /\ SpentExactly(l)'
  BY DEF BucketInv
<1>s. PICK s \in Service : s = ServiceOf(l)
  BY OneLimiter
<1>p. PICK R \in Nat, K \in Nat : R = Rate(s) /\ K = Capacity(s)
  BY RateType, CapacityType
<1>t. /\ now \in Nat /\ level[l] \in Nat /\ level[l] <= K
      /\ window[s].at \in Nat /\ window[s].served \in Nat /\ window[s].starts \in Nat
      /\ window[s].at <= now
      /\ full[l].at \in Nat /\ full[l].served \in Nat /\ full[l].at <= now
  BY <1>s, <1>p DEF AdmissionTypeOK, Count, Window, Time
<1> DEFINE Spend(t, a, n, srv, lev) == srv + lev <= K * (1 + n) + R * (t - a)
           Exact(t, a, srv, lev) == srv + lev = K + R * (t - a)
<1>i. Limited(s) => /\ Spend(now, window[s].at, window[s].starts, window[s].served, level[l])
                    /\ Exact(now, full[l].at, full[l].served, level[l])
  BY <1>s, <1>p DEF BucketInv, Spent, SpentExactly
<1>g. SUFFICES ASSUME Limited(s)
               PROVE  /\ Spend(now', window'[s].at, window'[s].starts, window'[s].served,
                               level'[l])
                      /\ Exact(now', full'[l].at, full'[l].served, level'[l])
  BY <1>s, <1>p DEF Spent, SpentExactly
<1>0. /\ From(now).at = now /\ From(now).served = 0
      /\ From(now').at = now' /\ From(now').served = 0
      /\ Opened(now).at = now /\ Opened(now).served = 0 /\ Opened(now).starts = 0
  BY DEF From, Opened
<1>1. CASE UNCHANGED <<now, level, window, full>>
  BY <1>1, <1>i, <1>g
<1>2. ASSUME NEW r \in Request, Admit(r)
      PROVE  /\ Spend(now', window'[s].at, window'[s].starts, window'[s].served, level'[l])
             /\ Exact(now', full'[l].at, full'[l].served, level'[l])
  <2>1. now' = now
    BY <1>2 DEF Admit
  <2>2. /\ window'[s].at = window[s].at /\ full'[l].at = full[l].at
        /\ window'[s].starts = window[s].starts
        /\ window'[s].served + level'[l] = window[s].served + level[l]
        /\ full'[l].served + level'[l] = full[l].served + level[l]
    BY <1>2, <1>s, AdmitFacts
  <2> QED
    BY <2>1, <2>2, <1>i, <1>g
<1>3. CASE Tick
  <2>1. /\ now' = now + 1 /\ window' = window
        /\ level'[l] = Refilled(l)
        /\ full'[l] = IF Refilled(l) = K THEN From(now') ELSE full[l]
    BY <1>3, <1>s, <1>p DEF Tick
  <2>2. /\ Refilled(l) \in Nat /\ Refilled(l) <= level[l] + R
        /\ Refilled(l) # K => Refilled(l) = level[l] + R
    BY <1>s, <1>p, <1>t, RefilledType
  <2>3. Spend(now', window'[s].at, window'[s].starts, window'[s].served, level'[l])
    <3>1. R * ((now + 1) - window[s].at) = R * (now - window[s].at) + R
      BY <1>t, Longer
    <3>2. R * (now - window[s].at) \in Int
      BY <1>t
    <3>3. K * (1 + window[s].starts) \in Nat
      BY <1>t, Another
    <3>4. window[s].served + level[l] <= K * (1 + window[s].starts) + R * (now - window[s].at)
      BY <1>i, <1>g
    <3>5. window[s].served + Refilled(l)
            <= K * (1 + window[s].starts) + R * ((now + 1) - window[s].at)
      BY <3>1, <3>2, <3>3, <3>4, <2>2, <1>t
    <3> QED
      BY <3>5, <2>1
  <2>4. Exact(now', full'[l].at, full'[l].served, level'[l])
    <3>1. CASE Refilled(l) = K
      <4>1. level'[l] = K /\ full'[l].at = now' /\ full'[l].served = 0
        BY <3>1, <2>1, <1>0
      <4>2. R * (now' - now') = 0 /\ now' \in Nat
        BY <2>1, <1>t
      <4> QED
        BY <4>1, <4>2
    <3>2. CASE Refilled(l) # K
      <4>1. R * ((now + 1) - full[l].at) = R * (now - full[l].at) + R
        BY <1>t, Longer
      <4>2. R * (now - full[l].at) \in Int
        BY <1>t
      <4>3. full[l].served + level[l] = K + R * (now - full[l].at)
        BY <1>i, <1>g
      <4>4. full[l].served + Refilled(l) = K + R * ((now + 1) - full[l].at)
        BY <3>2, <4>1, <4>2, <4>3, <2>2, <1>t
      <4> QED
        BY <3>2, <4>4, <2>1
    <3> QED BY <3>1, <3>2
  <2> QED BY <2>3, <2>4
<1>4. CASE RestartGateway
  <2>1. /\ now' = now /\ level'[l] = K /\ full'[l] = From(now)
        /\ window'[s].at = window[s].at /\ window'[s].served = window[s].served
        /\ window'[s].starts = window[s].starts + 1
    BY <1>4, <1>s, <1>p DEF RestartGateway, AdmissionTypeOK, Window
  <2>2. R * (now - now) = 0 /\ R * (now - window[s].at) \in Int
    BY <1>t
  <2>3. /\ K * (1 + (window[s].starts + 1)) = K * (1 + window[s].starts) + K
        /\ K * (1 + window[s].starts) \in Nat
    BY <1>t, Another
  <2>4. window[s].served + level[l] <= K * (1 + window[s].starts) + R * (now - window[s].at)
    BY <1>i, <1>g
  <2>5. window[s].served + K <= K * (1 + (window[s].starts + 1)) + R * (now - window[s].at)
    BY <2>2, <2>3, <2>4, <1>t
  <2> QED
    BY <2>1, <2>2, <2>5, <1>0, <1>t
<1>5. CASE Observe
  <2>1. /\ now' = now /\ level' = level /\ full' = full
        /\ window'[s] = Opened(now)
    BY <1>5 DEF Observe
  <2>2. R * (now - now) = 0 /\ K * (1 + 0) = K
    BY <1>t
  <2> QED
    BY <2>1, <2>2, <1>0, <1>t, <1>i, <1>g
<1> QED
  BY <1>1, <1>2, <1>3, <1>4, <1>5
  DEF Next, vars, Arrive, Refuse, Reply, LoginHandler, RestartAuth

LEMMA BucketAlways == Spec => [](AdmissionTypeOK /\ BucketInv)
<1>1. AdmissionTypeOK /\ BucketInv /\ [Next]_vars => (AdmissionTypeOK /\ BucketInv)'
  BY TypeNext, BucketNext
<1> QED
  BY <1>1, TypeInit, BucketInit, PTL DEF Spec

\* However requests overlap and an observer begins to count, a service is sent no more
\* than its rate and one burst, and another for each restart, by all its targets.
THEOREM WithinLimitAlways == Spec => []WithinLimit
<1>1. AdmissionTypeOK /\ BucketInv => WithinLimit
  <2> SUFFICES ASSUME AdmissionTypeOK, BucketInv, NEW s \in Service, Limited(s)
               PROVE  window[s].served <= Capacity(s) * (1 + window[s].starts)
                                            + Rate(s) * (now - window[s].at)
    BY DEF WithinLimit
  <2>1. PICK l \in Limiter : s = ServiceOf(l)
    BY OneLimiter DEF Service
  <2>2. level[l] \in Nat /\ window[s].served \in Nat /\ window[s].starts \in Nat
        /\ Capacity(s) \in Nat /\ Rate(s) \in Nat /\ now \in Nat /\ window[s].at \in Nat
    BY RateType, CapacityType DEF AdmissionTypeOK, Window, Time
  <2>3. Rate(s) * (now - window[s].at) \in Int /\ Capacity(s) * (1 + window[s].starts) \in Int
    BY <2>2
  <2>4. window[s].served + level[l]
          <= Capacity(s) * (1 + window[s].starts) + Rate(s) * (now - window[s].at)
    BY <2>1 DEF BucketInv, Spent
  <2> QED
    BY <2>2, <2>3, <2>4
<1> QED
  BY <1>1, BucketAlways, PTL

\* A request is refused as one too many only when those that were served since the
\* bucket was last full have left less than it costs.
THEOREM RefusedAtLimitAlways == Spec => RefusedAtLimit
<1> DEFINE A == \A r \in Request : pc[r] = "limiter" /\ pc'[r] = "limited" =>
                  LET l == LimiterOf(job[r].target)
                      s == ServiceOf(job[r].target) IN
                    full[l].served + Cost > Capacity(s) + Rate(s) * (now - full[l].at)
<1>1. AdmissionTypeOK /\ BucketInv /\ [Next]_vars => A
  <2> SUFFICES ASSUME AdmissionTypeOK, BucketInv, [Next]_vars, NEW r \in Request,
                      pc[r] = "limiter", pc'[r] = "limited"
               PROVE  LET l == LimiterOf(job[r].target)
                          s == ServiceOf(job[r].target) IN
                        full[l].served + Cost > Capacity(s) + Rate(s) * (now - full[l].at)
    OBVIOUS
  <2>1. Refuse(r)
    <3>1. \A q \in Request, t \in Served : ~Arrive(q, t)
      BY DEF Arrive, Accept, AdmissionTypeOK
    <3>2. \A q \in Request : ~Admit(q) /\ ~Reply(q) /\ ~LoginHandler(q)
      BY DEF Admit, Reply, LoginHandler, Finish, AdmissionTypeOK
    <3>3. ~Tick /\ ~RestartGateway /\ ~RestartAuth /\ ~Observe /\ ~UNCHANGED vars
      BY DEF Tick, RestartGateway, RestartAuth, Observe, vars
    <3>4. \A q \in Request : Refuse(q) => q = r
      BY DEF Refuse, AdmissionTypeOK
    <3> QED
      BY <3>1, <3>2, <3>3, <3>4 DEF Next
  <2>2. PICK l \in Limiter, s \in Service :
           /\ l = LimiterOf(job[r].target) /\ s = ServiceOf(job[r].target)
           /\ s = ServiceOf(l)
    BY <2>1, OneLimiter DEF Refuse, AdmissionTypeOK
  <2>3. Limited(s) /\ level[l] < Cost
    BY <2>1, <2>2 DEF Refuse
  <2>4. full[l].served + level[l] = Capacity(s) + Rate(s) * (now - full[l].at)
    BY <2>2, <2>3 DEF BucketInv, SpentExactly
  <2>5. level[l] \in Nat /\ full[l].served \in Nat
    BY DEF AdmissionTypeOK, Count
  <2>6. full[l].served + Cost > full[l].served + level[l]
    BY <2>3, <2>5
  <2> QED
    BY <2>2, <2>4, <2>6
<1> QED
  BY <1>1, BucketAlways, PTL DEF Spec, RefusedAtLimit

-----------------------------------------------------------------------------
LEMMA TokenNext == AdmissionTypeOK /\ TokenInv /\ [Next]_vars => TokenInv'
<1> SUFFICES ASSUME AdmissionTypeOK, TokenInv, [Next]_vars PROVE TokenInv'
  OBVIOUS
<1>1. ASSUME UNCHANGED <<tokens, gatewayEnv, pc, job>> PROVE TokenInv'
  BY <1>1 DEF TokenInv, CameWithToken, Inside, ExpiresOnTime, Ttl
<1>2. ASSUME NEW r \in Request, NEW t \in Served, Arrive(r, t) PROVE TokenInv'
  <2>1. tokens' = tokens /\ gatewayEnv' = gatewayEnv
    BY <1>2 DEF Arrive
  <2>2. PICK tok \in tokens \cup {None} :
          Accept(r, t, tok) /\ (t \notin Open => tok \in tokens /\ CheckAuth(tok))
    BY <1>2 DEF Arrive
  <2>3. t \notin Open => tok.by = gatewayEnv /\ now < tok.at + Ttl
    <3> SUFFICES ASSUME t \notin Open PROVE tok.by = gatewayEnv /\ now < tok.at + Ttl
      OBVIOUS
    <3>1. tok \in Token /\ CheckAuth(tok) /\ ExpiresOnTime(tok)
      BY <2>2 DEF AdmissionTypeOK, TokenInv
    <3> QED
      BY <3>1, TtlType DEF CheckAuth, ExpiresOnTime, Token, Time, AdmissionTypeOK
  <2>4. \A s \in Request : CameWithToken(s)'
    BY <2>1, <2>2, <2>3
    DEF Accept, CameWithToken, Inside, TokenInv, AdmissionTypeOK, Ttl
  <2> QED
    BY <2>1, <2>4 DEF TokenInv, ExpiresOnTime, Ttl
<1>3. ASSUME NEW r \in Request, Admit(r) \/ Refuse(r) \/ Reply(r) PROVE TokenInv'
  <2>1. /\ tokens' = tokens /\ gatewayEnv' = gatewayEnv
        /\ \A s \in Request : Inside(s)' => Inside(s) /\ job'[s] = job[s]
    BY <1>3 DEF Admit, Refuse, Reply, Finish, Inside, AdmissionTypeOK
  <2> QED
    BY <2>1 DEF TokenInv, CameWithToken, ExpiresOnTime, Ttl
<1>4. ASSUME NEW r \in Request, LoginHandler(r) PROVE TokenInv'
  <2>1. PICK e \in 0..(now + Ttl + Second) :
          Expiry(e) /\ tokens' = tokens \cup {[by |-> authEnv, at |-> now, exp |-> e]}
    BY <1>4 DEF LoginHandler
  <2>2. /\ gatewayEnv' = gatewayEnv
        /\ \A s \in Request : Inside(s)' => Inside(s) /\ job'[s] = job[s]
    BY <1>4 DEF LoginHandler, Finish, Inside, AdmissionTypeOK
  <2>3. \A tok \in tokens' : ExpiresOnTime(tok)
    BY <2>1 DEF Expiry, ExpiresOnTime, TokenInv
  <2> QED
    BY <2>1, <2>2, <2>3 DEF TokenInv, CameWithToken, ExpiresOnTime, Ttl
<1>5. CASE RestartGateway
  BY <1>5 DEF RestartGateway, TokenInv, CameWithToken, Inside, ExpiresOnTime, Ttl
<1> QED
  BY <1>1, <1>2, <1>3, <1>4, <1>5 DEF Next, vars, Tick, RestartAuth, Observe

LEMMA TokenAlways == Spec => [](AdmissionTypeOK /\ TokenInv)
<1>1. Init => TokenInv
  BY DEF Init, TokenInv, CameWithToken, Inside
<1>2. AdmissionTypeOK /\ TokenInv /\ [Next]_vars => (AdmissionTypeOK /\ TokenInv)'
  BY TypeNext, TokenNext
<1> QED
  BY <1>1, <1>2, TypeInit, PTL DEF Spec

\* Whatever the time to live and whenever the services restart, a token lasts for
\* all but the last second of it, at a gateway with the settings that signed it.
THEOREM FreshTokenAlwaysAccepted == Spec => []FreshTokenAccepted
<1>1. AdmissionTypeOK /\ TokenInv => FreshTokenAccepted
  <2> SUFFICES ASSUME AdmissionTypeOK, TokenInv, NEW tok \in tokens,
                      tok.by = gatewayEnv, now + Second <= tok.at + Ttl
               PROVE  CheckAuth(tok)
    BY DEF FreshTokenAccepted
  <2>1. tok.at \in Nat /\ tok.exp \in Nat /\ now \in Nat
    BY DEF AdmissionTypeOK, Token, Time
  <2>2. tok.at + Ttl < tok.exp + Second
    BY DEF TokenInv, ExpiresOnTime
  <2> QED
    BY <2>1, <2>2, TtlType DEF CheckAuth
<1> QED
  BY <1>1, TokenAlways, PTL

\* Nothing is served without a token that was good when it arrived and that the
\* gateway, restarted or not, would still take for its own.
THEOREM AlwaysServedWithToken == Spec => []ServedWithToken
<1>1. TokenInv => ServedWithToken
  BY DEF TokenInv, ServedWithToken, CameWithToken, Inside
<1> QED
  BY <1>1, TokenAlways, PTL

=============================================================================
