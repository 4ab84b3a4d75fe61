-------------------------- MODULE GatewayAdmission --------------------------
(***************************************************************************)
(* What the gateway asks of a request before it serves it: a token of the  *)
(* auth-service that is signed and not expired, then a place in the token  *)
(* bucket that the targets of one service share.  The two services have    *)
(* clocks that agree, and .env files that are read when they start.        *)
(* The gateway's .env names a user and a password: authentication is on.   *)
(***************************************************************************)
EXTENDS Integers, FiniteSets

CONSTANTS
  Request,      \* requests in the gateway
  Served,       \* the targets that clients use
  None,         \* "no such value"
  Setting,      \* user names with their secrets, as .env files may hold them
  Second,       \* ticks of the clock per second
  Cost,         \* what a request takes from a bucket (a finer unit than requests)
  RateEnv,      \* <SERVICE>_RATE_LIMIT_RPS: <<>> is unset, junk counts as <<0>>
  DefaultRate,  \* the rate without it; both are in units per tick
  TtlEnv,       \* JWT_TTL_SECONDS: <<>> is unset, junk counts as <<-1>>
  DefaultTtl,
  MaxTime,      \* bound on the clock
  MaxTokens,    \* bound on the tokens that are handed out
  MaxStarts,    \* bound on the gateway's restarts while an observer counts
  Faults        \* what may go wrong

Target == {"/incidents", "/volunteers", "/resources", "/shelters", "/alerts",
           "/trips", "/vehicles", "/login", "/auth"}

\* The service that a target's requests go to.
ServiceOf(t) == CASE t \in {"/trips", "/vehicles"} -> "fleet"
                  [] t \in {"/login", "/auth"} -> "auth"
                  [] OTHER -> t

Service == {ServiceOf(t) : t \in Served}

\* Mutant: every target has a limiter of its own.
LimiterOfItsOwn(t) == t

\* main() gives the two targets of one service the same limiter: it has the name of
\* the first of them.
LimiterOf(t) == CASE t = "/vehicles" -> "/trips"
                  [] t = "/auth" -> "/login"
                  [] OTHER -> t

Limiter == {LimiterOf(t) : t \in Served}

\* handler: isAuthEndpoint.
Open == {"/login", "/auth"}

IsEnv(e) == e = <<>> \/ (DOMAIN e = {1} /\ e[1] \in Int)

ASSUME AdmissionAssumption ==
  /\ Served \subseteq Target
  /\ None \notin Setting
  /\ Second \in Nat \ {0} /\ Cost \in Nat \ {0}
  /\ \A s \in Service : IsEnv(RateEnv[s]) /\ DefaultRate[s] \in Nat
  /\ IsEnv(TtlEnv) /\ DefaultTtl \in Nat
  /\ MaxTime \in Nat /\ MaxTokens \in Nat /\ MaxStarts \in Nat
  /\ Faults \subseteq {"restart"}

\* newLimiterFromEnv: a value that is no positive number disables the limiter.
Rate(s) == IF RateEnv[s] = <<>> THEN DefaultRate[s]
           ELSE IF RateEnv[s][1] <= 0 THEN 0 ELSE RateEnv[s][1]

Limited(s) == Rate(s) > 0

\* ceil(2 * rps) requests, at least one.
Burst(s) == LET twice == (2 * Second * Rate(s) + Cost - 1) \div Cost IN
            IF twice < 1 THEN 1 ELSE twice

Capacity(s) == Cost * Burst(s)

\* durationFromEnvSeconds: a value that is no number, or negative, is ignored.
Ttl == Second * (IF TtlEnv = <<>> \/ TtlEnv[1] < 0 THEN DefaultTtl ELSE TtlEnv[1])

VARIABLES
  now,                     \* the time
  level,                   \* per limiter: what is in the bucket
  gatewayEnv, authEnv,     \* the user and secret each service has read
  tokens,                  \* the tokens that were handed out
  pc, job,                 \* per request: where it is; its target, token and arrival
  window,                  \* history, per service: what was served since an observer
                           \* began to count, and how often the gateway has restarted
  full                     \* history, per limiter: what was served since the bucket
                           \* was last full

vars == <<now, level, gatewayEnv, authEnv, tokens, pc, job, window, full>>

Time == 0..MaxTime
Token == [by : Setting, at : Time, exp : Nat]
Job == [target : Served \cup {None}, token : Token \cup {None}, at : Time]
Count == [at : Time, served : Nat]
Window == [at : Time, served : Nat, starts : 0..MaxStarts]

NoJob == [target |-> None, token |-> None, at |-> 0]
From(t) == [at |-> t, served |-> 0]
Opened(t) == [at |-> t, served |-> 0, starts |-> 0]

AdmissionTypeOK ==
  /\ now \in Time
  /\ level \in [Limiter -> Nat] /\ \A l \in Limiter : level[l] <= Capacity(ServiceOf(l))
  /\ gatewayEnv \in Setting /\ authEnv \in Setting
  /\ tokens \subseteq Token
  /\ pc \in [Request -> {"idle", "limiter", "served", "limited"}]
  /\ job \in [Request -> Job]
  /\ \A r \in Request : pc[r] # "idle" => job[r].target \in Served
  /\ window \in [Service -> Window] /\ \A s \in Service : window[s].at <= now
  /\ full \in [Limiter -> Count] /\ \A l \in Limiter : full[l].at <= now

Init ==
  /\ now = 0
  /\ level = [l \in Limiter |-> Capacity(ServiceOf(l))]
  /\ gatewayEnv \in Setting /\ authEnv \in Setting
  /\ tokens = {}
  /\ pc = [r \in Request |-> "idle"]
  /\ job = [r \in Request |-> NoJob]
  /\ window = [s \in Service |-> Opened(0)]
  /\ full = [l \in Limiter |-> From(0)]

-----------------------------------------------------------------------------
(* gateway: handler, up to the cache.                                      *)

\* Mutant: an allowance for the difference of two clocks, in the wrong direction.
CheckAuthEarly(tok) == tok.by = gatewayEnv /\ now + Second < tok.exp

\* checkAuth: the signature, the expiry and the subject.
CheckAuth(tok) == tok.by = gatewayEnv /\ now < tok.exp

Accept(r, t, tok) ==
  /\ pc' = [pc EXCEPT ![r] = "limiter"]
  /\ job' = [job EXCEPT ![r] = [target |-> t, token |-> tok, at |-> now]]

\* Mutant: the limiter is asked before checkAuth.
ArriveLimitedFirst(r, t) ==
  /\ pc[r] = "idle"
  /\ \/ /\ t \in Open /\ Accept(r, t, None)
        /\ UNCHANGED level
     \/ /\ t \notin Open /\ \E tok \in tokens : CheckAuth(tok) /\ Accept(r, t, tok)
        /\ UNCHANGED level
     \/ /\ t \notin Open /\ level[LimiterOf(t)] >= Cost
        /\ level' = [level EXCEPT ![LimiterOf(t)] = @ - Cost]
        /\ UNCHANGED <<pc, job>>
  /\ UNCHANGED <<now, gatewayEnv, authEnv, tokens, window, full>>

\* A request without a token that is good is answered 401 and leaves no trace.
Arrive(r, t) ==
  /\ pc[r] = "idle"
  /\ \/ t \in Open /\ Accept(r, t, None)
     \/ t \notin Open /\ \E tok \in tokens : CheckAuth(tok) /\ Accept(r, t, tok)
  /\ UNCHANGED <<now, level, gatewayEnv, authEnv, tokens, window, full>>

Counted(c, x) == [c EXCEPT ![x].served = @ + Cost]

Admit(r) ==
  /\ pc[r] = "limiter"
  /\ LET l == LimiterOf(job[r].target)
         s == ServiceOf(job[r].target) IN
       \/ /\ Limited(s) /\ level[l] >= Cost
          /\ level' = [level EXCEPT ![l] = @ - Cost]
          /\ window' = Counted(window, s) /\ full' = Counted(full, l)
       \/ ~Limited(s) /\ UNCHANGED <<level, window, full>>
  /\ pc' = [pc EXCEPT ![r] = "served"]
  /\ UNCHANGED <<now, gatewayEnv, authEnv, tokens, job>>

\* 429.
Refuse(r) ==
  /\ pc[r] = "limiter"
  /\ Limited(ServiceOf(job[r].target)) /\ level[LimiterOf(job[r].target)] < Cost
  /\ pc' = [pc EXCEPT ![r] = "limited"]
  /\ UNCHANGED <<now, level, gatewayEnv, authEnv, tokens, job, window, full>>

Finish(r) ==
  /\ pc' = [pc EXCEPT ![r] = "idle"]
  /\ job' = [job EXCEPT ![r] = NoJob]

\* The reply of the cache or of the service, or a login that is refused.
Reply(r) ==
  /\ pc[r] \in {"served", "limited"}
  /\ Finish(r)
  /\ UNCHANGED <<now, level, gatewayEnv, authEnv, tokens, window, full>>

-----------------------------------------------------------------------------
(* auth-service: loginHandler, with the right user and password.           *)

\* Mutant: the expiry is rounded up to whole seconds.
RoundedUp(e) == e % Second = 0 /\ e >= now + Ttl /\ e < now + Ttl + Second

\* The claim "exp" is in whole seconds: the fraction is cut off.
Expiry(e) == e % Second = 0 /\ e <= now + Ttl /\ now + Ttl < e + Second

LoginHandler(r) ==
  /\ pc[r] = "served" /\ job[r].target = "/login"
  /\ Cardinality(tokens) < MaxTokens
  /\ \E e \in 0..(now + Ttl + Second) :
       Expiry(e) /\ tokens' = tokens \cup {[by |-> authEnv, at |-> now, exp |-> e]}
  /\ Finish(r)
  /\ UNCHANGED <<now, level, gatewayEnv, authEnv, window, full>>

-----------------------------------------------------------------------------
(* Time, restarts, and the observer.                                       *)

\* Mutant: a bucket that is never full.
RefilledOnAndOn(l) == level[l] + Rate(ServiceOf(l))

Refilled(l) == LET s == ServiceOf(l) IN
               IF level[l] + Rate(s) > Capacity(s) THEN Capacity(s) ELSE level[l] + Rate(s)

Tick ==
  /\ now < MaxTime
  /\ now' = now + 1
  /\ level' = [l \in Limiter |-> Refilled(l)]
  /\ full' = [l \in Limiter |-> IF Refilled(l) = Capacity(ServiceOf(l)) THEN From(now')
                                                                        ELSE full[l]]
  /\ UNCHANGED <<gatewayEnv, authEnv, tokens, pc, job, window>>

\* A gateway that starts has full buckets, whatever it let through before.
RestartGateway ==
  /\ "restart" \in Faults
  /\ \A s \in Service : window[s].starts < MaxStarts
  /\ gatewayEnv' \in Setting
  /\ level' = [l \in Limiter |-> Capacity(ServiceOf(l))]
  /\ pc' = [r \in Request |-> "idle"]
  /\ job' = [r \in Request |-> NoJob]
  /\ window' = [s \in Service |-> [window[s] EXCEPT !.starts = @ + 1]]
  /\ full' = [l \in Limiter |-> From(now)]
  /\ UNCHANGED <<now, authEnv, tokens>>

\* The auth-service keeps nothing but its settings.
RestartAuth ==
  /\ "restart" \in Faults
  /\ authEnv' \in Setting
  /\ UNCHANGED <<now, level, gatewayEnv, tokens, pc, job, window, full>>

\* An observer begins to count at any time.
Observe ==
  /\ window' = [s \in Service |-> Opened(now)]
  /\ UNCHANGED <<now, level, gatewayEnv, authEnv, tokens, pc, job, full>>

Next ==
  \/ \E r \in Request : \/ \E t \in Served : Arrive(r, t)
                        \/ Admit(r) \/ Refuse(r) \/ Reply(r) \/ LoginHandler(r)
  \/ Tick \/ RestartGateway \/ RestartAuth \/ Observe

Spec == Init /\ [][Next]_vars

-----------------------------------------------------------------------------
\* Whenever one begins to count, a service is sent at most a burst and what its rate
\* allows from then on, over all targets that lead to it, and another burst for each
\* restart of the gateway.
WithinLimit ==
  \A s \in Service : Limited(s) =>
     window[s].served <= Capacity(s) * (1 + window[s].starts)
                           + Rate(s) * (now - window[s].at)

\* A 429 means that the requests which were served have used up the limit: those
\* that were refused for want of a token, or as too many, have no part in it.
RefusedAtLimit ==
  [][\A r \in Request : pc[r] = "limiter" /\ pc'[r] = "limited" =>
        LET l == LimiterOf(job[r].target)
            s == ServiceOf(job[r].target) IN
          full[l].served + Cost > Capacity(s) + Rate(s) * (now - full[l].at)]_vars

\* loginHandler tells the client that its token lasts for the time to live: the
\* gateway accepts it all the time but the last second, if it has the same .env.
FreshTokenAccepted ==
  \A tok \in tokens :
     tok.by = gatewayEnv /\ now + Second <= tok.at + Ttl => CheckAuth(tok)

\* What is served, on any target but the login, came with a token of the user and
\* secret that the gateway has now, and no older than its time to live.
ServedWithToken ==
  \A r \in Request : pc[r] = "served" /\ job[r].target \notin Open =>
     /\ job[r].token \in tokens
     /\ job[r].token.by = gatewayEnv
     /\ job[r].at < job[r].token.at + Ttl

=============================================================================
