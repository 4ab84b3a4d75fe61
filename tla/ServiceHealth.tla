---------------------------- MODULE ServiceHealth ----------------------------
(***************************************************************************)
(* The life of the services, from the start of a process over its database *)
(* connection to the first request, and the gateway's GET /status, which   *)
(* asks them for their health one after another and within a deadline.     *)
(* Docker starts again what exits.  Only GET /status reads the clock.      *)
(***************************************************************************)
EXTENDS Integers, Sequences, FiniteSets

CONSTANTS
  Polled,      \* the services that are deployed, as GET /status asks them
  MaxFaults    \* bound on what may go wrong

\* The order in which main() lists them for statusHandler.
Listed == <<"incident", "volunteer", "resource", "shelter", "alert", "fleet", "auth">>

ASSUME HealthAssumption ==
  /\ Polled \in Seq({Listed[i] : i \in DOMAIN Listed})
  /\ \A i, j \in DOMAIN Polled, a, b \in DOMAIN Listed :
        i < j /\ Polled[i] = Listed[a] /\ Polled[j] = Listed[b] => a < b
  /\ MaxFaults \in Nat

Deployed == {Polled[i] : i \in DOMAIN Polled}

OnMongo == {"resource", "fleet"}
DbOf(s) == IF s \in OnMongo THEN "mongodb" ELSE s
HasDb(s) == s # "auth"
Db == {DbOf(s) : s \in {x \in Deployed : HasDb(x)}}

\* The others have nothing to create before they can serve.
MakesTable == Deployed \ {"resource", "auth"}

VARIABLES
  db,        \* per database: it answers, refuses or is silent
  proc,      \* per service: how far its process has come
  tables,    \* the services whose tables exist
  silent,    \* the services that do not answer, for the process or the network hangs
  page,      \* GET /status: the service it asks (0: none), the seconds since it
             \* began and since it asked, and those of the callee's own query
  shown,     \* what it has found
  well,      \* history: the services that were well all the time since it began
  faults     \* how many there were

sysVars == <<db, proc, tables, silent>>
pageVars == <<page, shown>>
vars == <<db, proc, tables, silent, page, shown, well, faults>>

\* NewRequestWithContext, http.Client.Timeout, and the alert-service's Health.
ClientTimeout == 3
PingTimeout == 2

\* Mutant: the deadline of one service is that of all.
BudgetOfOne == ClientTimeout

Budget == 5

NoPage == [at |-> 0, spent |-> 0, waited |-> 0, pinged |-> 0]
Unseen == [s \in Deployed |-> "unknown"]

HealthTypeOK ==
  /\ db \in [Db -> {"up", "down", "hung"}]
  /\ proc \in [Deployed -> {"exited", "connect", "create", "listen"}]
  /\ tables \subseteq MakesTable
  /\ silent \subseteq Deployed
  /\ page \in [at : 0..(Len(Polled) + 1), spent : 0..Budget,
               waited : 0..ClientTimeout, pinged : 0..ClientTimeout]
  /\ shown \in [Deployed -> {"unknown", "up", "down"}]
  /\ well \subseteq Deployed
  /\ faults \in 0..MaxFaults

Init ==
  /\ db = [d \in Db |-> "up"]
  /\ proc = [s \in Deployed |-> "exited"]
  /\ tables = {}
  /\ silent = {}
  /\ page = NoPage
  /\ shown = Unseen
  /\ well = {}
  /\ faults = 0

DbIs(s, how) == HasDb(s) /\ db[DbOf(s)] = how

\* The shelter-service listens while its init() is under way.
Listening(s) == proc[s] = "listen" \/ (s = "shelter" /\ proc[s] = "create")

\* Only the alert-service gives its handler a health check; the others answer 200.
ChecksDb(s) == s = "alert"

Well(s) == s \notin silent /\ Listening(s) /\ (ChecksDb(s) => DbIs(s, "up"))

StillWell == well' = {s \in well : Well(s)'}

-----------------------------------------------------------------------------
(* The start of a process.                                                 *)

Becomes(s, where) == proc' = [proc EXCEPT ![s] = where]

\* restart: unless-stopped.
Start(s) ==
  /\ proc[s] = "exited"
  /\ Becomes(s, CASE s = "auth" -> "listen"
                  [] s = "shelter" -> "create"
                  [] OTHER -> "connect")
  /\ UNCHANGED <<db, tables, silent, pageVars, faults>>

\* The clients of PostgreSQL wait for a database that is silent as long as it is;
\* those of MongoDB give up and exit.
LetsDown(s) == DbIs(s, "down") \/ (s \in OnMongo /\ DbIs(s, "hung"))

\* Ping: log.Fatal or the end of the script without an answer.
Connect(s) ==
  /\ proc[s] = "connect" /\ s \notin silent
  /\ \/ DbIs(s, "up") /\ Becomes(s, IF s \in MakesTable THEN "create" ELSE "listen")
     \/ LetsDown(s) /\ Becomes(s, "exited")
  /\ UNCHANGED <<db, tables, silent, pageVars, faults>>

\* Mutant: as the alert-service, all go on without their table.
CreateTableOrNot(s) ==
  /\ proc[s] = "create" /\ s \notin silent
  /\ \/ DbIs(s, "up") /\ Becomes(s, "listen") /\ tables' = tables \cup {s}
     \/ LetsDown(s) /\ Becomes(s, "listen") /\ UNCHANGED tables
  /\ UNCHANGED <<db, silent, pageVars, faults>>

\* ensureSchema, init, init_db.  The alert-service drops the error.
CreateTable(s) ==
  /\ proc[s] = "create" /\ s \notin silent
  /\ \/ DbIs(s, "up") /\ Becomes(s, "listen") /\ tables' = tables \cup {s}
     \/ LetsDown(s) /\ Becomes(s, IF s = "alert" THEN "listen" ELSE "exited")
        /\ UNCHANGED tables
  /\ UNCHANGED <<db, silent, pageVars, faults>>

-----------------------------------------------------------------------------
(* What may go wrong, and what comes back of itself.                       *)

Fault == faults < MaxFaults /\ faults' = faults + 1

\* A rejection that nobody catches, a panic, a restart by hand.
Exit(s) ==
  /\ proc[s] # "exited"
  /\ Fault
  /\ Becomes(s, "exited")
  /\ UNCHANGED <<db, tables, silent, pageVars>>

FallSilent(s) ==
  /\ s \notin silent
  /\ Fault
  /\ silent' = silent \cup {s}
  /\ UNCHANGED <<db, proc, tables, pageVars>>

Return(s) ==
  /\ s \in silent
  /\ silent' = silent \ {s}
  /\ UNCHANGED <<db, proc, tables, pageVars, faults>>

DbFails(d, how) ==
  /\ db[d] = "up" /\ how # "up"
  /\ Fault
  /\ db' = [db EXCEPT ![d] = how]
  /\ UNCHANGED <<proc, tables, silent, pageVars>>

DbReturns(d) ==
  /\ db[d] # "up"
  /\ db' = [db EXCEPT ![d] = "up"]
  /\ UNCHANGED <<proc, tables, silent, pageVars, faults>>

-----------------------------------------------------------------------------
(* gateway: statusHandler.                                                 *)

AskStatus ==
  /\ page.at = 0
  /\ page' = [NoPage EXCEPT !.at = 1]
  /\ well' = {s \in Deployed : Well(s)}
  /\ UNCHANGED <<sysVars, shown, faults>>

Asking == page.at \in DOMAIN Polled

Note(how) ==
  /\ page' = [page EXCEPT !.at = @ + 1, !.waited = 0, !.pinged = 0]
  /\ shown' = [shown EXCEPT ![Polled[page.at]] = how]
  /\ UNCHANGED <<sysVars, well, faults>>

\* The callee's query of its database is under way.
Pings(s) == ChecksDb(s) /\ s \notin silent /\ Listening(s) /\ DbIs(s, "hung")

Waits(s) == s \in silent \/ (Pings(s) /\ page.pinged < PingTimeout)

\* 200 before the deadline of all.
FindUp ==
  /\ Asking /\ page.spent < Budget
  /\ Well(Polled[page.at])
  /\ Note("up")

\* Connection refused, or 503 of the alert-service.
FindDown ==
  /\ Asking
  /\ ~Well(Polled[page.at]) /\ ~Waits(Polled[page.at])
  /\ Note("down")

\* Mutant: the default http.Client, and a request without a context.
GiveUpNever ==
  /\ Asking /\ page.at = Len(Polled) + 1
  /\ Note("down")

\* From its deadline on, every service that is left counts as down, unasked.
GiveUp ==
  /\ Asking
  /\ page.waited = ClientTimeout \/ page.spent = Budget
  /\ Note("down")

\* Mutant: the requests do not get the context.
SecondPastBudget ==
  /\ Asking
  /\ Waits(Polled[page.at])
  /\ page.waited < ClientTimeout
  /\ page' = [page EXCEPT !.spent = @ + 1, !.waited = @ + 1]
  /\ UNCHANGED <<sysVars, shown, well, faults>>

Second ==
  /\ Asking
  /\ Waits(Polled[page.at])
  /\ page.waited < ClientTimeout /\ page.spent < Budget
  /\ page' = [page EXCEPT
        !.spent = @ + 1, !.waited = @ + 1,
        !.pinged = IF @ > 0 \/ Pings(Polled[page.at]) THEN @ + 1 ELSE @]
  /\ UNCHANGED <<sysVars, shown, well, faults>>

Reply ==
  /\ page.at = Len(Polled) + 1
  /\ page' = NoPage
  /\ shown' = Unseen
  /\ well' = {}
  /\ UNCHANGED <<sysVars, faults>>

PageStep == FindUp \/ FindDown \/ GiveUp \/ Second \/ Reply

StartStep(s) == (Start(s) \/ Connect(s) \/ CreateTable(s)) /\ StillWell

Trouble ==
  /\ \/ \E s \in Deployed : Exit(s) \/ FallSilent(s) \/ Return(s)
     \/ \E d \in Db : DbReturns(d) \/ \E how \in {"down", "hung"} : DbFails(d, how)
  /\ StillWell

Next == (\E s \in Deployed : StartStep(s)) \/ Trouble \/ AskStatus \/ PageStep

Spec == Init /\ [][Next]_vars

\* Docker starts what has exited, a process that is not kept waiting goes on, and
\* timers expire.  Nothing is said of databases, or of services that are silent.
FairSpec ==
  Spec /\ WF_vars(PageStep) /\ \A s \in Deployed : WF_vars(StartStep(s))

-----------------------------------------------------------------------------
\* A service that is well while GET /status asks is shown up, unless two others
\* before it were not: one that hangs takes three of the five seconds, and the
\* alert-service takes two to find that its database does.
HiddenByTwo ==
  \A i \in DOMAIN Polled :
     Polled[i] \in well /\ shown[Polled[i]] = "down" =>
        Cardinality({j \in 1..(i - 1) : Polled[j] \notin well}) >= 2

\* GET /status is answered whatever hangs.
StatusAnswered == page.at # 0 ~> page.at = 0

\* The alert-service serves without its table when the CREATE failed.
Serving(s) == proc[s] = "listen" /\ (s \in MakesTable \ {"alert"} => s \in tables)

\* In whatever order databases and processes fail and return: when at last the
\* databases answer and nothing hangs, every service comes to serve and has its
\* table, the shelter-service too, which listens before it knows.
ServesInTheEnd ==
  <>[](silent = {} /\ \A d \in Db : db[d] = "up") =>
     <>[](\A s \in Deployed : Serving(s))

=============================================================================
