------------------------- MODULE ServiceHealth_proofs -------------------------
(***************************************************************************)
(* Proofs about ServiceHealth.  That a service which is well is hidden by  *)
(* two others only is about time: the invariant accounts for the seconds   *)
(* since GET /status began, three at most for each service that was not    *)
(* well, and none for one that was.                                        *)
(***************************************************************************)
EXTENDS ServiceHealth, FiniteSetTheorems, TLAPS

LEMMA Places ==
  /\ Len(Polled) \in Nat /\ DOMAIN Polled = 1..Len(Polled)
  /\ MaxFaults \in Nat
  /\ \A i \in DOMAIN Polled : Polled[i] \in Deployed
  BY HealthAssumption DEF Deployed

\* GET /status asks every service once.
LEMMA AskedOnce ==
  ASSUME NEW i \in DOMAIN Polled, NEW j \in DOMAIN Polled, Polled[i] = Polled[j]
  PROVE  i = j
<1>1. PICK a \in DOMAIN Listed : Polled[i] = Listed[a]
  BY HealthAssumption
<1>2. a \in Int
  BY DEF Listed
<1>3. i < j => a < a
  BY <1>1, HealthAssumption
<1>4. j < i => a < a
  BY <1>1, HealthAssumption
<1> QED BY <1>2, <1>3, <1>4, Places

\* A table is created for the services that have one; a ping of the callee began
\* no earlier than the request it serves.
TypeInv ==
  /\ HealthTypeOK
  /\ \A s \in Deployed : proc[s] = "create" => s \in MakesTable
  /\ page.pinged <= page.waited

PageType == [at : 0..(Len(Polled) + 1), spent : 0..Budget,
             waited : 0..ClientTimeout, pinged : 0..ClientTimeout]

LEMMA TypeInit == Init => TypeInv
<1> SUFFICES ASSUME Init PROVE TypeInv
  OBVIOUS
<1>1. page \in PageType /\ page.pinged <= page.waited
  BY Places DEF Init, NoPage, PageType, Budget, ClientTimeout
<1>2. shown \in [Deployed -> {"unknown", "up", "down"}]
  BY DEF Init, Unseen
<1> QED BY <1>1, <1>2, Places DEF Init, TypeInv, HealthTypeOK, PageType

\* Steps of databases and processes.
LEMMA SystemTypes ==
  ASSUME TypeInv, UNCHANGED pageVars, StillWell,
         \/ \E s \in Deployed : StartStep(s)
         \/ Trouble
  PROVE  TypeInv'
<1>t. HealthTypeOK /\ \A s \in Deployed : proc[s] = "create" => s \in MakesTable
  BY DEF TypeInv
<1>1. page' = page /\ shown' = shown
  BY DEF pageVars
<1>2. well' \subseteq Deployed
  BY <1>t DEF StillWell, HealthTypeOK
<1>3. db' \in [Db -> {"up", "down", "hung"}]
  BY <1>t DEF HealthTypeOK, StartStep, Start, Connect, CreateTable, Trouble, Exit,
              FallSilent, Return, DbFails, DbReturns
<1>4. /\ proc' \in [Deployed -> {"exited", "connect", "create", "listen"}]
      /\ \A s \in Deployed : proc'[s] = "create" => s \in MakesTable
  <2>1. ASSUME NEW s \in Deployed, Start(s) \/ Connect(s) \/ CreateTable(s)
        PROVE  <1>4!1 /\ <1>4!2
    <3>1. CASE Start(s)
      BY <1>t, <3>1 DEF HealthTypeOK, Start, Becomes, MakesTable
    <3>2. CASE Connect(s)
      BY <1>t, <3>2 DEF HealthTypeOK, Connect, Becomes
    <3>3. CASE CreateTable(s)
      BY <1>t, <3>3 DEF HealthTypeOK, CreateTable, Becomes
    <3> QED BY <2>1, <3>1, <3>2, <3>3
  <2>2. CASE Trouble
    BY <1>t, <2>2 DEF HealthTypeOK, Trouble, Exit, Becomes, FallSilent, Return,
                      DbFails, DbReturns
  <2> QED BY <2>1, <2>2 DEF StartStep
<1>5. tables' \subseteq MakesTable
  BY <1>t DEF HealthTypeOK, StartStep, Start, Connect, CreateTable, Trouble, Exit,
              FallSilent, Return, DbFails, DbReturns
<1>6. silent' \subseteq Deployed
  BY <1>t DEF HealthTypeOK, StartStep, Start, Connect, CreateTable, Trouble, Exit,
              FallSilent, Return, DbFails, DbReturns
<1>7. faults' \in 0..MaxFaults
  BY <1>t, Places DEF HealthTypeOK, StartStep, Start, Connect, CreateTable, Trouble,
              Exit, FallSilent, Return, DbFails, DbReturns, Fault
<1> QED BY <1>1, <1>2, <1>3, <1>4, <1>5, <1>6, <1>7 DEF TypeInv, HealthTypeOK

\* Steps of GET /status.
LEMMA PageTypes ==
  ASSUME TypeInv, AskStatus \/ PageStep
  PROVE  TypeInv'
<1>t. HealthTypeOK /\ page \in PageType /\ page.pinged <= page.waited
  BY DEF TypeInv, HealthTypeOK, PageType
<1>p. ASSUME UNCHANGED <<sysVars, faults>>, page' \in PageType,
             page'.pinged <= page'.waited, well' \subseteq Deployed,
             shown' \in [Deployed -> {"unknown", "up", "down"}]
      PROVE  TypeInv'
  BY <1>p DEF TypeInv, HealthTypeOK, sysVars, PageType
<1>1. CASE AskStatus
  <2>1. page' \in PageType /\ page'.pinged <= page'.waited
    BY <1>1, Places DEF AskStatus, NoPage, PageType, Budget, ClientTimeout
  <2> QED BY <1>1, <1>t, <2>1, <1>p DEF AskStatus, HealthTypeOK
<1>2. ASSUME NEW how \in {"up", "down"}, Asking, Note(how) PROVE TypeInv'
  <2>1. page' \in PageType /\ page'.pinged <= page'.waited
    <3>1. page.at \in 1..Len(Polled)
      BY <1>2, Places DEF Asking
    <3>2. page' = [page EXCEPT !.at = page.at + 1, !.waited = 0, !.pinged = 0]
      BY <1>2 DEF Note
    <3>3. page.at + 1 \in 0..(Len(Polled) + 1)
      BY <3>1, Places
    <3>4. page' = [at |-> page.at + 1, spent |-> page.spent, waited |-> 0, pinged |-> 0]
      BY <1>t, <3>2 DEF PageType
    <3>5. page.spent \in 0..Budget /\ 0 \in 0..ClientTimeout
      BY <1>t DEF PageType, ClientTimeout
    <3> QED BY <3>3, <3>4, <3>5 DEF PageType
  <2>2. shown' \in [Deployed -> {"unknown", "up", "down"}]
    BY <1>2, <1>t DEF Note, HealthTypeOK
  <2> QED BY <1>2, <1>t, <2>1, <2>2, <1>p DEF Note, HealthTypeOK
<1>3. CASE Second
  <2> DEFINE pinged == page'.pinged
  <2>1. /\ page.at \in 0..(Len(Polled) + 1)
        /\ page.spent \in 0..Budget /\ page.spent < Budget
        /\ page.waited \in 0..ClientTimeout /\ page.waited < ClientTimeout
        /\ page.pinged \in 0..ClientTimeout
    BY <1>3, <1>t DEF Second, PageType
  <2>2. /\ page' = [at |-> page.at, spent |-> page.spent + 1,
                    waited |-> page.waited + 1, pinged |-> pinged]
        /\ pinged \in {page.pinged, page.pinged + 1}
    BY <1>3, <1>t DEF Second, PageType
  <2> HIDE DEF pinged
  <2>3. /\ page.spent + 1 \in 0..Budget /\ page.waited + 1 \in 0..ClientTimeout
        /\ pinged \in 0..ClientTimeout /\ pinged <= page.waited + 1
    BY <1>t, <2>1, <2>2 DEF Budget, ClientTimeout
  <2>4. page' \in PageType /\ page'.pinged <= page'.waited
    BY <2>1, <2>2, <2>3 DEF PageType
  <2> QED BY <1>3, <1>t, <2>4, <1>p DEF Second, HealthTypeOK
<1>4. CASE Reply
  <2>1. page' \in PageType /\ page'.pinged <= page'.waited
    BY <1>4, Places DEF Reply, NoPage, PageType, Budget, ClientTimeout
  <2> QED BY <1>4, <2>1, <1>p DEF Reply, Unseen
<1> QED BY <1>1, <1>2, <1>3, <1>4 DEF PageStep, FindUp, FindDown, GiveUp

\* Databases and processes leave GET /status alone.
LEMMA SystemQuiet ==
  ASSUME (\E s \in Deployed : StartStep(s)) \/ Trouble
  PROVE  UNCHANGED pageVars /\ StillWell
  BY DEF StartStep, Start, Connect, CreateTable, Trouble, Exit, FallSilent, Return,
         DbFails, DbReturns

LEMMA TypeStep == TypeInv /\ [Next]_vars => TypeInv'
<1> SUFFICES ASSUME TypeInv, [Next]_vars PROVE TypeInv'
  OBVIOUS
<1>1. CASE UNCHANGED vars
  BY <1>1 DEF vars, TypeInv, HealthTypeOK
<1>2. CASE (\E s \in Deployed : StartStep(s)) \/ Trouble
  BY <1>2, SystemQuiet, SystemTypes
<1>3. CASE AskStatus \/ PageStep
  BY <1>3, PageTypes
<1> QED BY <1>1, <1>2, <1>3 DEF Next

\* Databases, processes, the page and its clock keep their types; the clock never
\* passes the deadlines.
THEOREM HealthTypes == Spec => []HealthTypeOK
<1>1. TypeInv => HealthTypeOK
  BY DEF TypeInv
<1> QED BY <1>1, TypeInit, TypeStep, PTL DEF Spec

-----------------------------------------------------------------------------
(* HiddenByTwo.                                                             *)

\* The services asked before the i-th that were not well all the time.
Bad(i) == {j \in 1..(i - 1) : Polled[j] \notin well}

NumBad == Cardinality(Bad(page.at))

\* Only services that were not well take time.
SpentOnBad == page.at # 0 => page.spent <= 3 * NumBad + page.waited

WaitsForBad == page.waited > 0 => page.at # 0 /\ Polled[page.at] \notin well

WellIsWell == \A s \in well : Well(s)

NotYetShown == \A i \in DOMAIN Polled : page.at <= i => shown[Polled[i]] = "unknown"

HiddenInv ==
  TypeInv /\ SpentOnBad /\ WaitsForBad /\ WellIsWell /\ NotYetShown /\ HiddenByTwo

LEMMA BadFinite ==
  ASSUME NEW i \in Int
  PROVE  IsFiniteSet(Bad(i)) /\ Cardinality(Bad(i)) \in Nat
<1>1. IsFiniteSet(1..(i - 1))
  BY FS_Interval
<1>2. IsFiniteSet(Bad(i))
  BY <1>1, FS_Subset DEF Bad
<1> QED BY <1>2, FS_CardinalityType

\* Bad(i) only grows while GET /status is under way.
LEMMA BadGrows ==
  ASSUME NEW i \in Int, well' \subseteq well
  PROVE  Cardinality(Bad(i)) <= Cardinality(Bad(i)') /\ Cardinality(Bad(i)') \in Nat
<1>1. Bad(i) \subseteq Bad(i)'
  BY DEF Bad
<1>2. IsFiniteSet(1..(i - 1))
  BY FS_Interval
<1>3. IsFiniteSet(Bad(i)')
  BY <1>2, FS_Subset DEF Bad
<1> QED BY <1>1, <1>3, FS_Subset, FS_CardinalityType

LEMMA BadNext ==
  ASSUME NEW i \in Nat, i >= 1
  PROVE  Cardinality(Bad(i + 1)) =
            Cardinality(Bad(i)) + (IF Polled[i] \in well THEN 0 ELSE 1)
<1>1. CASE Polled[i] \in well
  <2>1. Bad(i + 1) = Bad(i)
    BY <1>1 DEF Bad
  <2> QED BY <1>1, <2>1, BadFinite
<1>2. CASE Polled[i] \notin well
  <2>1. Bad(i + 1) = Bad(i) \cup {i} /\ i \notin Bad(i)
    BY <1>2 DEF Bad
  <2>2. IsFiniteSet(Bad(i))
    BY BadFinite
  <2> QED BY <1>2, <2>1, <2>2, FS_AddElement
<1> QED BY <1>1, <1>2

LEMMA NumBadType == page.at \in Int => NumBad \in Nat
<1> SUFFICES ASSUME NEW i \in Int, i = page.at PROVE NumBad \in Nat
  OBVIOUS
<1>1. NumBad = Cardinality(Bad(i))
  BY DEF NumBad
<1> QED BY <1>1, BadFinite

\* What keeps a request waiting is not well.
LEMMA WaitsNotWell ==
  ASSUME NEW s, Waits(s)
  PROVE  ~Well(s)
  BY DEF Waits, Pings, Well, DbIs

\* Databases and processes can only add to the services that were not well.
LEMMA SystemHidden ==
  ASSUME HiddenInv, TypeInv', UNCHANGED pageVars, StillWell
  PROVE  HiddenInv'
<1> USE DEF HiddenInv
<1>1. page' = page /\ shown' = shown /\ well' \subseteq well
  BY DEF pageVars, StillWell
<1>2. page.at \in Int /\ page.spent \in Int /\ page.waited \in Int
  BY Places DEF TypeInv, HealthTypeOK, Budget, ClientTimeout
<1>3. SpentOnBad'
  <2>1. NumBad \in Nat /\ NumBad' \in Nat /\ NumBad <= NumBad'
    <3> SUFFICES ASSUME NEW i \in Int, i = page.at
                 PROVE  NumBad \in Nat /\ NumBad' \in Nat /\ NumBad <= NumBad'
      BY <1>2
    <3>1. NumBad = Cardinality(Bad(i))
      BY DEF NumBad
    <3>2. NumBad' = Cardinality(Bad(i)')
      BY <1>1 DEF NumBad, Bad
    <3> QED BY <1>1, <3>1, <3>2, BadFinite, BadGrows
  <2> QED BY <1>1, <1>2, <2>1 DEF SpentOnBad
<1>4. WaitsForBad' /\ NotYetShown'
  BY <1>1 DEF WaitsForBad, NotYetShown
<1>5. WellIsWell'
  BY DEF WellIsWell, StillWell
<1>6. HiddenByTwo'
  <2> SUFFICES ASSUME NEW i \in DOMAIN Polled, Polled[i] \in well', shown'[Polled[i]] = "down"
               PROVE  Cardinality(Bad(i)') >= 2
    BY DEF HiddenByTwo, Bad
  <2>1. Cardinality(Bad(i)) >= 2
    BY <1>1 DEF HiddenByTwo, Bad
  <2>2. i \in Int
    BY Places
  <2> QED BY <1>1, <2>1, <2>2, BadGrows, BadFinite
<1> QED BY <1>3, <1>4, <1>5, <1>6

\* The page goes on to the next service.
LEMMA NoteHidden ==
  ASSUME HiddenInv, TypeInv', Asking, NEW how \in {"up", "down"}, Note(how),
         how = "down" /\ Polled[page.at] \in well => Cardinality(Bad(page.at)) >= 2
  PROVE  HiddenInv'
<1> USE DEF HiddenInv
<1>1. /\ page.at \in 1..Len(Polled) /\ page.spent \in Int
      /\ page.waited \in 0..3 /\ Len(Polled) \in Nat
      /\ page'.at = page.at + 1 /\ page'.spent = page.spent /\ page'.waited = 0
  BY Places DEF TypeInv, HealthTypeOK, Asking, Note, Budget, ClientTimeout
<1>2. UNCHANGED <<sysVars, well>>
  BY DEF Note
<1>3. shown' = [shown EXCEPT ![Polled[page.at]] = how]
  BY DEF Note
<1>4. /\ shown'[Polled[page.at]] = how
      /\ \A i \in DOMAIN Polled : i # page.at => shown'[Polled[i]] = shown[Polled[i]]
  BY <1>1, <1>3, Places, AskedOnce DEF TypeInv, HealthTypeOK
<1>5. SpentOnBad'
  <2>1. NumBad \in Nat
    BY <1>1, NumBadType
  <2>2. NumBad' = NumBad + (IF Polled[page.at] \in well THEN 0 ELSE 1)
    <3> SUFFICES ASSUME NEW i \in Nat, i >= 1, i = page.at
                 PROVE  NumBad' = NumBad + (IF Polled[i] \in well THEN 0 ELSE 1)
      BY <1>1
    <3>1. NumBad = Cardinality(Bad(i)) /\ NumBad' = Cardinality(Bad(i + 1))
      BY <1>1, <1>2 DEF NumBad, Bad
    <3> QED BY <3>1, BadNext
  <2>3. page.spent <= 3 * NumBad + page.waited
    BY <1>1 DEF SpentOnBad
  <2>4. Polled[page.at] \in well => page.waited = 0
    BY <1>1 DEF WaitsForBad
  <2>5. page.spent <= 3 * NumBad'
    BY <1>1, <2>1, <2>2, <2>3, <2>4
  <2> QED BY <1>1, <2>1, <2>2, <2>5 DEF SpentOnBad
<1>6. WaitsForBad'
  BY <1>1 DEF WaitsForBad
<1>7. WellIsWell'
  BY <1>2 DEF WellIsWell, Well, Listening, ChecksDb, DbIs, sysVars
<1>8. NotYetShown'
  BY <1>1, <1>4, Places DEF NotYetShown
<1>9. HiddenByTwo'
  <2> SUFFICES ASSUME NEW i \in DOMAIN Polled, Polled[i] \in well, shown'[Polled[i]] = "down"
               PROVE  Cardinality(Bad(i)) >= 2
    BY <1>2 DEF HiddenByTwo, Bad
  <2>1. CASE i = page.at
    BY <1>4, <2>1
  <2>2. CASE i # page.at
    BY <1>4, <2>2 DEF HiddenByTwo, Bad
  <2> QED BY <2>1, <2>2
<1> QED BY <1>5, <1>6, <1>7, <1>8, <1>9

LEMMA PageHidden ==
  ASSUME HiddenInv, TypeInv', AskStatus \/ PageStep
  PROVE  HiddenInv'
<1> USE DEF HiddenInv
<1>t. /\ page.at \in Nat /\ page.spent \in Nat /\ page.waited \in 0..3
      /\ Len(Polled) \in Nat
  BY Places DEF TypeInv, HealthTypeOK, Budget, ClientTimeout
<1>s. UNCHANGED sysVars /\ well' = {s \in Deployed : Well(s)} => WellIsWell'
  BY DEF WellIsWell, Well, Listening, ChecksDb, DbIs, sysVars
<1>1. CASE AskStatus
  <2>1. /\ page.at = 0 /\ page'.at = 1 /\ page'.spent = 0 /\ page'.waited = 0
        /\ shown' = shown
    BY <1>1 DEF AskStatus, NoPage
  <2>2. \A i \in DOMAIN Polled : shown[Polled[i]] = "unknown"
    BY <2>1, Places DEF NotYetShown
  <2>3. NotYetShown' /\ HiddenByTwo' /\ WaitsForBad'
    BY <2>1, <2>2 DEF NotYetShown, HiddenByTwo, WaitsForBad
  <2>4. SpentOnBad'
    <3>1. NumBad' = Cardinality({})
      BY <2>1 DEF NumBad, Bad
    <3> QED BY <2>1, <3>1, FS_EmptySet DEF SpentOnBad
  <2> QED BY <1>1, <1>s, <2>3, <2>4 DEF AskStatus
<1>2. CASE FindUp
  BY <1>2, NoteHidden DEF FindUp
<1>3. CASE FindDown
  <2>1. Polled[page.at] \notin well
    BY <1>3 DEF FindDown, WellIsWell
  <2> QED BY <1>3, <2>1, NoteHidden DEF FindDown
<1>4. CASE GiveUp
  <2>1. Polled[page.at] \in well => page.waited = 0
    BY <1>t DEF WaitsForBad
  <2>2. Polled[page.at] \in well => page.spent = 5
    BY <1>4, <2>1 DEF GiveUp, Budget, ClientTimeout
  <2>3. page.at # 0
    BY <1>4, Places DEF GiveUp, Asking
  <2>4. NumBad \in Nat
    BY <1>t, NumBadType
  <2>5. page.spent <= 3 * NumBad + page.waited
    BY <2>3 DEF SpentOnBad
  <2>6. Polled[page.at] \in well => NumBad >= 2
    BY <1>t, <2>1, <2>2, <2>4, <2>5
  <2> QED BY <1>4, <2>6, NoteHidden DEF GiveUp, NumBad
<1>5. CASE Second
  <2>1. /\ page'.at = page.at /\ page'.spent = page.spent + 1
        /\ page'.waited = page.waited + 1
        /\ shown' = shown /\ well' = well /\ UNCHANGED sysVars
    BY <1>5 DEF Second, TypeInv, HealthTypeOK
  <2>2. Polled[page.at] \notin well /\ page.at # 0
    BY <1>5, WaitsNotWell, Places DEF Second, WellIsWell, Asking
  <2>3. SpentOnBad'
    <3>1. NumBad \in Nat /\ NumBad' = NumBad
      BY <1>t, <2>1, NumBadType DEF NumBad, Bad
    <3> QED BY <1>t, <2>1, <3>1 DEF SpentOnBad
  <2>4. WaitsForBad' /\ NotYetShown' /\ HiddenByTwo'
    BY <2>1, <2>2 DEF WaitsForBad, NotYetShown, HiddenByTwo
  <2>5. WellIsWell'
    BY <2>1 DEF WellIsWell, Well, Listening, ChecksDb, DbIs, sysVars
  <2> QED BY <2>3, <2>4, <2>5
<1>6. CASE Reply
  <2>1. /\ page'.at = 0 /\ page'.waited = 0 /\ well' = {}
        /\ \A s \in Deployed : shown'[s] = "unknown"
    BY <1>6 DEF Reply, NoPage, Unseen
  <2> QED BY <2>1, Places
          DEF SpentOnBad, WaitsForBad, WellIsWell, NotYetShown, HiddenByTwo
<1> QED BY <1>1, <1>2, <1>3, <1>4, <1>5, <1>6 DEF PageStep

LEMMA HiddenStep == HiddenInv /\ [Next]_vars => HiddenInv'
<1> SUFFICES ASSUME HiddenInv, [Next]_vars PROVE HiddenInv'
  OBVIOUS
<1>t. TypeInv'
  BY TypeStep DEF HiddenInv
<1>1. CASE UNCHANGED vars
  BY <1>1, <1>t DEF vars, HiddenInv, SpentOnBad, NumBad, Bad, WaitsForBad, WellIsWell, Well,
                    Listening, ChecksDb, DbIs, NotYetShown, HiddenByTwo
<1>2. CASE (\E s \in Deployed : StartStep(s)) \/ Trouble
  BY <1>2, <1>t, SystemQuiet, SystemHidden
<1>3. CASE AskStatus \/ PageStep
  BY <1>3, <1>t, PageHidden
<1> QED BY <1>1, <1>2, <1>3 DEF Next

\* For any services in any order, GET /status shows a service that is well as down
\* only if two that it asked before were not.
THEOREM HiddenByTwoAlways == Spec => []HiddenByTwo
<1>1. Init => HiddenInv
  <2> SUFFICES ASSUME Init PROVE HiddenInv
    OBVIOUS
  <2>1. /\ page.at = 0 /\ page.waited = 0 /\ well = {}
        /\ \A s \in Deployed : shown[s] = "unknown"
    BY DEF Init, NoPage, Unseen
  <2> QED BY <2>1, TypeInit, Places
          DEF HiddenInv, SpentOnBad, WaitsForBad, WellIsWell, NotYetShown, HiddenByTwo
<1>2. HiddenInv => HiddenByTwo
  BY DEF HiddenInv
<1> QED BY <1>1, <1>2, HiddenStep, PTL DEF Spec

-----------------------------------------------------------------------------
(* The safe halves of StatusAnswered and ServesInTheEnd: GET /status has a  *)
(* step to take until it is answered and only so many of them, and what     *)
(* serves has its table.                                                    *)

PageMayGo ==
  \/ /\ Asking
     /\ \/ page.spent < Budget /\ Well(Polled[page.at])
        \/ ~Well(Polled[page.at]) /\ ~Waits(Polled[page.at])
        \/ page.waited = ClientTimeout \/ page.spent = Budget
        \/ /\ Waits(Polled[page.at])
           /\ page.waited < ClientTimeout /\ page.spent < Budget
  \/ page.at = Len(Polled) + 1

\* How many steps GET /status has left at most, but for its reply.
StepsLeft ==
  (Len(Polled) + 1 - page.at) * (ClientTimeout + 1) + ClientTimeout - page.waited

\* Whatever the services and their databases do, the guard of a step of GET /status
\* that is under way holds: a service is up, refuses, is still waited for, or has
\* used up its time or that of all.
StatusNotStuck == page.at # 0 => PageMayGo

\* Each of these steps brings the answer nearer, and nothing else holds it up.
StatusMovesOn ==
  [][page.at # 0 => \/ page' = page /\ ~PageStep
                    \/ page' = NoPage
                    \/ StepsLeft' \in Nat /\ StepsLeft' < StepsLeft]_vars

\* A service other than the alert-service that serves has made its table first.
TableBeforeServing ==
  \A s \in MakesTable \ {"alert"} : proc[s] = "listen" => s \in tables

PageNumbers == /\ page.at \in 0..(Len(Polled) + 1) /\ Len(Polled) \in Nat
               /\ page.spent \in 0..5 /\ page.waited \in 0..3

LEMMA PageIsNumbers == TypeInv => PageNumbers
  BY Places DEF TypeInv, HealthTypeOK, PageNumbers, Budget, ClientTimeout

\* A GET /status that is under way always has a step to take.
THEOREM StatusNeverStuck == Spec => []StatusNotStuck
<1>1. TypeInv => StatusNotStuck
  <2> SUFFICES ASSUME TypeInv, page.at # 0, page.at # Len(Polled) + 1 PROVE PageMayGo
    BY DEF StatusNotStuck, PageMayGo
  <2>1. Asking /\ page.waited \in 0..3 /\ page.spent \in 0..5
    BY PageIsNumbers, Places DEF PageNumbers, Asking
  <2>2. page.waited = ClientTimeout \/ page.waited < ClientTimeout
    BY <2>1 DEF ClientTimeout
  <2>3. page.spent = Budget \/ page.spent < Budget
    BY <2>1 DEF Budget
  <2> QED BY <2>1, <2>2, <2>3 DEF PageMayGo
<1> QED BY <1>1, TypeInit, TypeStep, PTL DEF Spec

\* GET /status is answered after a number of its own steps that only the number of
\* the services determines, four for each of them, whatever hangs.
THEOREM StatusMovesOnTheorem == Spec => StatusMovesOn
<1> DEFINE Moved == page.at # 0 => \/ page' = page /\ ~PageStep
                                   \/ page' = NoPage
                                   \/ StepsLeft' \in Nat /\ StepsLeft' < StepsLeft
<1>1. ASSUME TypeInv, Next PROVE Moved
  <2>n. PageNumbers /\ PageNumbers'
    BY <1>1, TypeStep, Places DEF TypeInv, HealthTypeOK, PageNumbers, Budget, ClientTimeout
  <2>1. ASSUME NEW how, Asking, Note(how) PROVE Moved
    <3>1. page'.at = page.at + 1 /\ page'.waited = 0
      BY <1>1, <2>1 DEF Note, TypeInv, HealthTypeOK
    <3> QED BY <2>n, <3>1 DEF PageNumbers, StepsLeft, ClientTimeout
  <2>2. CASE Second
    <3>1. page'.at = page.at /\ page'.waited = page.waited + 1
      BY <1>1, <2>2 DEF Second, TypeInv, HealthTypeOK
    <3> QED BY <2>n, <3>1 DEF PageNumbers, StepsLeft, ClientTimeout
  <2>3. CASE Reply
    BY <2>3 DEF Reply
  <2>4. CASE PageStep
    BY <2>1, <2>2, <2>3, <2>4 DEF PageStep, FindUp, FindDown, GiveUp
  <2>5. CASE ~PageStep /\ ((\E s \in Deployed : StartStep(s)) \/ Trouble)
    BY <2>5, SystemQuiet DEF pageVars
  <2>6. CASE AskStatus
    BY <2>6 DEF AskStatus
  <2> QED BY <1>1, <2>4, <2>5, <2>6 DEF Next
<1>2. TypeInv /\ [Next]_vars => [Moved]_vars
  BY <1>1
<1>3. Spec => [][Moved]_vars
  <2> HIDE DEF Moved
  <2> QED BY <1>2, TypeInit, TypeStep, PTL DEF Spec
<1> QED BY <1>3 DEF StatusMovesOn

\* No process of a service that needs a table, but the alert-service's, serves
\* without it, in whatever order databases fail and processes are started again.
THEOREM TableBeforeServingTheorem == Spec => []TableBeforeServing
<1>1. Init => TableBeforeServing
  BY DEF Init, TableBeforeServing, MakesTable
<1>2. TypeInv /\ TableBeforeServing /\ [Next]_vars => TableBeforeServing'
  <2> SUFFICES ASSUME TypeInv, TableBeforeServing, [Next]_vars PROVE TableBeforeServing'
    OBVIOUS
  <2>t. proc \in [Deployed -> {"exited", "connect", "create", "listen"}]
    BY DEF TypeInv, HealthTypeOK
  <2>1. CASE UNCHANGED <<proc, tables>>
    BY <2>1 DEF TableBeforeServing
  <2>2. ASSUME NEW s \in Deployed, Start(s) PROVE TableBeforeServing'
    BY <2>t, <2>2 DEF Start, Becomes, TableBeforeServing, MakesTable
  <2>3. ASSUME NEW s \in Deployed, Connect(s) PROVE TableBeforeServing'
    BY <2>t, <2>3 DEF Connect, Becomes, TableBeforeServing, MakesTable
  <2>4. ASSUME NEW s \in Deployed, CreateTable(s) PROVE TableBeforeServing'
    BY <2>t, <2>4 DEF CreateTable, Becomes, TableBeforeServing, MakesTable
  <2>5. ASSUME NEW s \in Deployed, Exit(s) PROVE TableBeforeServing'
    BY <2>t, <2>5 DEF Exit, Becomes, TableBeforeServing, MakesTable
  <2>6. CASE UNCHANGED vars
    BY <2>1, <2>6 DEF vars
  <2>7. CASE AskStatus \/ PageStep
    BY <2>1, <2>7 DEF AskStatus, PageStep, FindUp, FindDown, GiveUp, Note, Second,
                      Reply, sysVars
  <2>8. CASE Trouble
    BY <2>1, <2>5, <2>8 DEF Trouble, FallSilent, Return, DbFails, DbReturns
  <2> QED BY <2>2, <2>3, <2>4, <2>6, <2>7, <2>8 DEF Next, StartStep
<1> QED BY <1>1, <1>2, TypeInit, TypeStep, PTL DEF Spec

=============================================================================
