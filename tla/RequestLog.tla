----------------------------- MODULE RequestLog -----------------------------
(***************************************************************************)
(* The gateway's in-memory request log, a ring of maxSize entries with the *)
(* position of the next write.  One RWMutex guards all of it, so that each *)
(* operation is one step.                                                  *)
(***************************************************************************)
EXTENDS Integers, Sequences, FiniteSets

CONSTANTS
  Mark,      \* what GetStats counts: status codes, methods, paths, cache hits, ...
  Blank,     \* the zero LogEntry
  MaxSize    \* slots of the ring; NewLogger makes 1000 of what is not positive

\* What a request leaves in the log is known by what it counts for.
Entry == [marks : SUBSET Mark]

ASSUME LogAssumption ==
  /\ MaxSize \in Nat \ {0}
  /\ Blank \notin Entry

VARIABLES entries, index, isFull

vars == <<entries, index, isFull>>

Slot == 0..(MaxSize - 1)

LogTypeOK ==
  /\ entries \in [Slot -> Entry \cup {Blank}]
  /\ index \in Slot
  /\ isFull \in BOOLEAN

Init ==
  /\ entries = [i \in Slot |-> Blank]
  /\ index = 0
  /\ isFull = FALSE

\* Mutant: the position is not wrapped.
LogUnwrapped(e) ==
  /\ entries' = [entries EXCEPT ![index] = e]
  /\ index' = index + 1
  /\ isFull' = (isFull \/ index' = 0)

\* Mutant: the flag is set by the write to the last slot, one entry too early.
LogFullEarly(e) ==
  /\ entries' = [entries EXCEPT ![index] = e]
  /\ index' = (index + 1) % MaxSize
  /\ isFull' = (isFull \/ index' = MaxSize - 1)

Log(e) ==
  /\ entries' = [entries EXCEPT ![index] = e]
  /\ index' = (index + 1) % MaxSize
  /\ isFull' = (isFull \/ index' = 0)

Clear ==
  /\ entries' = [i \in Slot |-> Blank]
  /\ index' = 0
  /\ isFull' = FALSE

Next == (\E e \in Entry : Log(e)) \/ Clear

Spec == Init /\ [][Next]_vars

-----------------------------------------------------------------------------
\* The slots below index are all written: the test of their time stamp in the
\* code never fails (NoBlankKept).
GetEntries ==
  IF isFull THEN [i \in 1..MaxSize |-> entries[(index + i - 1) % MaxSize]]
            ELSE [i \in 1..index |-> entries[i - 1]]

\* Mutant: an off-by-one in the slice.
GetLastNPlusOne(n) == IF Len(GetEntries) <= n THEN GetEntries
                      ELSE SubSeq(GetEntries, Len(GetEntries) - n, Len(GetEntries))

\* A negative n is a panic; nothing calls it with one.
GetLastN(n) == IF Len(GetEntries) <= n THEN GetEntries
               ELSE SubSeq(GetEntries, Len(GetEntries) - n + 1, Len(GetEntries))

\* Mutant: GetStats forgets that the ring has wrapped.
StatsBelowIndex(m) == Cardinality({i \in Slot : i < index /\ m \in entries[i].marks})

GetStats(m) == Cardinality({i \in DOMAIN GetEntries : m \in GetEntries[i].marks})

Recent == INSTANCE RecentRequests WITH kept <- GetEntries

\* logger.go:62, "GetEntries returns all log entries in chronological order":
\* the ring behaves as the list of the latest MaxSize entries.
KeepsTheLatest == Recent!Spec

\* logger.go:88, "GetLastN returns the last N entries": as many as there are, and
\* the k-th latest of them is what was written k positions ago.
LastNAreLatest ==
  \A n \in 0..(MaxSize + 1) :
    LET last == GetLastN(n) IN
      /\ Len(last) = IF n < Len(GetEntries) THEN n ELSE Len(GetEntries)
      /\ \A k \in 1..Len(last) :
            last[Len(last) - k + 1] = entries[(index - k + MaxSize) % MaxSize]

\* The statistics are those of a sliding window: an entry counts from its Log on
\* until the write that takes its slot, or a Clear.
Counts(m, e) == IF m \in e.marks THEN 1 ELSE 0

StatsSlide ==
  [][\A m \in Mark :
       IF index' = 0 /\ ~isFull'
         THEN GetStats(m)' = 0
         ELSE GetStats(m)' = GetStats(m) + Counts(m, entries'[index])
                - (IF isFull THEN Counts(m, entries[index]) ELSE 0)]_vars

\* What GetEntries, GetLastN and GetStats show was logged: no slot that was never
\* written since the last Clear is among it.
NoBlankKept == \A i \in DOMAIN GetEntries : GetEntries[i] \in Entry

=============================================================================
