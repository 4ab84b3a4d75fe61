-------------------------- MODULE RequestLog_proofs --------------------------
(***************************************************************************)
(* Proofs about RequestLog: the ring never shows a slot that was not       *)
(* written, and it implements the list of the latest entries.              *)
(***************************************************************************)
EXTENDS RequestLog, FiniteSetTheorems, TLAPS

LEMMA ModBelow == ASSUME NEW M \in Nat \ {0}, NEW x \in 0..(M - 1)
                  PROVE  x % M = x
  OBVIOUS

LEMMA ModAbove == ASSUME NEW M \in Nat \ {0}, NEW x \in M..(2 * M - 1)
                  PROVE  x % M = x - M
  OBVIOUS

LEMMA SlotFacts == /\ MaxSize \in Nat \ {0}
                   /\ 0 \in Slot
                   /\ \A i \in Slot : i \in Nat /\ i < MaxSize
                   /\ \A i \in Nat : i < MaxSize => i \in Slot
  BY LogAssumption DEF Slot

\* A position at most one turn ahead, taken modulo the size, is a slot.
LEMMA Wrapped ==
  ASSUME NEW i \in Nat, i < 2 * MaxSize
  PROVE  /\ i % MaxSize = IF i < MaxSize THEN i ELSE i - MaxSize
         /\ i % MaxSize \in Slot
<1>1. CASE i < MaxSize
  BY <1>1, ModBelow, SlotFacts
<1>2. CASE ~(i < MaxSize)
  <2>1. i % MaxSize = i - MaxSize
    <3>1. i \in MaxSize..(2 * MaxSize - 1)
      BY <1>2, SlotFacts
    <3> QED BY <3>1, ModAbove, SlotFacts
  <2>2. i - MaxSize \in Nat /\ i - MaxSize < MaxSize
    BY <1>2, SlotFacts
  <2>3. i - MaxSize \in Slot
    BY <2>2, SlotFacts
  <2> QED BY <1>2, <2>1, <2>3
<1> QED BY <1>1, <1>2

LEMMA NextIndex ==
  ASSUME NEW i \in Slot
  PROVE  /\ (i + 1) % MaxSize = IF i + 1 = MaxSize THEN 0 ELSE i + 1
         /\ (i + 1) % MaxSize \in Slot
  BY Wrapped, SlotFacts

-----------------------------------------------------------------------------
\* The inductive invariant: the slots that GetEntries reads have been written
\* since the last Clear.  They are the slots below index, or all of them once the
\* ring is full.
Written == \A i \in Slot : isFull \/ i < index => entries[i] \in Entry

RingInv == LogTypeOK /\ Written

\* An empty ring satisfies it.
LEMMA EmptyRing ==
  ASSUME NEW es, es = [i \in Slot |-> Blank], NEW ix, ix = 0
  PROVE  /\ es \in [Slot -> Entry \cup {Blank}] /\ ix \in Slot
         /\ \A i \in Slot : ~(i < ix)
<1>1. \A i \in Slot : i \in Nat
  BY SlotFacts
<1> QED BY <1>1, SlotFacts

LEMMA RingInvInit == Init => RingInv
<1> SUFFICES ASSUME Init PROVE RingInv
  OBVIOUS
<1>1. /\ entries \in [Slot -> Entry \cup {Blank}] /\ index \in Slot
      /\ \A i \in Slot : ~(i < index)
  BY EmptyRing DEF Init
<1> QED BY <1>1 DEF Init, RingInv, LogTypeOK, Written

LEMMA RingInvLog == ASSUME RingInv, NEW e \in Entry, Log(e) PROVE RingInv'
<1> USE DEF RingInv, LogTypeOK
<1>1. /\ index' = (IF index + 1 = MaxSize THEN 0 ELSE index + 1)
      /\ index' \in Slot
  BY NextIndex DEF Log
<1>2. entries' = [entries EXCEPT ![index] = e] /\ isFull' = (isFull \/ index' = 0)
  BY DEF Log
<1>3. entries' \in [Slot -> Entry \cup {Blank}] /\ isFull' \in BOOLEAN
  BY <1>2
<1>4. ASSUME NEW i \in Slot, isFull' \/ i < index' PROVE entries'[i] \in Entry
  <2>1. CASE i = index
    BY <1>2, <2>1
  <2>2. CASE i # index
    <3>1. isFull \/ i < index
      BY <1>1, <1>2, <1>4, <2>2, SlotFacts
    <3> QED BY <1>2, <2>2, <3>1 DEF Written
  <2> QED BY <2>1, <2>2
<1> QED BY <1>1, <1>3, <1>4 DEF Written

LEMMA RingInvNext == RingInv /\ [Next]_vars => RingInv'
<1> SUFFICES ASSUME RingInv, [Next]_vars PROVE RingInv'
  OBVIOUS
<1>1. ASSUME NEW e \in Entry, Log(e) PROVE RingInv'
  BY <1>1, RingInvLog
<1>2. CASE Clear
  <2>1. /\ entries' \in [Slot -> Entry \cup {Blank}] /\ index' \in Slot
        /\ \A i \in Slot : ~(i < index')
    BY <1>2, EmptyRing DEF Clear
  <2> QED BY <1>2, <2>1 DEF Clear, RingInv, LogTypeOK, Written
<1>3. CASE UNCHANGED vars
  BY <1>3 DEF vars, RingInv, LogTypeOK, Written
<1> QED BY <1>1, <1>2, <1>3 DEF Next

LEMMA RingTheorem == Spec => []RingInv
  BY RingInvInit, RingInvNext, PTL DEF Spec

\* The ring and its position stay in bounds.
THEOREM LogTypeCorrect == Spec => []LogTypeOK
<1>1. RingInv => LogTypeOK
  BY DEF RingInv
<1> QED BY <1>1, RingTheorem, PTL

-----------------------------------------------------------------------------
\* What GetEntries returns in either case, position by position.
Shape ==
  /\ GetEntries \in Seq(Entry)
  /\ Len(GetEntries) = IF isFull THEN MaxSize ELSE index
  /\ \A i \in 1..Len(GetEntries) :
       GetEntries[i] = IF ~isFull THEN entries[i - 1]
                       ELSE IF index + i - 1 < MaxSize THEN entries[index + i - 1]
                       ELSE entries[index + i - 1 - MaxSize]

LEMMA EntriesShape == RingInv => Shape
<1> SUFFICES ASSUME RingInv PROVE Shape
  OBVIOUS
<1> USE DEF RingInv, LogTypeOK
<1>0. index \in Nat /\ index < MaxSize /\ MaxSize \in Nat
  BY SlotFacts
<1>1. CASE isFull
  <2>1. ASSUME NEW i \in 1..MaxSize
        PROVE  /\ entries[(index + i - 1) % MaxSize] \in Entry
               /\ (index + i - 1) % MaxSize =
                    IF index + i - 1 < MaxSize THEN index + i - 1
                                               ELSE index + i - 1 - MaxSize
    <3>1. index + i - 1 \in Nat /\ index + i - 1 < 2 * MaxSize
      BY <1>0
    <3>2. (index + i - 1) % MaxSize \in Slot
      BY <3>1, Wrapped
    <3>3. entries[(index + i - 1) % MaxSize] \in Entry
      BY <1>1, <3>2 DEF Written
    <3>4. (index + i - 1) % MaxSize = IF index + i - 1 < MaxSize
                                        THEN index + i - 1 ELSE index + i - 1 - MaxSize
      <4> DEFINE j == index + i - 1
      <4>1. j \in Nat /\ j < 2 * MaxSize
        BY <3>1
      <4> HIDE DEF j
      <4>2. j % MaxSize = IF j < MaxSize THEN j ELSE j - MaxSize
        BY <4>1, Wrapped
      <4> QED BY <1>0, <4>2 DEF j
    <3> QED BY <3>3, <3>4
  <2>2. GetEntries = [i \in 1..MaxSize |-> entries[(index + i - 1) % MaxSize]]
    BY <1>1 DEF GetEntries
  <2>3. GetEntries \in Seq(Entry) /\ Len(GetEntries) = MaxSize
    <3>1. GetEntries \in [1..MaxSize -> Entry]
      BY <2>1, <2>2
    <3> QED BY <1>0, <3>1
  <2>4. ASSUME NEW i \in 1..MaxSize
        PROVE  GetEntries[i] = IF index + i - 1 < MaxSize THEN entries[index + i - 1]
                               ELSE entries[index + i - 1 - MaxSize]
    BY <2>1, <2>2
  <2> QED BY <1>1, <2>3, <2>4 DEF Shape
<1>2. CASE ~isFull
  <2>1. ASSUME NEW i \in 1..index PROVE entries[i - 1] \in Entry
    <3>1. i - 1 \in Slot /\ i - 1 < index
      BY <1>0, SlotFacts
    <3> QED BY <3>1 DEF Written
  <2>2. GetEntries = [i \in 1..index |-> entries[i - 1]]
    BY <1>2 DEF GetEntries
  <2>3. GetEntries \in Seq(Entry) /\ Len(GetEntries) = index
    BY <1>0, <2>1, <2>2
  <2> QED BY <1>2, <2>2, <2>3 DEF Shape
<1> QED BY <1>1, <1>2

\* GetLastN is the end of what GetEntries shows.
LEMMA LastNShape ==
  ASSUME Shape, NEW n \in Nat, NEW L, L = Len(GetEntries), L \in Nat
  PROVE  LET m == IF n < L THEN n ELSE L IN
           /\ Len(GetLastN(n)) = m
           /\ \A j \in 1..m : GetLastN(n)[j] = GetEntries[L - m + j]
<1>1. GetEntries \in Seq(Entry)
  BY DEF Shape
<1>2. CASE L <= n
  <2>1. GetLastN(n) = GetEntries
    BY <1>2 DEF GetLastN
  <2>2. (IF n < L THEN n ELSE L) = L
    BY <1>2
  <2>3. \A j \in 1..L : L - L + j = j
    OBVIOUS
  <2> QED BY <2>1, <2>2, <2>3
<1>3. CASE ~(L <= n)
  <2>1. GetLastN(n) = SubSeq(GetEntries, L - n + 1, L)
    BY <1>3 DEF GetLastN
  <2> DEFINE g == GetEntries
  <2>a. g \in Seq(Entry) /\ Len(g) = L /\ n \in Nat /\ L \in Nat /\ n < L
    BY <1>1, <1>3
  <2> HIDE DEF g
  <2>b. /\ Len(SubSeq(g, L - n + 1, L)) = n
        /\ \A j \in 1..n : SubSeq(g, L - n + 1, L)[j] = g[L - n + j]
    BY <2>a
  <2>2. Len(GetLastN(n)) = n
    BY <2>1, <2>b DEF g
  <2>3. \A j \in 1..n : GetLastN(n)[j] = GetEntries[L - n + j]
    BY <2>1, <2>b DEF g
  <2>4. (IF n < L THEN n ELSE L) = n
    BY <2>a
  <2> QED BY <2>2, <2>3, <2>4
<1> QED BY <1>2, <1>3

\* However often the ring has wrapped and whatever n is, GetLastN returns the latest
\* entries, down to the oldest that is kept.
THEOREM LastNTheorem == Spec => []LastNAreLatest
<1>1. RingInv /\ Shape => LastNAreLatest
  <2> SUFFICES ASSUME RingInv, Shape, NEW n \in 0..(MaxSize + 1)
               PROVE  LET last == GetLastN(n) IN
                        /\ Len(last) = IF n < Len(GetEntries) THEN n ELSE Len(GetEntries)
                        /\ \A k \in 1..Len(last) : last[Len(last) - k + 1] =
                               entries[(index - k + MaxSize) % MaxSize]
    BY DEF LastNAreLatest
  <2> DEFINE L == Len(GetEntries)
             m == IF n < L THEN n ELSE L
  <2>0. index \in Nat /\ index < MaxSize /\ MaxSize \in Nat /\ n \in Nat
    BY SlotFacts DEF RingInv, LogTypeOK
  <2>1. L = (IF isFull THEN MaxSize ELSE index) /\ L \in Nat
    BY <2>0 DEF Shape
  <2>2. /\ Len(GetLastN(n)) = m
        /\ \A j \in 1..m : GetLastN(n)[j] = GetEntries[L - m + j]
    BY <2>0, <2>1, LastNShape
  <2>3. ASSUME NEW k \in 1..m
        PROVE  GetLastN(n)[m - k + 1] = entries[(index - k + MaxSize) % MaxSize]
    <3>1. m - k + 1 \in 1..m /\ L - m + (m - k + 1) = L - k + 1 /\ L - k + 1 \in 1..L
      BY <2>0, <2>1
    <3>2. GetLastN(n)[m - k + 1] = GetEntries[L - k + 1]
      <4> DEFINE j == m - k + 1
      <4>1. j \in 1..m /\ L - m + j = L - k + 1
        BY <3>1
      <4> HIDE DEF j, m, L
      <4>2. GetLastN(n)[j] = GetEntries[L - m + j]
        BY <2>2, <4>1
      <4>3. GetLastN(n)[j] = GetEntries[L - k + 1]
        BY <4>1, <4>2
      <4> QED BY <4>3 DEF j
    <3>3. GetEntries[L - k + 1] =
            IF ~isFull THEN entries[(L - k + 1) - 1]
            ELSE IF index + (L - k + 1) - 1 < MaxSize THEN entries[index + (L - k + 1) - 1]
            ELSE entries[index + (L - k + 1) - 1 - MaxSize]
      BY <3>1 DEF Shape
    <3>4. (index - k + MaxSize) % MaxSize =
            IF index < k THEN index - k + MaxSize ELSE index - k
      <4> DEFINE w == index - k + MaxSize
      <4>0. k \in Nat /\ 1 <= k /\ k <= MaxSize
        BY <2>0, <2>1
      <4>1. w \in Nat /\ w < 2 * MaxSize /\ (w < MaxSize <=> index < k)
            /\ w - MaxSize = index - k
        BY <2>0, <4>0
      <4> HIDE DEF w
      <4>2. w % MaxSize = IF w < MaxSize THEN w ELSE w - MaxSize
        BY <4>1, Wrapped
      <4>3. w % MaxSize = IF index < k THEN w ELSE index - k
        BY <4>1, <4>2
      <4> QED BY <4>3 DEF w
    <3>5. CASE isFull
      <4>1. L = MaxSize /\ k \in Nat
        BY <2>1, <3>5
      <4>2. /\ index + (L - k + 1) - 1 = index - k + MaxSize
            /\ index + (L - k + 1) - 1 - MaxSize = index - k
            /\ index + (L - k + 1) - 1 < MaxSize <=> index < k
        BY <4>1, <2>0
      <4> QED BY <3>2, <3>3, <3>4, <3>5, <4>2
    <3>6. CASE ~isFull
      <4>1. L = index /\ k \in Nat /\ k <= index
        BY <2>0, <2>1, <3>6
      <4>2. (L - k + 1) - 1 = index - k /\ ~(index < k)
        BY <4>1, <2>0
      <4> QED BY <3>2, <3>3, <3>4, <3>6, <4>2
    <3> QED BY <3>5, <3>6
  <2> HIDE DEF L, m
  <2>4. m = IF n < Len(GetEntries) THEN n ELSE Len(GetEntries)
    BY DEF m, L
  <2> QED BY <2>2, <2>3, <2>4
<1> QED BY <1>1, EntriesShape, RingTheorem, PTL

\* Every entry that GetEntries shows was logged since the last Clear.
THEOREM NoBlankKeptTheorem == Spec => []NoBlankKept
<1>1. Shape => NoBlankKept
  BY DEF NoBlankKept, Shape
<1> QED BY <1>1, EntriesShape, RingTheorem, PTL

-----------------------------------------------------------------------------
\* A Log step of the ring is a Log step of the list: until the ring is full the
\* entry is appended, and then it also takes the place of the oldest one.
LEMMA LogImplements ==
  ASSUME RingInv, Shape, Shape', NEW e \in Entry, Log(e)
  PROVE  GetEntries' = Recent!Latest(Append(GetEntries, e))
<1> USE DEF RingInv, LogTypeOK
<1> DEFINE old == GetEntries
           new == GetEntries'
           longer == Append(old, e)
<1>1. /\ index' = (IF index + 1 = MaxSize THEN 0 ELSE index + 1)
      /\ entries' = [entries EXCEPT ![index] = e]
      /\ isFull' = (isFull \/ index' = 0)
  BY NextIndex DEF Log
<1>2. /\ index \in Nat /\ index < MaxSize /\ MaxSize \in Nat \ {0}
      /\ DOMAIN entries = Slot /\ index \in Slot
  BY SlotFacts
<1>3. /\ old \in Seq(Entry)
      /\ Len(old) = IF isFull THEN MaxSize ELSE index
      /\ \A i \in 1..Len(old) :
           old[i] = IF ~isFull THEN entries[i - 1]
                    ELSE IF index + i - 1 < MaxSize THEN entries[index + i - 1]
                    ELSE entries[index + i - 1 - MaxSize]
  BY DEF Shape
<1>4. /\ new \in Seq(Entry)
      /\ Len(new) = IF isFull' THEN MaxSize ELSE index'
      /\ \A i \in 1..Len(new) :
           new[i] = IF ~isFull' THEN entries'[i - 1]
                    ELSE IF index' + i - 1 < MaxSize THEN entries'[index' + i - 1]
                    ELSE entries'[index' + i - 1 - MaxSize]
  BY DEF Shape
<1>5. /\ longer \in Seq(Entry)
      /\ Len(longer) = Len(old) + 1
      /\ \A i \in 1..Len(longer) : longer[i] = IF i = Len(longer) THEN e ELSE old[i]
  BY <1>3
<1>6. \A i \in Slot : entries'[i] = IF i = index THEN e ELSE entries[i]
  BY <1>1, <1>2
<1> HIDE DEF old, new, longer
<1>7. CASE ~isFull
  <2>1. Len(new) = Len(longer)
    <3>1. CASE index + 1 = MaxSize
      BY <1>1, <1>2, <1>3, <1>4, <1>5, <1>7, <3>1
    <3>2. CASE index + 1 # MaxSize
      BY <1>1, <1>2, <1>3, <1>4, <1>5, <1>7, <3>2
    <3> QED BY <3>1, <3>2
  <2>2. ASSUME NEW i \in 1..Len(new) PROVE new[i] = longer[i]
    <3>1. i - 1 \in Slot /\ i - 1 <= index
      BY <1>2, <1>3, <1>5, <1>7, <2>1, SlotFacts
    <3>2. new[i] = entries'[i - 1]
      BY <1>1, <1>2, <1>4, <1>7, <3>1, SlotFacts
    <3>3. CASE i - 1 = index
      BY <1>2, <1>3, <1>5, <1>6, <1>7, <2>1, <3>1, <3>2, <3>3
    <3>4. CASE i - 1 # index
      BY <1>2, <1>3, <1>5, <1>6, <1>7, <2>1, <3>1, <3>2, <3>4
    <3> QED BY <3>3, <3>4
  <2>3. new = longer
    BY <1>4, <1>5, <2>1, <2>2
  <2>4. ~(Len(longer) > MaxSize)
    BY <1>2, <1>3, <1>5, <1>7
  <2> QED BY <2>3, <2>4 DEF Recent!Latest, old, new, longer
<1>8. CASE isFull
  <2>1. Len(longer) = MaxSize + 1 /\ Len(new) = MaxSize
    BY <1>1, <1>2, <1>3, <1>4, <1>5, <1>8
  <2>2. /\ Tail(longer) \in Seq(Entry)
        /\ Len(Tail(longer)) = MaxSize
        /\ \A i \in 1..MaxSize : Tail(longer)[i] = longer[i + 1]
    BY <1>2, <1>5, <2>1
  <2>3. ASSUME NEW i \in 1..MaxSize PROVE new[i] = longer[i + 1]
    <3>1. CASE i = MaxSize
      <4>1. new[i] = entries'[index]
        BY <1>1, <1>2, <1>4, <1>8, <2>1, <3>1
      <4> QED BY <1>2, <1>5, <1>6, <2>1, <3>1, <4>1
    <3>2. CASE i < MaxSize
      <4>1. longer[i + 1] = old[i + 1]
        BY <1>2, <1>5, <2>1, <3>2
      <4>2. CASE index + i < MaxSize
        <5>1. index + i \in Slot /\ index + i # index
          BY <1>2, <4>2, SlotFacts
        <5>2. new[i] = entries'[index + i]
          BY <1>1, <1>2, <1>4, <1>8, <2>1, <4>2
        <5>3. old[i + 1] = entries[index + i]
          BY <1>2, <1>3, <1>8, <3>2, <4>2
        <5> QED BY <1>6, <4>1, <5>1, <5>2, <5>3
      <4>3. CASE ~(index + i < MaxSize)
        <5>1. index + i - MaxSize \in Slot /\ index + i - MaxSize # index
          BY <1>2, <3>2, <4>3, SlotFacts
        <5>2. new[i] = entries'[index + i - MaxSize]
          BY <1>1, <1>2, <1>4, <1>8, <2>1, <4>3
        <5>3. old[i + 1] = entries[index + i - MaxSize]
          BY <1>2, <1>3, <1>8, <3>2, <4>3
        <5> QED BY <1>6, <4>1, <5>1, <5>2, <5>3
      <4> QED BY <4>2, <4>3
    <3> QED BY <1>2, <3>1, <3>2
  <2>4. new = Tail(longer)
    BY <1>4, <2>1, <2>2, <2>3
  <2> QED BY <1>2, <2>1, <2>4 DEF Recent!Latest, old, new, longer
<1> QED BY <1>7, <1>8

\* The ring implements the list of the MaxSize latest entries, for every size and
\* every history of Log and Clear.
THEOREM LogImplementsTheorem == Spec => KeepsTheLatest
<1>1. Init => Recent!Init
  BY DEF Init, Recent!Init, GetEntries
<1>2. RingInv /\ Shape /\ Shape' /\ [Next]_vars => [Recent!Next]_GetEntries
  <2> SUFFICES ASSUME RingInv, Shape, Shape', [Next]_vars
               PROVE  [Recent!Next]_GetEntries
    OBVIOUS
  <2>1. ASSUME NEW e \in Entry, Log(e) PROVE Recent!Next
    BY <2>1, LogImplements DEF Recent!Next, Recent!Log
  <2>2. CASE Clear
    <3>1. GetEntries' = << >>
      BY <2>2 DEF Clear, GetEntries
    <3> QED BY <3>1 DEF Recent!Next, Recent!Clear
  <2>3. CASE UNCHANGED vars
    BY <2>3 DEF vars, GetEntries
  <2> QED BY <2>1, <2>2, <2>3 DEF Next
<1> QED BY <1>1, <1>2, EntriesShape, RingTheorem, PTL
           DEF Spec, KeepsTheLatest, Recent!Spec

-----------------------------------------------------------------------------
(* The statistics count positions of the list.                             *)

Positions(m, s) == {i \in DOMAIN s : m \in s[i].marks}

LEMMA PositionsFinite ==
  ASSUME NEW m, NEW s \in Seq(Entry)
  PROVE  IsFiniteSet(Positions(m, s)) /\ Cardinality(Positions(m, s)) \in Nat
<1>1. DOMAIN s = 1..Len(s) /\ Len(s) \in Nat
  OBVIOUS
<1>2. IsFiniteSet(1..Len(s))
  BY <1>1, FS_Interval
<1>3. IsFiniteSet(Positions(m, s))
  BY <1>1, <1>2, FS_Subset DEF Positions
<1> QED BY <1>3, FS_CardinalityType

LEMMA CountAppended ==
  ASSUME NEW m, NEW s \in Seq(Entry), NEW e \in Entry
  PROVE  Cardinality(Positions(m, Append(s, e)))
            = Cardinality(Positions(m, s)) + Counts(m, e)
<1>1. /\ Len(s) \in Nat /\ DOMAIN s = 1..Len(s)
      /\ DOMAIN Append(s, e) = 1..(Len(s) + 1)
      /\ Append(s, e)[Len(s) + 1] = e
      /\ \A i \in 1..Len(s) : Append(s, e)[i] = s[i]
  OBVIOUS
<1>2. /\ Len(s) + 1 \notin Positions(m, s)
      /\ Positions(m, Append(s, e)) =
            IF m \in e.marks THEN Positions(m, s) \cup {Len(s) + 1} ELSE Positions(m, s)
  BY <1>1 DEF Positions
<1>3. IsFiniteSet(Positions(m, s)) /\ Cardinality(Positions(m, s)) \in Nat
  BY PositionsFinite
<1>4. Cardinality(Positions(m, s) \cup {Len(s) + 1}) = Cardinality(Positions(m, s)) + 1
  BY <1>2, <1>3, FS_AddElement
<1> QED BY <1>2, <1>3, <1>4 DEF Counts

LEMMA CountTail ==
  ASSUME NEW m, NEW s \in Seq(Entry), Len(s) > 0
  PROVE  Cardinality(Positions(m, Tail(s)))
            = Cardinality(Positions(m, s)) - Counts(m, s[1])
<1> DEFINE rest == Positions(m, s) \ {1}
           later == [i \in Positions(m, Tail(s)) |-> i + 1]
<1>1. /\ Len(s) \in Nat /\ DOMAIN s = 1..Len(s)
      /\ Tail(s) \in Seq(Entry) /\ DOMAIN Tail(s) = 1..(Len(s) - 1)
      /\ \A i \in 1..(Len(s) - 1) : Tail(s)[i] = s[i + 1]
  OBVIOUS
<1>2. later \in Bijection(Positions(m, Tail(s)), rest)
  <2>1. later \in [Positions(m, Tail(s)) -> rest]
    BY <1>1 DEF Positions
  <2>2. \A i, j \in Positions(m, Tail(s)) : later[i] = later[j] => i = j
    BY <1>1 DEF Positions
  <2>3. ASSUME NEW k \in rest PROVE \E i \in Positions(m, Tail(s)) : later[i] = k
    <3>1. k - 1 \in Positions(m, Tail(s)) /\ (k - 1) + 1 = k
      BY <1>1 DEF Positions
    <3> QED BY <3>1
  <2> QED BY <2>1, <2>2, <2>3 DEF Bijection, Injection, Surjection, IsInjective
<1> HIDE DEF later
<1>3. Cardinality(rest) = Cardinality(Positions(m, Tail(s)))
  <2>1. IsFiniteSet(Positions(m, Tail(s)))
    BY <1>1, PositionsFinite
  <2>2. ExistsBijection(Positions(m, Tail(s)), rest)
    BY <1>2 DEF ExistsBijection
  <2> QED BY <2>1, <2>2, FS_Bijection
<1>4. 1 \in Positions(m, s) <=> m \in s[1].marks
  BY <1>1 DEF Positions
<1>5. Cardinality(rest) =
         IF 1 \in Positions(m, s) THEN Cardinality(Positions(m, s)) - 1
                                  ELSE Cardinality(Positions(m, s))
  BY PositionsFinite, FS_RemoveElement
<1> HIDE DEF rest
<1> QED BY <1>3, <1>4, <1>5, PositionsFinite DEF Counts

\* The step of StatsSlide.
Slides ==
  \A m \in Mark :
     IF index' = 0 /\ ~isFull'
       THEN GetStats(m)' = 0
       ELSE GetStats(m)' = GetStats(m) + Counts(m, entries'[index])
              - (IF isFull THEN Counts(m, entries[index]) ELSE 0)

LEMMA LogSlides ==
  ASSUME RingInv, Shape, Shape', NEW e \in Entry, Log(e)
  PROVE  Slides
<1>1. SUFFICES ASSUME NEW m \in Mark
               PROVE  GetStats(m)' = GetStats(m) + Counts(m, e)
                        - (IF isFull THEN Counts(m, entries[index]) ELSE 0)
  BY DEF Slides, Log, RingInv, LogTypeOK
<1>2. SUFFICES ASSUME NEW old, NEW new, old = GetEntries, new = GetEntries'
               PROVE  Cardinality(Positions(m, new)) =
                        Cardinality(Positions(m, old)) + Counts(m, e)
                          - (IF isFull THEN Counts(m, entries[index]) ELSE 0)
  BY DEF GetStats, Positions
<1>3. /\ old \in Seq(Entry)
      /\ Len(old) = IF isFull THEN MaxSize ELSE index
      /\ isFull => old[1] = entries[index]
  BY <1>2, SlotFacts DEF Shape, RingInv, LogTypeOK
<1>4. /\ Append(old, e) \in Seq(Entry) /\ Len(Append(old, e)) = Len(old) + 1
      /\ Len(old) > 0 => Append(old, e)[1] = old[1]
  BY <1>3
<1>5. new = IF isFull THEN Tail(Append(old, e)) ELSE Append(old, e)
  BY <1>2, <1>3, <1>4, LogImplements, SlotFacts DEF Recent!Latest, RingInv, LogTypeOK
<1>6. Cardinality(Positions(m, Append(old, e)))
         = Cardinality(Positions(m, old)) + Counts(m, e)
  BY <1>3, CountAppended
<1>7. CASE isFull
  <2>1. Append(old, e)[1] = entries[index] /\ Len(Append(old, e)) > 0
    BY <1>3, <1>4, <1>7, SlotFacts
  <2>2. Cardinality(Positions(m, new))
           = Cardinality(Positions(m, Append(old, e))) - Counts(m, entries[index])
    BY <1>4, <1>5, <1>7, <2>1, CountTail
  <2>3. Cardinality(Positions(m, old)) \in Int
    BY <1>3, PositionsFinite
  <2>4. Counts(m, e) \in Int /\ Counts(m, entries[index]) \in Int
    BY DEF Counts
  <2> QED BY <1>6, <1>7, <2>2, <2>3, <2>4
<1>8. CASE ~isFull
  <2>1. Cardinality(Positions(m, old)) \in Int /\ Counts(m, e) \in Int
    BY <1>3, PositionsFinite DEF Counts
  <2> QED BY <1>5, <1>6, <1>8, <2>1
<1> QED BY <1>7, <1>8

\* GetStats counts an entry from its Log on until the write that takes its slot, or
\* a Clear.
THEOREM StatsSlideTheorem == Spec => StatsSlide
<1>1. RingInv /\ Shape /\ Shape' /\ [Next]_vars => [Slides]_vars
  <2> SUFFICES ASSUME RingInv, Shape, Shape', Next PROVE Slides
    OBVIOUS
  <2>1. ASSUME NEW e \in Entry, Log(e) PROVE Slides
    BY <2>1, LogSlides
  <2>2. CASE Clear
    <3>1. GetEntries' = << >>
      BY <2>2 DEF Clear, GetEntries
    <3>2. \A m \in Mark : GetStats(m)' = Cardinality({})
      BY <3>1 DEF GetStats
    <3> QED BY <2>2, <3>2, FS_EmptySet DEF Clear, Slides
  <2> QED BY <2>1, <2>2 DEF Next
<1>2. Spec => [][Slides]_vars
  BY <1>1, EntriesShape, RingTheorem, PTL DEF Spec
<1> QED BY <1>2 DEF StatsSlide, Slides
=============================================================================
