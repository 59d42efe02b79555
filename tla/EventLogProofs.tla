--------------------------- MODULE EventLogProofs ---------------------------
(***************************************************************************)
(* Whatever crashes and torn writes did to the file: the ids of the readable *)
(* events increase in file order, a new event is the newest, and each torn  *)
(* write costs at most one acknowledged event.  As long as none was torn, a *)
(* client that pages misses nothing, and an id means one event.             *)
(***************************************************************************)
EXTENDS EventLog, TLAPS, SequenceTheorems, FiniteSetTheorems,
        WellFoundedInduction

Line == Event \union NoEvent

\* What the proofs need of the types.
LogTypeOK ==
  /\ lines \in Seq(Line)
  /\ tail \in Line
  /\ id \in Nat /\ up \in BOOLEAN
  /\ calls \in Nat

\* The counter of the running process is not behind any id in the file: the
\* next one it hands out is larger than all of them.
CounterAhead == up => \A i \in Readable : Contents[i].id <= id

OrderInv == LogTypeOK /\ IdsIncrease /\ CounterAhead

-----------------------------------------------------------------------------
(* Facts about the file                                                     *)

\* The pieces of the file are its lines, then its tail.
LEMMA ContentsShape ==
  ASSUME lines \in Seq(Line), tail \in Line
  PROVE  /\ Len(Contents) = Len(lines) + 1
         /\ Len(lines) \in Nat
         /\ \A i \in 1..Len(lines) : Contents[i] = lines[i]
         /\ Contents[Len(lines) + 1] = tail
         /\ \A i \in 1..Len(Contents) : Contents[i] \in Line
<1>1. Len(lines) \in Nat
  BY LenProperties
<1>2. /\ Len(Contents) = Len(lines) + 1
      /\ \A i \in 1..Len(lines) : Contents[i] = lines[i]
      /\ Contents[Len(lines) + 1] = tail
  BY AppendProperties DEF Contents
<1>3. \A i \in 1..Len(lines) : lines[i] \in Line
  BY ElementOfSeq
<1>. QED
  BY <1>1, <1>2, <1>3

\* A non-empty set of numbers with a bound has a largest one.
LEMMA HasLast ==
  ASSUME NEW n \in Nat, NEW I \in SUBSET (1..n), I # {}
  PROVE  /\ LastOf(I) \in I
         /\ \A j \in I : j <= LastOf(I)
<1>. DEFINE T == {k \in Nat : n - k \in I}
<1>1. \A i \in I : i \in Nat /\ n - i \in Nat /\ n - (n - i) = i
  OBVIOUS
<1>2. T \subseteq Nat /\ T # {}
  <2>1. PICK i \in I : TRUE
    OBVIOUS
  <2>2. n - i \in T
    BY <1>1
  <2>. QED
    BY <2>2
<1>3. PICK x \in T : \A y \in T : ~ (<<y, x>> \in OpToRel(<, Nat))
  <2>. HIDE DEF T
  <2>. QED
    BY <1>2, WFMin, NatLessThanWellFounded
<1>4. \A y \in T : ~ (y < x)
  <2>. SUFFICES ASSUME NEW y \in T, y < x PROVE FALSE
    OBVIOUS
  <2>1. <<y, x>> \in Nat \X Nat
    BY <1>2
  <2>2. <<y, x>> \in OpToRel(<, Nat)
    BY <2>1 DEF OpToRel
  <2>. QED
    BY <1>3, <2>2
<1>5. n - x \in I /\ n - x \in Nat
  BY <1>1
<1>6. \A j \in I : j <= n - x
  <2>. SUFFICES ASSUME NEW j \in I PROVE j <= n - x
    OBVIOUS
  <2>1. n - j \in T
    BY <1>1
  <2>. QED
    BY <1>1, <1>4, <2>1
<1>. QED
  BY <1>5, <1>6 DEF LastOf

\* With increasing ids, the id Open continues from is the largest in the file.
LEMMA LastIDIsLargest ==
  ASSUME lines \in Seq(Line), tail \in Line, IdsIncrease
  PROVE  /\ lastID \in Nat
         /\ \A i \in Readable : Contents[i].id <= lastID
<1>1. /\ Len(Contents) \in Nat
      /\ \A i \in Readable : Contents[i] \in Event
  BY ContentsShape DEF Readable, Line
<1>2. CASE Readable = {}
  BY <1>2 DEF lastID
<1>3. CASE Readable # {}
  <2>1. Readable \in SUBSET (1..Len(Contents))
    BY DEF Readable
  <2>2. /\ LastOf(Readable) \in Readable
        /\ \A j \in Readable : j <= LastOf(Readable)
    BY <1>1, <1>3, <2>1, HasLast
  <2>3. lastID = Contents[LastOf(Readable)].id
    BY <1>3 DEF lastID
  <2>4. lastID \in Nat
    BY <1>1, <2>2, <2>3 DEF Event
  <2>5. ASSUME NEW i \in Readable PROVE Contents[i].id <= lastID
    <3>1. CASE i = LastOf(Readable)
      BY <2>3, <2>4, <3>1
    <3>2. CASE i # LastOf(Readable)
      <4>1. i < LastOf(Readable)
        <5>1. \A k \in Readable : k \in Int
          BY <1>1 DEF Readable
        <5>2. i \in Int /\ LastOf(Readable) \in Int
          BY <2>2, <5>1
        <5>3. i <= LastOf(Readable)
          BY <2>2
        <5>. QED
          BY <3>2, <5>2, <5>3
      <4>2. Contents[i].id < Contents[LastOf(Readable)].id
        BY <2>2, <4>1 DEF IdsIncrease
      <4>. QED
        BY <1>1, <2>2, <2>3, <4>2 DEF Event
    <3>. QED
      BY <3>1, <3>2
  <2>. QED
    BY <2>4, <2>5
<1>. QED
  BY <1>2, <1>3

-----------------------------------------------------------------------------
(* The order of the ids                                                     *)

\* Writing a whole line of the next id keeps the ids increasing.
LEMMA WriteLineKeepsOrder ==
  ASSUME OrderInv, up, WriteLine(NewEvent)
  PROVE  /\ lines' \in Seq(Line) /\ tail' \in Line
         /\ IdsIncrease'
         /\ \A i \in Readable' : Contents'[i].id <= id + 1
         /\ Events' \subseteq Events \union {NewEvent}
<1>. USE DEF OrderInv, LogTypeOK
<1>. DEFINE w == IF tail = Clean THEN NewEvent ELSE Garbage
<1>1. NewEvent \in Event /\ NewEvent.id = id + 1
  BY DEF NewEvent, Event
<1>2. w \in Line /\ tail' \in Line /\ tail' = Clean
  BY <1>1 DEF Line, NoEvent, WriteLine
<1>3. lines' = Append(lines, w)
  BY DEF WriteLine
<1>4. /\ lines' \in Seq(Line)
      /\ Len(lines') = Len(lines) + 1
      /\ \A i \in 1..Len(lines) : lines'[i] = lines[i]
      /\ lines'[Len(lines) + 1] = w
  BY <1>2, <1>3, AppendProperties
<1>5. /\ Len(Contents) = Len(lines) + 1 /\ Len(lines) \in Nat
      /\ \A i \in 1..Len(lines) : Contents[i] = lines[i]
      /\ \A i \in 1..Len(Contents) : Contents[i] \in Line
  BY ContentsShape
<1>6. /\ Len(Contents') = Len(lines) + 2
      /\ \A i \in 1..Len(lines) : Contents'[i] = Contents[i]
      /\ Contents'[Len(lines) + 1] = w
      /\ Contents'[Len(lines) + 2] = Clean
  <2>1. /\ Len(Contents') = Len(lines') + 1
        /\ \A i \in 1..Len(lines') : Contents'[i] = lines'[i]
        /\ Contents'[Len(lines') + 1] = tail'
    BY <1>2, <1>4, AppendProperties DEF Contents
  <2>. QED
    BY <1>2, <1>4, <1>5, <2>1
<1>7. ASSUME NEW i \in Readable'
      PROVE  \/ i \in Readable /\ i \in 1..Len(lines) /\ Contents'[i] = Contents[i]
             \/ i = Len(lines) + 1 /\ Contents'[i] = NewEvent
  BY <1>5, <1>6 DEF Readable, NoEvent
<1>8. \A i \in Readable : Contents[i].id \in Nat /\ Contents[i].id <= id
  BY <1>5 DEF CounterAhead, Readable, Line, Event
<1>9. \A i \in Readable' : Contents'[i].id <= id + 1
  BY <1>1, <1>7, <1>8
<1>10. IdsIncrease'
  <2>. SUFFICES ASSUME NEW i \in Readable', NEW j \in Readable', i < j
                PROVE  Contents'[i].id < Contents'[j].id
    BY DEF IdsIncrease
  <2>1. i \in Readable /\ Contents'[i] = Contents[i]
    BY <1>5, <1>7
  <2>2. CASE j \in Readable /\ Contents'[j] = Contents[j]
    BY <2>1, <2>2 DEF IdsIncrease
  <2>3. CASE Contents'[j] = NewEvent
    BY <1>1, <1>8, <2>1, <2>3
  <2>. QED
    BY <1>7, <2>2, <2>3
<1>11. Events' \subseteq Events \union {NewEvent}
  BY <1>7 DEF Events
<1>. QED
  BY <1>2, <1>4, <1>9, <1>10, <1>11

\* So does leaving any prefix of it behind.
LEMMA WritePrefixKeepsOrder ==
  ASSUME OrderInv, up, WritePrefix(NewEvent)
  PROVE  /\ lines' \in Seq(Line) /\ tail' \in Line
         /\ IdsIncrease'
         /\ \A i \in Readable' : Contents'[i].id <= id + 1
         /\ Events' \subseteq Events \union {NewEvent}
<1>. USE DEF OrderInv, LogTypeOK
<1>1. NewEvent \in Event /\ NewEvent.id = id + 1
  BY DEF NewEvent, Event
<1>2. /\ lines' = lines
      /\ \/ tail' = tail
         \/ tail' = Garbage
         \/ tail = Clean /\ tail' = NewEvent
  BY DEF WritePrefix
<1>3. tail' \in Line
  BY <1>1, <1>2 DEF Line, NoEvent
<1>4. /\ Len(Contents) = Len(lines) + 1 /\ Len(lines) \in Nat
      /\ \A i \in 1..Len(lines) : Contents[i] = lines[i]
      /\ Contents[Len(lines) + 1] = tail
      /\ \A i \in 1..Len(Contents) : Contents[i] \in Line
  BY ContentsShape
<1>5. /\ Len(Contents') = Len(lines) + 1
      /\ \A i \in 1..Len(lines) : Contents'[i] = Contents[i]
      /\ Contents'[Len(lines) + 1] = tail'
  <2>1. /\ Len(Contents') = Len(lines') + 1
        /\ \A i \in 1..Len(lines') : Contents'[i] = lines'[i]
        /\ Contents'[Len(lines') + 1] = tail'
    BY <1>2, <1>3, AppendProperties DEF Contents
  <2>. QED
    BY <1>2, <1>4, <2>1
<1>6. ASSUME NEW i \in Readable'
      PROVE  \/ i \in Readable /\ Contents'[i] = Contents[i]
             \/ i = Len(lines) + 1 /\ Contents'[i] = NewEvent
  BY <1>2, <1>4, <1>5 DEF Readable, NoEvent
<1>7. \A i \in Readable' : i \in 1..(Len(lines) + 1)
  BY <1>5 DEF Readable
<1>8. \A i \in Readable : Contents[i].id \in Nat /\ Contents[i].id <= id
  BY <1>4 DEF CounterAhead, Readable, Line, Event
<1>9. \A i \in Readable' : Contents'[i].id <= id + 1
  BY <1>1, <1>6, <1>8
<1>10. IdsIncrease'
  <2>. SUFFICES ASSUME NEW i \in Readable', NEW j \in Readable', i < j
                PROVE  Contents'[i].id < Contents'[j].id
    BY DEF IdsIncrease
  <2>1. i \in Readable /\ Contents'[i] = Contents[i]
    BY <1>4, <1>6, <1>7
  <2>2. CASE j \in Readable /\ Contents'[j] = Contents[j]
    BY <2>1, <2>2 DEF IdsIncrease
  <2>3. CASE Contents'[j] = NewEvent
    BY <1>1, <1>8, <2>1, <2>3
  <2>. QED
    BY <1>6, <2>2, <2>3
<1>11. Events' \subseteq Events \union {NewEvent}
  BY <1>6 DEF Events
<1>. QED
  BY <1>2, <1>3, <1>9, <1>10, <1>11

\* Steps that leave the file alone.
LEMMA SameFile ==
  ASSUME UNCHANGED <<lines, tail>>
  PROVE  Contents' = Contents /\ Readable' = Readable /\ lastID' = lastID
         /\ Events' = Events
         /\ (IdsIncrease => IdsIncrease')
<1>1. Contents' = Contents
  BY DEF Contents
<1>2. Readable' = Readable
  BY <1>1 DEF Readable
<1>. QED
  BY <1>1, <1>2 DEF lastID, IdsIncrease, Events

\* The empty log is in order.
LEMMA OrderInvInit == Init => OrderInv
<1>. SUFFICES ASSUME Init PROVE OrderInv
  OBVIOUS
<1>1. lines \in Seq(Line) /\ tail \in Line /\ lines = <<>> /\ tail = Clean
  BY EmptySeq DEF Init, Line, NoEvent
<1>2. LogTypeOK
  BY <1>1 DEF Init, LogTypeOK
<1>3. Readable = {}
  <2>1. Len(lines) = 0
    BY <1>1
  <2>2. Len(Contents) = 1 /\ Contents[1] = Clean
    BY <1>1, <2>1, ContentsShape
  <2>3. 1..Len(Contents) = {1}
    BY <2>2
  <2>. QED
    BY <2>2, <2>3, <2>2 DEF Readable, NoEvent
<1>. QED
  BY <1>2, <1>3 DEF OrderInv, IdsIncrease, CounterAhead

\* Every step keeps the log in order.
LEMMA OrderInvStep == OrderInv /\ [Next]_vars => OrderInv'
<1>. SUFFICES ASSUME OrderInv, [Next]_vars PROVE OrderInv'
  OBVIOUS
<1>. USE DEF OrderInv
<1>1. CASE AppendEvent
  <2>1. up /\ WriteLine(NewEvent) /\ id' = id + 1 /\ up' = up /\ calls' = calls + 1
    BY <1>1 DEF AppendEvent, BeginAppend
  <2>2. /\ lines' \in Seq(Line) /\ tail' \in Line
        /\ IdsIncrease'
        /\ \A i \in Readable' : Contents'[i].id <= id + 1
    BY <2>1, WriteLineKeepsOrder
  <2>. QED
    BY <2>1, <2>2 DEF LogTypeOK, CounterAhead
<1>2. CASE AppendFails
  <2>1. up /\ WritePrefix(NewEvent) /\ id' = id + 1 /\ up' = up /\ calls' = calls + 1
    BY <1>2 DEF AppendFails, BeginAppend
  <2>2. /\ lines' \in Seq(Line) /\ tail' \in Line
        /\ IdsIncrease'
        /\ \A i \in Readable' : Contents'[i].id <= id + 1
    BY <2>1, WritePrefixKeepsOrder
  <2>. QED
    BY <2>1, <2>2 DEF LogTypeOK, CounterAhead
<1>3. CASE CrashInAppend
  <2>1. up /\ id' = 0 /\ up' = FALSE /\ calls' = calls + 1
    BY <1>3 DEF CrashInAppend, BeginAppend
  <2>2. lines' \in Seq(Line) /\ tail' \in Line /\ IdsIncrease'
    BY <1>3, <2>1, WriteLineKeepsOrder, WritePrefixKeepsOrder DEF CrashInAppend
  <2>3. CounterAhead'
    BY <2>1 DEF CounterAhead
  <2>4. id' \in Nat /\ calls' \in Nat
    BY <2>1 DEF LogTypeOK
  <2>5. up' \in BOOLEAN
    BY <2>1
  <2>6. LogTypeOK'
    BY <2>2, <2>4, <2>5 DEF LogTypeOK
  <2>. QED
    BY <2>2, <2>3, <2>6
<1>4. CASE Stop
  BY <1>4, SameFile DEF Stop, history, LogTypeOK, CounterAhead
<1>5. CASE Open
  <2>1. UNCHANGED <<lines, tail, calls>> /\ up' = TRUE /\ id' = lastID
    BY <1>5 DEF Open, history
  <2>2. id' \in Nat /\ \A i \in Readable : Contents[i].id <= id'
    BY <2>1, LastIDIsLargest DEF LogTypeOK
  <2>. QED
    BY <2>1, <2>2, SameFile DEF LogTypeOK, CounterAhead
<1>6. ASSUME NEW c \in Clients, NEW limit \in Limits \union {DefaultLimit},
             Poll(c, limit)
      PROVE  OrderInv'
  BY <1>6, SameFile DEF Poll, logVars, history, LogTypeOK, CounterAhead
<1>7. CASE UNCHANGED vars
  BY <1>7, SameFile DEF vars, LogTypeOK, CounterAhead
<1>. QED
  BY <1>1, <1>2, <1>3, <1>4, <1>5, <1>6, <1>7 DEF Next

\* Whatever crashes and torn writes do to the file, the ids of the events a
\* read returns increase strictly in file order (Open, Append, Read).
THEOREM IdsAlwaysIncrease == Spec => []IdsIncrease
<1>1. OrderInv => IdsIncrease
  BY DEF OrderInv
<1>. QED
  BY <1>1, OrderInvInit, OrderInvStep, PTL DEF Spec

\* What a step may add to the readable events: the event being appended.
LEMMA StepAddsNewest ==
  ASSUME OrderInv, [Next]_vars
  PROVE  \/ Events' = Events
         \/ up /\ Events' \subseteq Events \union {NewEvent}
<1>. USE DEF OrderInv
<1>1. CASE AppendEvent \/ AppendFails \/ CrashInAppend
  <2>1. up /\ (WriteLine(NewEvent) \/ WritePrefix(NewEvent))
    BY <1>1 DEF AppendEvent, AppendFails, CrashInAppend, BeginAppend
  <2>. QED
    BY <2>1, WriteLineKeepsOrder, WritePrefixKeepsOrder
<1>2. CASE Stop \/ Open
  BY <1>2, SameFile DEF Stop, Open
<1>3. ASSUME NEW c \in Clients, NEW limit \in Limits \union {DefaultLimit},
             Poll(c, limit)
      PROVE  Events' = Events
  BY <1>3, SameFile DEF Poll, logVars
<1>4. CASE UNCHANGED vars
  BY <1>4, SameFile DEF vars
<1>. QED
  BY <1>1, <1>2, <1>3, <1>4 DEF Next

\* An event that becomes readable has a larger id than every event that is
\* readable and stays so (Append): a cursor never has to look back.
THEOREM NewEventsAlwaysNewer == Spec => NewEventsAreNewer
<1>1. ASSUME OrderInv, [Next]_vars
      PROVE  [\A e \in Events' \ Events : \A f \in Events \intersect Events' :
                f.id < e.id]_vars
  <2>1. CASE Events' = Events
    BY <2>1
  <2>2. CASE up /\ Events' \subseteq Events \union {NewEvent}
    <3>. SUFFICES ASSUME NEW e \in Events' \ Events, NEW f \in Events
                  PROVE  f.id < e.id
      OBVIOUS
    <3>1. e.id = id + 1
      BY <2>2 DEF NewEvent
    <3>2. PICK i \in Readable : f = Contents[i]
      BY DEF Events
    <3>3. f \in Event
      BY <1>1, <3>2, ContentsShape DEF OrderInv, LogTypeOK, Readable, Line
    <3>4. f.id \in Nat /\ f.id <= id
      BY <1>1, <2>2, <3>2, <3>3 DEF OrderInv, CounterAhead, Event
    <3>. QED
      BY <1>1, <3>1, <3>4 DEF OrderInv, LogTypeOK
  <2>. QED
    BY <1>1, <2>1, <2>2, StepAddsNewest
<1>. QED
  BY <1>1, OrderInvInit, OrderInvStep, PTL DEF Spec, NewEventsAreNewer

-----------------------------------------------------------------------------
(* What torn writes cost                                                    *)

\* The lines that are complete; no step takes one away.
InLines == {lines[i] : i \in 1..Len(lines)}

\* 1 while an unterminated tail waits for the append that will run into it.
Waiting == IF tail = Clean THEN 0 ELSE 1

\* Each torn write has cost an acknowledged event, or waits to cost one.
LossInv ==
  /\ acked \subseteq Event /\ IsFiniteSet(acked)
  /\ tears \in Nat
  /\ Cardinality(acked \ InLines) + Waiting <= tears

\* A set of acknowledged events inside a finite set is no larger.
LEMMA LostIsSmaller ==
  ASSUME NEW S, NEW T, IsFiniteSet(T), S \subseteq T
  PROVE  /\ IsFiniteSet(S) /\ Cardinality(S) \in Nat /\ Cardinality(T) \in Nat
         /\ Cardinality(S) <= Cardinality(T)
BY FS_Subset, FS_CardinalityType

\* Nothing is lost in the empty log.
LEMMA LossInit == Init => LossInv
<1>. SUFFICES ASSUME Init PROVE LossInv
  OBVIOUS
<1>1. acked \ InLines = {} /\ Waiting = 0
  BY DEF Init, Waiting
<1>. QED
  BY <1>1, FS_EmptySet DEF Init, LossInv

\* A whole line costs the event that was just acknowledged only if it lands on
\* a waiting tail.
LEMMA LossWriteLine ==
  ASSUME OrderInv, LossInv, WriteLine(NewEvent), acked' \in {acked, acked \union {NewEvent}}
  PROVE  LossInv'
<1>1. NewEvent \in Event /\ lines \in Seq(Line) /\ NewEvent \in Line /\ Garbage \in Line
  BY DEF NewEvent, Event, OrderInv, LogTypeOK, Line, NoEvent
<1>2. acked' \subseteq Event /\ IsFiniteSet(acked') /\ tears' = tears /\ tears \in Nat
  BY <1>1, FS_AddElement DEF LossInv, WriteLine
<1>3. PICK e \in Line : lines' = Append(lines, e) /\ (tail = Clean => e = NewEvent)
  BY <1>1 DEF WriteLine
<1>4. InLines' = InLines \union {e}
  <2>1. /\ Len(lines) \in Nat /\ Len(lines') = Len(lines) + 1
        /\ \A i \in 1..Len(lines) : lines'[i] = lines[i]
        /\ lines'[Len(lines) + 1] = e
    BY <1>1, <1>3, AppendProperties, LenProperties
  <2>2. \A x : x \in InLines' <=> x \in InLines \/ x = e
    BY <2>1 DEF InLines
  <2>. QED
    BY <2>2
<1>5. Waiting' = 0
  BY DEF WriteLine, Waiting
<1>. DEFINE Lost == acked \ InLines
<1>6. IsFiniteSet(Lost) /\ Cardinality(Lost) \in Nat
  BY LostIsSmaller DEF LossInv
<1>7. CASE tail = Clean
  <2>1. (acked \ InLines)' \subseteq Lost
    BY <1>3, <1>4, <1>7
  <2>2. Waiting = 0 /\ Cardinality(Lost) + Waiting <= tears
    BY <1>7 DEF Waiting, LossInv
  <2>. HIDE DEF Lost
  <2>3. /\ Cardinality((acked \ InLines)') \in Nat
        /\ Cardinality((acked \ InLines)') <= Cardinality(Lost)
    BY <1>6, <2>1, LostIsSmaller
  <2>4. Cardinality((acked \ InLines)') + Waiting' <= tears'
    BY <1>2, <1>5, <1>6, <2>2, <2>3
  <2>. QED
    BY <1>2, <2>4 DEF LossInv
<1>8. CASE tail # Clean
  <2>1. (acked \ InLines)' \subseteq Lost \union {NewEvent}
    BY <1>4
  <2>2. Waiting = 1 /\ Cardinality(Lost) + Waiting <= tears
    BY <1>8 DEF Waiting, LossInv
  <2>. HIDE DEF Lost
  <2>3. /\ IsFiniteSet(Lost \union {NewEvent})
        /\ Cardinality(Lost \union {NewEvent}) <= Cardinality(Lost) + 1
    BY <1>6, FS_AddElement
  <2>4. /\ Cardinality((acked \ InLines)') \in Nat
        /\ Cardinality(Lost \union {NewEvent}) \in Nat
        /\ Cardinality((acked \ InLines)') <= Cardinality(Lost \union {NewEvent})
    BY <2>1, <2>3, LostIsSmaller
  <2>5. Cardinality((acked \ InLines)') + Waiting' <= tears'
    BY <1>2, <1>5, <1>6, <2>2, <2>3, <2>4
  <2>. QED
    BY <1>2, <2>5 DEF LossInv
<1>. QED
  BY <1>7, <1>8

\* A torn write adds to the tears and to nothing else.
LEMMA LossWritePrefix ==
  ASSUME LossInv, WritePrefix(NewEvent), acked' = acked
  PROVE  LossInv'
<1>1. IsFiniteSet(acked \ InLines) /\ Cardinality(acked \ InLines) \in Nat
  BY LostIsSmaller DEF LossInv
<1>2. (acked \ InLines)' = acked \ InLines
  BY DEF WritePrefix, InLines
<1>3. /\ tears \in Nat /\ Waiting \in {0, 1} /\ Waiting' \in {0, 1}
      /\ Cardinality(acked \ InLines) + Waiting <= tears
  BY DEF LossInv, Waiting
<1>4. tears' = tears + 1 \/ (tears' = tears /\ Waiting' = Waiting)
  BY DEF WritePrefix, Waiting
<1>5. tears' = tears + 1 => Cardinality(acked \ InLines) <= tears
  BY <1>1, <1>3
<1>6. tears' \in Nat /\ Cardinality(acked \ InLines) + Waiting' <= tears'
  BY <1>1, <1>3, <1>4
<1>. QED
  BY <1>2, <1>6 DEF LossInv

\* Every step keeps the account of what was lost.
LEMMA LossStep == OrderInv /\ LossInv /\ [Next]_vars => LossInv'
<1>. SUFFICES ASSUME OrderInv, LossInv, [Next]_vars PROVE LossInv'
  OBVIOUS
<1>1. CASE AppendEvent
  BY <1>1, LossWriteLine DEF AppendEvent
<1>2. CASE AppendFails
  BY <1>2, LossWritePrefix DEF AppendFails
<1>3. CASE CrashInAppend
  BY <1>3, LossWriteLine, LossWritePrefix DEF CrashInAppend
<1>4. ASSUME UNCHANGED <<lines, tail, acked, tears>> PROVE LossInv'
  BY <1>4 DEF LossInv, InLines, Waiting
<1>5. CASE Stop \/ Open \/ UNCHANGED vars
  BY <1>4, <1>5 DEF Stop, Open, vars, history
<1>6. ASSUME NEW c \in Clients, NEW limit \in Limits \union {DefaultLimit}, Poll(c, limit)
      PROVE  LossInv'
  BY <1>4, <1>6 DEF Poll, logVars, history
<1>. QED
  BY <1>1, <1>2, <1>3, <1>5, <1>6 DEF Next

\* Each torn write costs at most one acknowledged event, across any number of
\* appends, crashes and restarts; with none, every acknowledged event stays.
THEOREM LossAlwaysBounded == Spec => [](LossIsBounded /\ (tears = 0 => AckedStayReadable))
<1>1. OrderInv /\ LossInv => LossIsBounded /\ (tears = 0 => AckedStayReadable)
  <2>. SUFFICES ASSUME OrderInv, LossInv
                PROVE  LossIsBounded /\ (tears = 0 => AckedStayReadable)
    OBVIOUS
  <2>1. acked \ Events \subseteq acked \ InLines
    <3>. SUFFICES ASSUME NEW e \in acked, e \in InLines PROVE e \in Events
      OBVIOUS
    <3>1. PICK i \in 1..Len(lines) : lines[i] = e
      BY DEF InLines
    <3>2. Contents[i] = e /\ i \in 1..Len(Contents)
      BY <3>1, ContentsShape DEF OrderInv, LogTypeOK
    <3>3. e \notin NoEvent
      BY DEF LossInv, Event, NoEvent, Garbage, Clean
    <3>. QED
      BY <3>2, <3>3 DEF Readable, Events
  <2>2. IsFiniteSet(acked \ InLines)
    BY LostIsSmaller DEF LossInv
  <2>3. /\ IsFiniteSet(acked \ Events) /\ Cardinality(acked \ Events) \in Nat
        /\ Cardinality(acked \ InLines) \in Nat
        /\ Cardinality(acked \ Events) <= Cardinality(acked \ InLines)
    BY <2>1, <2>2, LostIsSmaller
  <2>4. Waiting \in {0, 1} /\ tears \in Nat /\ Cardinality(acked \ InLines) + Waiting <= tears
    BY DEF LossInv, Waiting
  <2>5. Cardinality(acked \ Events) <= tears
    BY <2>3, <2>4
  <2>6. ASSUME tears = 0 PROVE acked \ Events = {}
    <3>1. Cardinality(acked \ Events) = 0
      BY <2>3, <2>4, <2>5, <2>6
    <3>. QED
      BY <2>3, <3>1, FS_EmptySet
  <2>. QED
    BY <2>5, <2>6 DEF LossIsBounded, AckedStayReadable
<1>. QED
  BY <1>1, LossInit, LossStep, OrderInvInit, OrderInvStep, PTL DEF Spec

-----------------------------------------------------------------------------
(* Types                                                                    *)

\* The log is empty at the start.
LEMMA TypeInit == Init => TypeOK
<1>. SUFFICES ASSUME Init PROVE TypeOK
  OBVIOUS
<1>1. lines \in Seq(Event \union {Garbage})
  BY EmptySeq DEF Init
<1>. QED
  BY <1>1 DEF Init, TypeOK, NoEvent

\* The part of the types the order of the ids needs.
LEMMA LineTypes == TypeOK => lines \in Seq(Line) /\ tail \in Line
<1>. SUFFICES ASSUME TypeOK PROVE lines \in Seq(Line)
  BY DEF TypeOK, Line
<1>1. Event \union {Garbage} \subseteq Line
  BY DEF Line, NoEvent
<1>2. /\ Len(lines) \in Nat
      /\ \A i \in 1..Len(lines) : lines[i] \in Line
      /\ lines \in [1..Len(lines) -> Event \union {Garbage}]
  BY <1>1, LenProperties, ElementOfSeq DEF TypeOK
<1>3. lines \in [1..Len(lines) -> Line]
  BY <1>2
<1>. QED
  BY <1>2, <1>3, SeqDef

\* What a read finds are events.
LEMMA ReadableTypes ==
  ASSUME TypeOK
  PROVE  /\ Readable \in SUBSET (1..Len(Contents)) /\ Len(Contents) \in Nat
         /\ \A i \in Readable : Contents[i] \in Event
BY LineTypes, ContentsShape DEF Readable, Line

\* Every write, whole or torn, leaves lines and a tail.
LEMMA WriteTypes ==
  ASSUME TypeOK, WriteLine(NewEvent) \/ WritePrefix(NewEvent)
  PROVE  /\ lines' \in Seq(Event \union {Garbage}) /\ tail' \in Event \union NoEvent
         /\ tears' \in Nat /\ NewEvent \in Event
<1>1. NewEvent \in Event
  BY DEF NewEvent, Event, TypeOK
<1>2. CASE WriteLine(NewEvent)
  <2>1. lines' \in Seq(Event \union {Garbage})
    BY <1>1, <1>2, AppendProperties DEF WriteLine, TypeOK
  <2>. QED
    BY <1>1, <1>2, <2>1 DEF WriteLine, TypeOK, NoEvent
<1>3. CASE WritePrefix(NewEvent)
  BY <1>1, <1>3 DEF WritePrefix, TypeOK, NoEvent
<1>. QED
  BY <1>2, <1>3

\* A page that is not empty has a last event.
LEMMA PageHasLast ==
  ASSUME TypeOK, NEW after, NEW limit, Page(after, limit) # {}
  PROVE  /\ Page(after, limit) \subseteq Readable
         /\ LastOf(Page(after, limit)) \in Page(after, limit)
         /\ \A j \in Page(after, limit) : j <= LastOf(Page(after, limit))
<1>1. Page(after, limit) \subseteq Readable
  BY DEF Page
<1>2. Page(after, limit) \in SUBSET (1..Len(Contents)) /\ Len(Contents) \in Nat
  BY <1>1, ReadableTypes
<1>. QED
  BY <1>1, <1>2, HasLast

\* Every step keeps the types; OrderInv is what makes lastID a number.
LEMMA TypeStep == TypeOK /\ OrderInv /\ [Next]_vars => TypeOK'
<1>. SUFFICES ASSUME TypeOK, OrderInv, [Next]_vars PROVE TypeOK'
  OBVIOUS
<1>1. CASE AppendEvent
  <2>1. WriteLine(NewEvent) /\ id' = id + 1 /\ calls' = calls + 1
        /\ acked' = acked \union {NewEvent} /\ UNCHANGED <<up, cursor, seen>>
    BY <1>1 DEF AppendEvent, BeginAppend
  <2>. QED
    BY <2>1, WriteTypes DEF TypeOK
<1>2. CASE AppendFails
  <2>1. WritePrefix(NewEvent) /\ id' = id + 1 /\ calls' = calls + 1
        /\ UNCHANGED <<up, acked, cursor, seen>>
    BY <1>2 DEF AppendFails, BeginAppend
  <2>. QED
    BY <2>1, WriteTypes DEF TypeOK
<1>3. CASE CrashInAppend
  <2>1. (WriteLine(NewEvent) \/ WritePrefix(NewEvent)) /\ id' = 0 /\ calls' = calls + 1
        /\ up' = FALSE /\ UNCHANGED <<acked, cursor, seen>>
    BY <1>3 DEF CrashInAppend, BeginAppend
  <2>2. up' \in BOOLEAN
    BY <2>1
  <2>3. id' \in Nat /\ calls' \in Nat
    BY <2>1 DEF TypeOK
  <2>. QED
    BY <2>1, <2>2, <2>3, WriteTypes DEF TypeOK
<1>4. CASE Stop
  BY <1>4 DEF Stop, history, clientVars, TypeOK
<1>5. CASE Open
  <2>1. lastID \in Nat
    BY LastIDIsLargest DEF OrderInv, LogTypeOK
  <2>. QED
    BY <1>5, <2>1 DEF Open, history, clientVars, TypeOK
<1>6. ASSUME NEW c \in Clients, NEW limit \in Limits \union {DefaultLimit}, Poll(c, limit)
      PROVE  TypeOK'
  <2>. DEFINE page == Page(cursor[c], PageLimit(limit))
              got == {Contents[i] : i \in page}
  <2>1. /\ seen' = [seen EXCEPT ![c] = @ \union got]
        /\ cursor' = [cursor EXCEPT ![c] = Contents[LastOf(page)].id]
        /\ UNCHANGED <<logVars, history>> /\ page # {}
    BY <1>6 DEF Poll
  <2>2. page \subseteq Readable /\ LastOf(page) \in page
    BY <2>1, PageHasLast
  <2>3. got \subseteq Event /\ Contents[LastOf(page)].id \in Nat
    BY <2>2, ReadableTypes DEF Event
  <2>. HIDE DEF page, got
  <2>4. seen' \in [Clients -> SUBSET Event] /\ cursor' \in [Clients -> Nat]
    BY <2>1, <2>3 DEF TypeOK
  <2>. QED
    BY <2>1, <2>4 DEF TypeOK, logVars, history
<1>7. CASE UNCHANGED vars
  BY <1>7 DEF vars, TypeOK
<1>. QED
  BY <1>1, <1>2, <1>3, <1>4, <1>5, <1>6, <1>7 DEF Next

\* The log's variables keep their types, whatever tears its file.
THEOREM TypeCorrect == Spec => []TypeOK
BY TypeInit, TypeStep, OrderInvInit, OrderInvStep, PTL DEF Spec

-----------------------------------------------------------------------------
(* Paging                                                                   *)

\* As long as nothing was torn, no tail waits, what was seen is in the file, and a
\* cursor is the id of an event of the file.
PagesInv ==
  /\ tears = 0 => tail = Clean
  /\ tears = 0 => \A c \in Clients :
       /\ seen[c] \subseteq Events
       /\ cursor[c] = 0 \/ \E e \in Events : e.id = cursor[c]
  /\ NothingSkipped

\* As long as nothing is torn, events stay.
LEMMA EventsStay ==
  ASSUME TypeOK, PagesInv, tears' = 0, [Next]_vars
  PROVE  tears = 0 /\ tail' = Clean /\ Events \subseteq Events'
<1>1. CASE UNCHANGED <<lines, tail, tears>>
  BY <1>1, SameFile DEF PagesInv
<1>2. ASSUME WriteLine(NewEvent) \/ WritePrefix(NewEvent)
      PROVE  tears = 0 /\ tail' = Clean /\ Events \subseteq Events'
  <2>1. tears = 0 /\ tail = Clean
    BY <1>2 DEF WriteLine, WritePrefix, TypeOK, PagesInv
  <2>2. CASE UNCHANGED <<lines, tail>>
    BY <2>1, <2>2, SameFile
  <2>3. CASE WriteLine(NewEvent)
    <3>1. /\ Len(Contents) = Len(lines) + 1 /\ Len(lines) \in Nat
          /\ \A i \in 1..Len(lines) : Contents[i] = lines[i]
          /\ Contents[Len(lines) + 1] = Clean
      BY <2>1, LineTypes, ContentsShape
    <3>2. NewEvent \in Event
      BY <1>2, WriteTypes
    <3>3. /\ Len(lines') = Len(lines) + 1
          /\ \A i \in 1..Len(lines) : lines'[i] = lines[i]
      BY <2>1, <2>3, <3>2, AppendProperties DEF WriteLine, TypeOK
    <3>4. lines' \in Seq(Event \union {Garbage})
      BY <1>2, WriteTypes
    <3>5. /\ Len(Contents') = Len(lines') + 1
          /\ \A i \in 1..Len(lines') : Contents'[i] = lines'[i]
      BY <2>3, <3>4, AppendProperties DEF Contents, WriteLine, NoEvent
    <3>6. ASSUME NEW i \in Readable PROVE i \in Readable' /\ Contents'[i] = Contents[i]
      <4>1. i \in 1..Len(lines)
        BY <3>1 DEF Readable, NoEvent
      <4>2. Contents'[i] = Contents[i] /\ i \in 1..Len(Contents')
        BY <3>1, <3>3, <3>5, <4>1
      <4>. QED
        BY <4>2 DEF Readable
    <3>7. Events \subseteq Events'
      BY <3>6 DEF Events
    <3>. QED
      BY <2>1, <2>3, <3>7 DEF WriteLine
  <2>4. WritePrefix(NewEvent) => UNCHANGED <<lines, tail>>
    BY <2>1 DEF WritePrefix
  <2>. QED
    BY <1>2, <2>2, <2>3, <2>4
<1>3. CASE AppendEvent \/ AppendFails \/ CrashInAppend
  BY <1>2, <1>3 DEF AppendEvent, AppendFails, CrashInAppend
<1>4. CASE Stop \/ Open \/ UNCHANGED vars
  BY <1>1, <1>4 DEF Stop, Open, vars, history
<1>5. ASSUME NEW c \in Clients, NEW limit \in Limits \union {DefaultLimit}, Poll(c, limit)
      PROVE  tears = 0 /\ tail' = Clean /\ Events \subseteq Events'
  BY <1>1, <1>5 DEF Poll, logVars, history
<1>. QED
  BY <1>3, <1>4, <1>5 DEF Next

\* A page is what is fresh up to its last event: the limit cuts off the end only.
LEMMA PageIsPrefix ==
  ASSUME TypeOK, NEW after \in Nat, NEW limit \in Nat,
         NEW i \in Page(after, limit), NEW j \in Readable, Contents[j].id > after, j <= i
  PROVE  j \in Page(after, limit)
<1>. DEFINE fresh == {k \in Readable : Contents[k].id > after}
            UpTo(m) == {k \in fresh : k <= m}
<1>1. /\ i \in fresh /\ j \in fresh
      /\ limit = 0 \/ Cardinality(UpTo(i)) <= limit
  BY DEF Page
<1>2. IsFiniteSet(1..Len(Contents)) /\ fresh \subseteq 1..Len(Contents)
  BY ReadableTypes, FS_Interval
<1>3. \A k \in fresh : k \in Int
  BY <1>2, ReadableTypes
<1>4. IsFiniteSet(UpTo(i)) /\ UpTo(j) \subseteq UpTo(i)
  <2>1. UpTo(i) \subseteq 1..Len(Contents)
    BY <1>2
  <2>2. IsFiniteSet(UpTo(i))
    BY <1>2, <2>1, FS_Subset
  <2>. QED
    BY <1>1, <1>3, <2>2
<1>5. /\ Cardinality(UpTo(j)) <= Cardinality(UpTo(i))
      /\ Cardinality(UpTo(j)) \in Nat /\ Cardinality(UpTo(i)) \in Nat
  <2>. HIDE DEF UpTo
  <2>1. IsFiniteSet(UpTo(j)) /\ Cardinality(UpTo(j)) <= Cardinality(UpTo(i))
    BY <1>4, FS_Subset
  <2>. QED
    BY <1>4, <2>1, FS_CardinalityType
<1>6. limit = 0 \/ Cardinality(UpTo(j)) <= limit
  <2>. HIDE DEF UpTo
  <2>. QED
    BY <1>1, <1>5
<1>. QED
  BY <1>1, <1>6 DEF Page

\* Every step keeps what paging relies on.
LEMMA PagesStep == TypeOK /\ OrderInv /\ PagesInv /\ [Next]_vars => PagesInv'
<1>. SUFFICES ASSUME TypeOK, OrderInv, PagesInv, [Next]_vars, tears' = 0
              PROVE  /\ tail' = Clean
                     /\ \A c \in Clients :
                          /\ seen'[c] \subseteq Events'
                          /\ cursor'[c] = 0 \/ \E e \in Events' : e.id = cursor'[c]
                          /\ \A e \in Events' : e.id <= cursor'[c] => e \in seen'[c]
  BY DEF PagesInv, NothingSkipped
<1>1. tears = 0 /\ tail' = Clean /\ Events \subseteq Events'
  BY EventsStay
<1>2. \A c \in Clients :
        /\ seen[c] \subseteq Events
        /\ cursor[c] = 0 \/ \E e \in Events : e.id = cursor[c]
        /\ \A e \in Events : e.id <= cursor[c] => e \in seen[c]
  BY <1>1 DEF PagesInv, NothingSkipped
<1>3. \A e \in Events : e.id \in Nat /\ e.id > 0 /\ (up => e.id <= id)
  BY ReadableTypes DEF Events, Event, OrderInv, CounterAhead
<1>4. CASE UNCHANGED <<cursor, seen>>
  <2>1. ASSUME NEW c \in Clients, NEW e \in Events', e.id <= cursor[c]
        PROVE  e \in seen[c]
    <3>1. CASE e \in Events
      BY <1>2, <2>1, <3>1
    <3>2. CASE up /\ e = NewEvent
      <4>1. e.id = id + 1 /\ id \in Nat
        BY <3>2 DEF NewEvent, TypeOK
      <4>2. cursor[c] <= id
        BY <1>2, <1>3, <3>2, <4>1
      <4>3. cursor[c] \in Nat
        BY DEF TypeOK
      <4>. QED
        BY <2>1, <4>1, <4>2, <4>3
    <3>. QED
      BY <2>1, <3>1, <3>2, StepAddsNewest
  <2>. QED
    BY <1>1, <1>2, <1>4, <2>1
<1>5. ASSUME NEW c \in Clients, NEW limit \in Limits \union {DefaultLimit}, Poll(c, limit)
      PROVE  \A d \in Clients :
               /\ seen'[d] \subseteq Events'
               /\ cursor'[d] = 0 \/ \E e \in Events' : e.id = cursor'[d]
               /\ \A e \in Events' : e.id <= cursor'[d] => e \in seen'[d]
  <2>. DEFINE page == Page(cursor[c], PageLimit(limit))
              last == LastOf(page)
  <2>1. /\ page # {} /\ Events' = Events
        /\ seen' = [seen EXCEPT ![c] = @ \union {Contents[i] : i \in page}]
        /\ cursor' = [cursor EXCEPT ![c] = Contents[last].id]
    BY <1>5, SameFile DEF Poll, logVars
  <2>2. page \subseteq Readable /\ last \in page
    BY <2>1, PageHasLast
  <2>3. cursor[c] \in Nat /\ PageLimit(limit) \in Nat
    BY LimitsAssumption DEF TypeOK, PageLimit
  <2>4. ASSUME NEW j \in Readable, Contents[j].id <= Contents[last].id,
               Contents[j].id > cursor[c]
        PROVE  j \in page
    <3>1. j \in Int /\ last \in Int
      BY <2>2, ReadableTypes
    <3>2. Contents[j].id \in Nat /\ Contents[last].id \in Nat
      BY <2>2, ReadableTypes DEF Event
    <3>3. last < j => Contents[last].id < Contents[j].id
      BY <2>2 DEF OrderInv, IdsIncrease
    <3>4. j <= last
      BY <2>4, <3>1, <3>2, <3>3
    <3>. QED
      BY <2>2, <2>3, <2>4, <3>4, PageIsPrefix
  <2>5. /\ seen'[c] = seen[c] \union {Contents[i] : i \in page}
        /\ cursor'[c] = Contents[last].id
        /\ \A d \in Clients \ {c} : seen'[d] = seen[d] /\ cursor'[d] = cursor[d]
    BY <2>1 DEF TypeOK
  <2>6. \A i \in page : Contents[i] \in Events
    BY <2>2 DEF Events
  <2>7. ASSUME NEW e \in Events, e.id <= Contents[last].id PROVE e \in seen'[c]
    <3>1. PICK j \in Readable : e = Contents[j]
      BY DEF Events
    <3>2. CASE e.id <= cursor[c]
      BY <1>2, <2>5, <3>2
    <3>3. CASE e.id > cursor[c]
      BY <2>4, <2>5, <2>7, <3>1, <3>3
    <3>. QED
      BY <1>3, <2>3, <3>2, <3>3
  <2>. HIDE DEF page, last
  <2>. QED
    BY <1>2, <2>1, <2>2, <2>5, <2>6, <2>7
<1>. QED
  BY <1>1, <1>4, <1>5
     DEF Next, AppendEvent, AppendFails, CrashInAppend, Stop, Open, clientVars, vars

\* What paging and the order of the ids rely on, all together.
LEMMA PagesAlways == Spec => [](TypeOK /\ OrderInv /\ PagesInv)
<1>1. Init => PagesInv
  <2>. SUFFICES ASSUME Init PROVE PagesInv
    OBVIOUS
  <2>1. tail = Clean /\ \A c \in Clients : cursor[c] = 0 /\ seen[c] = {}
    BY DEF Init
  <2>2. \A e \in Events : e.id > 0 /\ e.id \in Nat
    BY TypeInit, ReadableTypes DEF Events, Event
  <2>. QED
    BY <2>1, <2>2 DEF PagesInv, NothingSkipped
<1>. QED
  BY <1>1, PagesStep, TypeInit, TypeStep, OrderInvInit, OrderInvStep, PTL DEF Spec

\* As long as no write was torn, a client that asks after the last id it has seen
\* misses nothing, whatever the limit and however often the server restarts.
THEOREM NothingEverSkipped == Spec => []NothingSkipped
<1>1. PagesInv => NothingSkipped
  BY DEF PagesInv
<1>. QED
  BY <1>1, PagesAlways, PTL

\* As long as no write was torn, an id names one event: no two events somebody got to
\* know share one.
THEOREM IdsAlwaysIdentify == Spec => []IdsIdentifyEvents
<1>1. ASSUME TypeOK, OrderInv, PagesInv, tears = 0 => AckedStayReadable
      PROVE  IdsIdentifyEvents
  <2>. SUFFICES ASSUME tears = 0,
                       NEW e \in acked \union UNION {seen[c] : c \in Clients},
                       NEW f \in acked \union UNION {seen[c] : c \in Clients}, e.id = f.id
                PROVE  e = f
    BY DEF IdsIdentifyEvents
  <2>1. e \in Events /\ f \in Events
    BY <1>1 DEF PagesInv, AckedStayReadable
  <2>2. PICK i \in Readable, j \in Readable : e = Contents[i] /\ f = Contents[j]
    BY <2>1 DEF Events
  <2>3. i \in Int /\ j \in Int /\ e.id \in Nat
    BY <1>1, <2>2, ReadableTypes DEF Event
  <2>4. ~(i < j) /\ ~(j < i)
    BY <1>1, <2>2, <2>3 DEF OrderInv, IdsIncrease
  <2>. QED
    BY <2>2, <2>3, <2>4
<1>. QED
  BY <1>1, PagesAlways, LossAlwaysBounded, PTL

-----------------------------------------------------------------------------
(* The log as a feed                                                        *)

\* The events are in the lines, or the tail is one.
LEMMA EventsSplit ==
  lines \in Seq(Line) /\ tail \in Line => Events = (InLines \union {tail}) \ NoEvent
<1>. SUFFICES ASSUME lines \in Seq(Line), tail \in Line
              PROVE  Events = (InLines \union {tail}) \ NoEvent
  OBVIOUS
<1>1. /\ Len(Contents) = Len(lines) + 1 /\ Len(lines) \in Nat
      /\ \A i \in 1..Len(lines) : Contents[i] = lines[i]
      /\ Contents[Len(lines) + 1] = tail
  BY ContentsShape
<1>2. \A i \in 1..Len(Contents) : i \in 1..Len(lines) \/ i = Len(lines) + 1
  BY <1>1
<1>3. \A i \in 1..(Len(lines) + 1) : i \in 1..Len(Contents)
  BY <1>1
<1>4. Events \subseteq (InLines \union {tail}) \ NoEvent
  BY <1>1, <1>2 DEF Events, Readable, InLines
<1>5. ASSUME NEW e \in InLines \union {tail}, e \notin NoEvent PROVE e \in Events
  <2>1. PICK i \in 1..(Len(lines) + 1) : Contents[i] = e
    BY <1>1 DEF InLines
  <2>. QED
    BY <1>3, <1>5, <2>1 DEF Events, Readable
<1>. QED
  BY <1>4, <1>5

\* An event in the tail is the newest.
LEMMA TailIsNewest ==
  ASSUME lines \in Seq(Line), tail \in Event, IdsIncrease
  PROVE  /\ tail \in Events /\ tail \notin InLines
         /\ \A e \in Events : e = tail \/ e.id < tail.id
<1>1. /\ Len(Contents) = Len(lines) + 1 /\ Len(lines) \in Nat
      /\ \A i \in 1..Len(lines) : Contents[i] = lines[i]
      /\ Contents[Len(lines) + 1] = tail
  BY ContentsShape DEF Line
<1>2. Len(lines) + 1 \in Readable /\ tail \notin NoEvent /\ tail.id \in Nat
  BY <1>1 DEF Readable, NoEvent, Event, Garbage, Clean
<1>3. ASSUME NEW i \in 1..Len(lines), lines[i] \notin NoEvent PROVE lines[i].id < tail.id
  <2>1. i \in Readable /\ i < Len(lines) + 1
    BY <1>1, <1>3 DEF Readable
  <2>. QED
    BY <1>1, <1>2, <2>1 DEF IdsIncrease
<1>4. tail \notin InLines
  BY <1>2, <1>3 DEF InLines
<1>5. Events = (InLines \union {tail}) \ NoEvent
  BY EventsSplit DEF Line
<1>. QED
  BY <1>2, <1>3, <1>4, <1>5 DEF InLines

\* A whole line is a new event, or costs the one it lands on.
LEMMA LineFeeds ==
  ASSUME TypeOK, OrderInv, up, WriteLine(NewEvent)
  PROVE  /\ tail' = Clean
         /\ tail = Clean => Events' = Events \union {NewEvent}
         /\ tail = Garbage => Events' = Events
         /\ tail \in Event => Events' = Events \ {tail}
<1>1. lines \in Seq(Line) /\ tail \in Line /\ NewEvent \in Event
  BY LineTypes, WriteTypes
<1>2. lines' \in Seq(Line) /\ tail' \in Line
  BY WriteLineKeepsOrder
<1>3. Events = (InLines \union {tail}) \ NoEvent
  BY <1>1, EventsSplit
<1>4. Events' = (InLines' \union {tail'}) \ NoEvent
  <2>1. (lines \in Seq(Line) /\ tail \in Line => Events = (InLines \union {tail}) \ NoEvent)'
    BY EventsSplit, PTL
  <2>. QED
    BY <1>2, <2>1
<1>5. NewEvent \notin NoEvent /\ Clean \in NoEvent /\ Garbage \in NoEvent /\ Clean # Garbage
      /\ \A e \in Event : e \notin NoEvent
  BY <1>1 DEF Event, NoEvent, Clean, Garbage
<1>6. tail' = Clean
  BY DEF WriteLine
<1>7. ASSUME NEW e \in Line, lines' = Append(lines, e) PROVE InLines' = InLines \union {e}
  <2>1. /\ Len(lines') = Len(lines) + 1 /\ Len(lines) \in Nat /\ lines'[Len(lines) + 1] = e
        /\ \A i \in 1..Len(lines) : lines'[i] = lines[i]
    BY <1>1, <1>7
  <2>. QED
    BY <2>1 DEF InLines
<1>8. CASE tail = Clean
  <2>1. InLines' = InLines \union {NewEvent}
    BY <1>1, <1>7, <1>8 DEF WriteLine, Line
  <2>. QED
    BY <1>3, <1>4, <1>5, <1>6, <1>8, <2>1
<1>9. CASE tail # Clean
  <2>1. InLines' = InLines \union {Garbage}
    BY <1>7, <1>9 DEF WriteLine, Line, NoEvent
  <2>2. tail \in Event => tail \notin InLines
    BY <1>1, TailIsNewest DEF OrderInv
  <2>. QED
    BY <1>3, <1>4, <1>5, <1>6, <1>9, <2>1, <2>2
<1>. QED
  BY <1>8, <1>9

\* A part of a line is nothing, a new event that is loose, or costs the one it lands on.
LEMMA PrefixFeeds ==
  ASSUME TypeOK, OrderInv, up, WritePrefix(NewEvent)
  PROVE  \/ Events' = Events /\ (tail' \in NoEvent <=> tail \in NoEvent)
         \/ tail = Clean /\ tail' = NewEvent /\ Events' = Events \union {NewEvent}
         \/ tail \in Event /\ tail' = Garbage /\ Events' = Events \ {tail}
<1>1. lines \in Seq(Line) /\ tail \in Line /\ NewEvent \in Event
  BY LineTypes, WriteTypes
<1>2. lines' \in Seq(Line) /\ tail' \in Line /\ lines' = lines
  BY WritePrefixKeepsOrder DEF WritePrefix
<1>3. Events = (InLines \union {tail}) \ NoEvent
  BY <1>1, EventsSplit
<1>4. Events' = (InLines \union {tail'}) \ NoEvent
  <2>1. (lines \in Seq(Line) /\ tail \in Line => Events = (InLines \union {tail}) \ NoEvent)'
    BY EventsSplit, PTL
  <2>2. InLines' = InLines
    BY <1>2 DEF InLines
  <2>. QED
    BY <1>2, <2>1, <2>2
<1>5. NewEvent \notin NoEvent /\ Clean \in NoEvent /\ Garbage \in NoEvent
      /\ (tail \in Event \/ tail \in NoEvent) /\ (\A e \in Event : e \notin NoEvent)
  BY <1>1 DEF Event, NoEvent, Clean, Garbage, Line
<1>6. CASE tail' = tail
  BY <1>3, <1>4, <1>6
<1>7. CASE tail = Clean /\ tail' = NewEvent
  BY <1>3, <1>4, <1>5, <1>7
<1>8. CASE tail' = Garbage /\ tail \in NoEvent
  BY <1>3, <1>4, <1>5, <1>8
<1>9. CASE tail' = Garbage /\ tail \in Event
  <2>1. tail \notin InLines
    BY <1>1, <1>9, TailIsNewest DEF OrderInv
  <2>. QED
    BY <1>3, <1>4, <1>5, <1>9, <2>1
<1>. QED
  BY <1>5, <1>6, <1>7, <1>8, <1>9 DEF WritePrefix

\* A write publishes, loses or leaves the feed.
LEMMA WriteFeeds ==
  ASSUME TypeOK, OrderInv, up, WriteLine(NewEvent) \/ WritePrefix(NewEvent),
         UNCHANGED <<cursor, seen>>
  PROVE  Feed!Publish \/ Feed!Lose \/ UNCHANGED Feed!afeed
<1>1. lines \in Seq(Line) /\ tail \in Line /\ NewEvent \in Event
  BY LineTypes, WriteTypes
<1>2. NewEvent \notin NoEvent /\ Clean \in NoEvent /\ Garbage \in NoEvent
      /\ (tail \in Event \/ tail \in NoEvent) /\ (\A e \in Event : e \notin NoEvent)
  BY <1>1 DEF Event, NoEvent, Clean, Garbage, Line
<1>3. \A f \in Events : f.id < NewEvent.id
  <2>1. ASSUME NEW i \in Readable PROVE Contents[i].id < id + 1
    <3>1. Contents[i].id \in Nat /\ Contents[i].id <= id /\ id \in Nat
      BY ReadableTypes DEF OrderInv, CounterAhead, Event, TypeOK
    <3>. QED
      BY <3>1
  <2>. QED
    BY <2>1 DEF Events, NewEvent
<1>4. ASSUME tail = Clean, Events' = Events \union {NewEvent} PROVE Feed!Publish
  BY <1>2, <1>3, <1>4 DEF Feed!Publish
<1>5. ASSUME tail \in Event, tail' \in NoEvent, Events' = Events \ {tail} PROVE Feed!Lose
  <2>1. tail \in Events /\ \A f \in Events : f = tail \/ f.id < tail.id
    BY <1>1, <1>5, TailIsNewest DEF OrderInv
  <2>2. \A f \in Events : f.id <= tail.id
    <3>1. \A f \in Events : f.id \in Nat
      BY ReadableTypes DEF Events, Event
    <3>. QED
      BY <2>1, <3>1
  <2>. QED
    BY <1>2, <1>5, <2>1, <2>2 DEF Feed!Lose, Feed!Newest
<1>6. ASSUME Events' = Events, tail' \in NoEvent <=> tail \in NoEvent PROVE UNCHANGED Feed!afeed
  BY <1>6 DEF Feed!afeed
<1>7. CASE WriteLine(NewEvent)
  <2>1. /\ tail' = Clean
        /\ tail = Clean => Events' = Events \union {NewEvent}
        /\ tail = Garbage => Events' = Events
        /\ tail \in Event => Events' = Events \ {tail}
    BY <1>7, LineFeeds
  <2>. QED
    BY <1>2, <1>4, <1>5, <1>6, <2>1 DEF NoEvent
<1>8. CASE WritePrefix(NewEvent)
  BY <1>2, <1>4, <1>5, <1>6, <1>8, PrefixFeeds
<1>. QED
  BY <1>7, <1>8

\* A page is delivered.
LEMMA PollFeeds ==
  ASSUME TypeOK, OrderInv, NEW c \in Clients, NEW limit \in Limits \union {DefaultLimit},
         Poll(c, limit)
  PROVE  Feed!Deliver(c)
<1>. DEFINE page == Page(cursor[c], PageLimit(limit))
            last == LastOf(page)
<1>1. /\ page # {} /\ Events' = Events /\ tail' = tail
      /\ seen' = [seen EXCEPT ![c] = @ \union {Contents[i] : i \in page}]
      /\ cursor' = [cursor EXCEPT ![c] = Contents[last].id]
  BY SameFile DEF Poll, logVars
<1>2. page \subseteq Readable /\ last \in page /\ \A j \in page : j <= last
  BY <1>1, PageHasLast
<1>3. cursor[c] \in Nat /\ PageLimit(limit) \in Nat
  BY LimitsAssumption DEF TypeOK, PageLimit
<1>4. \A i \in page : Contents[i].id > cursor[c]
  BY DEF Page
<1>5. \A i \in Readable : i \in Int /\ Contents[i].id \in Nat
  BY ReadableTypes DEF Event
<1>6. ASSUME NEW j \in page PROVE Contents[j].id <= Contents[last].id
  <2>1. j = last \/ j < last
    BY <1>2, <1>5
  <2>2. j < last => Contents[j].id < Contents[last].id
    BY <1>2 DEF OrderInv, IdsIncrease
  <2>. QED
    BY <1>2, <1>5, <2>1, <2>2
<1>7. ASSUME NEW j \in Readable, cursor[c] < Contents[j].id, Contents[j].id <= Contents[last].id
      PROVE  j \in page
  <2>1. last < j => Contents[last].id < Contents[j].id
    BY <1>2 DEF OrderInv, IdsIncrease
  <2>2. j <= last
    BY <1>2, <1>5, <1>7, <2>1
  <2>. QED
    BY <1>2, <1>3, <1>5, <1>7, <2>2, PageIsPrefix
<1>. HIDE DEF page, last
<1>8. {Contents[i] : i \in page} = {e \in Events : cursor[c] < e.id /\ e.id <= Contents[last].id}
  BY <1>2, <1>3, <1>4, <1>5, <1>6, <1>7 DEF Events
<1>9. Contents[last] \in Events /\ Contents[last].id > cursor[c]
  BY <1>2, <1>4 DEF Events
<1>. QED
  BY <1>1, <1>8, <1>9 DEF Feed!Deliver

\* Every step is one of the feed, or leaves it.
LEMMA FeedStep == TypeOK /\ OrderInv /\ [Next]_vars => [Feed!Next]_(Feed!afeed)
<1>. SUFFICES ASSUME TypeOK, OrderInv, [Next]_vars PROVE Feed!Next \/ UNCHANGED Feed!afeed
  OBVIOUS
<1>1. CASE AppendEvent \/ AppendFails \/ CrashInAppend
  <2>1. up /\ (WriteLine(NewEvent) \/ WritePrefix(NewEvent)) /\ UNCHANGED <<cursor, seen>>
    BY <1>1 DEF AppendEvent, AppendFails, CrashInAppend, BeginAppend
  <2>. QED
    BY <2>1, WriteFeeds DEF Feed!Next
<1>2. CASE Stop \/ Open \/ UNCHANGED vars
  <2>1. UNCHANGED <<lines, tail, cursor, seen>>
    BY <1>2 DEF Stop, Open, clientVars, vars
  <2>2. Events' = Events
    BY <2>1, SameFile
  <2>. QED
    BY <2>1, <2>2 DEF Feed!afeed
<1>3. ASSUME NEW c \in Clients, NEW limit \in Limits \union {DefaultLimit}, Poll(c, limit)
      PROVE  Feed!Next
  BY <1>3, PollFeeds DEF Feed!Next
<1>. QED
  BY <1>1, <1>2, <1>3 DEF Next

\* Whatever is torn, fails or crashes: who reads the log finds a feed of events in the
\* order of their ids, of which only the newest ever goes again, and only if its append
\* failed or died; and pages without a gap.
THEOREM FeedImplemented == Spec => ImplementsEventFeed
<1>1. Init => Feed!Init
  <2>. SUFFICES ASSUME Init PROVE Feed!Init
    OBVIOUS
  <2>1. lines = <<>> /\ tail = Clean /\ lines \in Seq(Line)
    BY EmptySeq DEF Init
  <2>2. InLines = {}
    BY <2>1 DEF InLines
  <2>3. Events = {}
    BY <2>1, <2>2, EventsSplit DEF Line, NoEvent
  <2>. QED
    BY <2>1, <2>3 DEF Init, Feed!Init, NoEvent
<1>. QED
  BY <1>1, FeedStep, TypeInit, TypeStep, OrderInvInit, OrderInvStep, PTL
     DEF Spec, ImplementsEventFeed, Feed!Spec
=============================================================================
