------------------------------ MODULE EventLog ------------------------------
(***************************************************************************)
(* The audit log (server/internal/events): an append-only JSONL file whose  *)
(* lines carry a counter the clients of GET /api/events page with.          *)
(*                                                                         *)
(* A line is abstracted to the event it decodes to: its id (what the code   *)
(* writes) and n, the serial number of the Append call that wrote it (what  *)
(* tells two events apart: type, time and data).  A line that no longer     *)
(* decodes is Garbage.  The file is the sequence of its newline-terminated  *)
(* lines followed by tail, what comes after the last newline.               *)
(***************************************************************************)
EXTENDS Integers, Sequences, FiniteSets

CONSTANTS
  Clients,       \* readers of GET /api/events
  Limits,        \* the values clients pass as limit=
  DefaultLimit,  \* the limit when the request names none (100 in the code)
  MaxLimit,      \* the cap on limit= (1000 in the code)
  MaxAppends     \* bound: Append calls in a behaviour

ASSUME LimitsAssumption ==
  /\ Limits \subseteq Nat
  /\ DefaultLimit \in Nat \ {0} /\ MaxLimit \in Nat \ {0}
ASSUME BoundAssumption == MaxAppends \in Nat

VARIABLES
  lines,   \* the terminated lines of events.log
  tail,    \* the unterminated rest: Clean, Garbage, or a record lacking only its newline
  id,      \* Log.id, the last id handed out by this process
  up,      \* the server process has the log open
  calls,   \* history: Append calls made so far
  acked,   \* history: events whose Append returned without error
  tears,   \* history: writes that left a part of a line behind
  cursor,  \* per client: the last id it has seen, its next after=
  seen     \* per client: every event delivered to it

logVars == <<lines, tail, id, up>>
history == <<calls, acked, tears>>
clientVars == <<cursor, seen>>
vars == <<lines, tail, id, up, calls, acked, tears, cursor, seen>>

Event   == [id : Nat \ {0}, n : Nat \ {0}]
Garbage == [id |-> 0, n |-> 0]     \* a non-empty line json.Unmarshal rejects
Clean   == [id |-> 0, n |-> 1]     \* nothing after the last newline
NoEvent == {Garbage, Clean}        \* what Read skips

-----------------------------------------------------------------------------
(* Reading the file                                                         *)

\* The pieces strings.Split finds, in file order.
Contents == Append(lines, tail)

\* The positions Read does not skip.
Readable == {i \in 1..Len(Contents) : Contents[i] \notin NoEvent}

Events == {Contents[i] : i \in Readable}

\* Slip: the limit keeps the newest events, as a tail would.
TailPage(after, limit) ==
  LET fresh == {i \in Readable : Contents[i].id > after}
  IN  {i \in fresh : limit = 0 \/ Cardinality({j \in fresh : j >= i}) <= limit}

\* What Read(after, limit) returns: in file order the first limit events with
\* a larger id, all of them when the limit is 0.
Page(after, limit) ==
  LET fresh == {i \in Readable : Contents[i].id > after}
  IN  {i \in fresh : limit = 0 \/ Cardinality({j \in fresh : j <= i}) <= limit}

LastOf(I) == CHOOSE i \in I : \A j \in I : j <= i

\* Slips: the number of lines taken for the last id; only the very last line
\* looked at; no line at all reported as -1.
lastIDCounts   == Cardinality(Readable)
lastIDOfTail   == IF tail \in NoEvent THEN 0 ELSE tail.id
lastIDSentinel == IF Readable = {} THEN -1 ELSE Contents[LastOf(Readable)].id

\* The id of the last readable line, 0 when there is none.
lastID == IF Readable = {} THEN 0 ELSE Contents[LastOf(Readable)].id

\* handleEvents caps the limit, and lets 0 ("no limit") through.
PageLimit(limit) == IF limit > MaxLimit THEN MaxLimit ELSE limit

-----------------------------------------------------------------------------
(* Writing                                                                  *)

\* A whole line lands in the file.  On top of an unterminated tail the two
\* run together into one line that no longer decodes.
WriteLine(e) ==
  /\ lines' = Append(lines, IF tail = Clean THEN e ELSE Garbage)
  /\ tail' = Clean
  /\ UNCHANGED tears

\* Only a prefix of the line lands: nothing at all, a fragment, or all of the
\* record but its newline.
WritePrefix(e) ==
  /\ UNCHANGED lines
  /\ \/ UNCHANGED <<tail, tears>>
     \/ /\ tail' \in (IF tail = Clean THEN {Garbage, e} ELSE {Garbage})
        /\ tears' = tears + 1

\* The record this Append call tries to write: its id is taken first.
NewEvent == [id |-> id + 1, n |-> calls + 1]

BeginAppend ==
  /\ up
  /\ calls < MaxAppends
  /\ calls' = calls + 1

\* Append writes its line and returns it.
AppendEvent ==
  /\ BeginAppend
  /\ id' = id + 1
  /\ WriteLine(NewEvent)
  /\ acked' = acked \union {NewEvent}
  /\ UNCHANGED <<up, cursor, seen>>

\* The write fails (a full disk): the id stays taken, the caller gets an error
\* every caller in the server drops.
AppendFails ==
  /\ BeginAppend
  /\ id' = id + 1
  /\ WritePrefix(NewEvent)
  /\ UNCHANGED <<up, acked, cursor, seen>>

\* The process dies inside an Append, the line written or not, unacknowledged.
CrashInAppend ==
  /\ BeginAppend
  /\ WriteLine(NewEvent) \/ WritePrefix(NewEvent)
  /\ up' = FALSE
  /\ id' = 0
  /\ UNCHANGED <<acked, cursor, seen>>

\* The process stops between two appends.
Stop ==
  /\ up
  /\ up' = FALSE
  /\ id' = 0
  /\ UNCHANGED <<lines, tail, history, clientVars>>

\* Slip: the log is opened without O_APPEND, truncating what is there.
OpenTruncating ==
  /\ ~up
  /\ up' = TRUE
  /\ id' = lastID
  /\ lines' = <<>> /\ tail' = Clean
  /\ UNCHANGED <<history, clientVars>>

\* Open: the counter continues from the last line that decodes.
Open ==
  /\ ~up
  /\ up' = TRUE
  /\ id' = lastID
  /\ UNCHANGED <<lines, tail, history, clientVars>>

\* One GET /api/events: the client asks after the last id it has seen.
Poll(c, limit) ==
  LET page == Page(cursor[c], PageLimit(limit))
  IN  /\ up
      /\ page # {}
      /\ seen' = [seen EXCEPT ![c] = @ \union {Contents[i] : i \in page}]
      /\ cursor' = [cursor EXCEPT ![c] = Contents[LastOf(page)].id]
      /\ UNCHANGED <<logVars, history>>

-----------------------------------------------------------------------------
Init ==
  /\ lines = <<>> /\ tail = Clean
  /\ id = 0 /\ up = FALSE
  /\ calls = 0 /\ acked = {} /\ tears = 0
  /\ cursor = [c \in Clients |-> 0]
  /\ seen = [c \in Clients |-> {}]

Next ==
  \/ AppendEvent \/ AppendFails \/ CrashInAppend
  \/ Stop \/ Open
  \/ \E c \in Clients, limit \in Limits \union {DefaultLimit} : Poll(c, limit)

Spec == Init /\ [][Next]_vars

-----------------------------------------------------------------------------
(* Properties                                                               *)

\* The log's variables keep their types.
TypeOK ==
  /\ lines \in Seq(Event \union {Garbage})
  /\ tail \in Event \union NoEvent
  /\ id \in Nat /\ up \in BOOLEAN
  /\ calls \in Nat /\ acked \subseteq Event /\ tears \in Nat
  /\ cursor \in [Clients -> Nat]
  /\ seen \in [Clients -> SUBSET Event]

\* Whatever crashes and torn writes did to the file, the ids of the events a
\* read returns increase strictly in file order: no page repeats an id and the
\* last event of a page carries its largest id, which is what makes "after the
\* last id seen" a cursor (Read, handleEvents).
IdsIncrease ==
  \A i, j \in Readable : i < j => Contents[i].id < Contents[j].id

\* As long as no write was torn, whatever failed, crashed and restarted, an event
\* somebody got to know (Append returned it, or a read delivered it) shares its id
\* with no other such event.
IdsIdentifyEvents ==
  LET known == acked \union UNION {seen[c] : c \in Clients}
  IN  tears = 0 => \A e, f \in known : e.id = f.id => e = f

\* An event whose Append succeeded stays readable for ever.
AckedStayReadable == acked \subseteq Events

\* As long as no write was torn, a client that pages with its cursor misses
\* nothing: every readable event up to the cursor was delivered to it.
NothingSkipped ==
  tears = 0 =>
    \A c \in Clients : \A e \in Events : e.id <= cursor[c] => e \in seen[c]

\* Each torn write costs at most one acknowledged event, the one that lands on
\* the same line: damage never spreads further than that.
LossIsBounded == Cardinality(acked \ Events) <= tears

\* Events never move: a reader that has been given an event cannot find one
\* with a smaller id appear in the file later.
NewEventsAreNewer ==
  [][\A e \in Events' \ Events : \A f \in Events \intersect Events' : f.id < e.id]_vars

\* Over torn writes, failures, crashes and restarts the file behaves like a feed of
\* events in the order of their ids, of which at most the newest goes again, and only one
\* whose append failed or died, and whose pages have no gap.
Feed == INSTANCE EventFeed WITH feed <- Events, loose <- tail \notin NoEvent
ImplementsEventFeed == Feed!Spec
=============================================================================
