--------------------------- MODULE TerminalProofs ---------------------------
(***************************************************************************)
(* The mutual exclusion of the bridge's writers, and the order in which its *)
(* reader and its pipe end, and the order in which the session gets what was *)
(* typed, for every number of frames and outputs.                           *)
(***************************************************************************)
EXTENDS Terminal, TLAPS, SequenceTheorems

\* The mutex is held exactly while a frame is being written.
Locked ==
  /\ output = "writing" <=> wmu = "output"
  /\ main \in {"exit frame", "last frame"} <=> wmu = "main"

\* The pipe is closed by the handler when it returns, and by nobody else.
Order ==
  /\ pipe = "closed" => main = "returned" /\ reader \in {"none", "ended"}
  /\ main \in {"preflight", "refused", "attaching", "failing", "last frame"} => reader = "none"

\* The lock and the frames agree from the start.
LEMMA LockedInit == Init => Locked
  BY DEF Init, Locked

\* Every step keeps the lock and the frames in agreement.
LEMMA LockedStep == Locked /\ [Next]_vars => Locked'
<1> SUFFICES ASSUME Locked, [Next]_vars PROVE Locked'
  OBVIOUS
<1>1. CASE BrowserSends \/ BrowserGoes \/ AttachEnds
  BY <1>1 DEF BrowserSends, BrowserGoes, AttachEnds, client, bridge, Locked
<1>2. CASE OutputComes
  BY <1>2 DEF OutputComes, bridge, Locked
<1>3. CASE Client
  <2>1. CASE StdinTakes
    BY <2>1 DEF StdinTakes, Locked
  <2>2. CASE StdinEnds \/ AttachDropped
    BY <2>2 DEF StdinEnds, AttachDropped, AttachEnds, bridge, Locked
  <2>3. CASE OutputLocks
    BY <2>3 DEF OutputLocks, Locked
  <2>4. CASE OutputWritten
    BY <2>4 DEF OutputWritten, Locked
  <2> QED BY <1>3, <2>1, <2>2, <2>3, <2>4 DEF Client
<1>4. CASE Reader \/ Forward
  BY <1>4 DEF Reader, ReadFrame, ReadFails, Forward, client, Locked
<1>5. CASE Handler
  <2>1. CASE Preflight
    BY <2>1 DEF Preflight, client, Locked
  <2>2. CASE Attach
    BY <2>2 DEF Attach, Locked
  <2>3. CASE SelectClosed \/ SelectDone
    BY <2>3 DEF SelectClosed, SelectDone, client, Locked
  <2>4. CASE ExitLocks
    BY <2>4 DEF ExitLocks, client, Locked
  <2>5. CASE ExitWritten
    BY <2>5 DEF ExitWritten, client, Locked
  <2>6. CASE Return
    BY <2>6 DEF Return, Deferred, client, Locked
  <2> QED BY <1>5, <2>1, <2>2, <2>3, <2>4, <2>5, <2>6 DEF Handler
<1>6. CASE UNCHANGED vars
  BY <1>6 DEF vars, client, bridge, Locked
<1> QED BY <1>1, <1>2, <1>3, <1>4, <1>5, <1>6 DEF Next

\* No exit frame is written while output still is: the bridge gives the websocket
\* one writer at a time.
THEOREM OneWriterAlways == Spec => []OneWriter
<1>1. Locked => OneWriter
  BY DEF Locked, OneWriter
<1> QED BY <1>1, LockedInit, LockedStep, PTL DEF Spec

\* The pipe is open and there is no reader at the start.
LEMMA OrderInit == Init => Order
  BY DEF Init, Order

\* Every step keeps the pipe open as long as a reader may write to it.
LEMMA OrderStep == Order /\ [Next]_vars => Order'
<1> SUFFICES ASSUME Order, [Next]_vars PROVE Order'
  OBVIOUS
<1>1. CASE BrowserSends \/ BrowserGoes \/ AttachEnds \/ OutputComes
  BY <1>1 DEF BrowserSends, BrowserGoes, AttachEnds, OutputComes, client, bridge, Order
<1>2. CASE Client
  <2>1. CASE StdinTakes
    BY <2>1 DEF StdinTakes, Order
  <2>2. CASE StdinEnds \/ AttachDropped
    BY <2>2 DEF StdinEnds, AttachDropped, AttachEnds, bridge, Order
  <2>3. CASE OutputLocks \/ OutputWritten
    BY <2>3 DEF OutputLocks, OutputWritten, Order
  <2> QED BY <1>2, <2>1, <2>2, <2>3 DEF Client
<1>3. CASE Reader \/ Forward
  BY <1>3 DEF Reader, ReadFrame, ReadFails, Forward, Order
<1>4. CASE Handler
  <2>1. CASE Preflight \/ Attach
    BY <2>1 DEF Preflight, Attach, Order
  <2>2. CASE SelectClosed \/ SelectDone \/ ExitLocks \/ ExitWritten
    BY <2>2 DEF SelectClosed, SelectDone, ExitLocks, ExitWritten, Order
  <2>3. CASE Return
    BY <2>3 DEF Return, Deferred, Order
  <2> QED BY <1>4, <2>1, <2>2, <2>3 DEF Handler
<1>5. CASE UNCHANGED vars
  BY <1>5 DEF vars, client, bridge, Order
<1> QED BY <1>1, <1>2, <1>3, <1>4, <1>5 DEF Next

\* The pipe to the session outlives the reader that writes to it.
THEOREM PipeAlwaysOutlives == Spec => []PipeOutlivesReader
<1>1. Order => PipeOutlivesReader
  BY DEF Order, PipeOutlivesReader
<1> QED BY <1>1, OrderInit, OrderStep, PTL DEF Spec

-----------------------------------------------------------------------------
(* Types                                                                    *)

\* The types of what the steps count and carry.
Data ==
  /\ inbox \in Seq(Frames) /\ fed \in Seq(Frames)
  /\ typed \in Frames /\ written \in 0..MaxOutput

\* Where the handler is.
HandlerPlaces ==
  main \in {"preflight", "refused", "attaching", "failing", "select", "exiting",
            "exit frame", "last frame", "draining", "returned"}

\* What is open.
Openings ==
  /\ browser \in {"here", "gone"} /\ socket \in {"open", "closed"}
  /\ pipe \in {"open", "closed"} /\ ctx \in {"live", "cancelled"}

\* Where the goroutines are that run beside the handler.
Beside ==
  /\ reader \in {"none", "read", "write", "ended"} /\ forward \in {"none", "waiting", "ended"}
  /\ attach \in {"none", "running", "ended"} /\ stdin \in {"none", "reading", "gone"}

\* What they share.
Shared ==
  /\ output \in {"idle", "locking", "writing"}
  /\ done \in {0, 1} /\ wmu \in {"nobody", "main", "output"}

Places == HandlerPlaces /\ Openings /\ Beside /\ Shared

\* What the log has when the handler has got so far.
LogSoFar ==
  /\ main \in {"preflight", "refused"} => log = <<>>
  /\ main = "returned" => log = <<"terminal.attach", "terminal.detach">>
  /\ main \notin {"preflight", "refused", "returned"} => log = <<"terminal.attach">>

\* Together they are the types.
LEMMA TypeParts == Data /\ Places /\ LogSoFar => TypeOK
<1> SUFFICES ASSUME Data, Places, LogSoFar PROVE TypeOK
  OBVIOUS
<1> DEFINE Log == log = CASE main \in {"preflight", "refused"} -> <<>>
                          [] main = "returned" -> <<"terminal.attach", "terminal.detach">>
                          [] OTHER -> <<"terminal.attach">>
<1>1. main \in {"preflight", "refused"} => Log
  BY DEF LogSoFar
<1>2. main = "returned" => Log
  BY DEF LogSoFar
<1>3. main \notin {"preflight", "refused", "returned"} => Log
  BY DEF LogSoFar
<1>4. Log
  BY <1>1, <1>2, <1>3
<1>5. done \in 0..1
  BY DEF Places, Shared
<1> HIDE DEF Log
<1> QED BY <1>4, <1>5, Zenon DEF TypeOK, Data, Places, HandlerPlaces, Openings, Beside, Shared, Log

\* Nothing is sent, written or logged at the start.
LEMMA TypeInit == Init => Data /\ Places /\ LogSoFar
<1> SUFFICES ASSUME Init PROVE Data /\ Places /\ LogSoFar
  OBVIOUS
<1>1. inbox \in Seq(Frames) /\ fed \in Seq(Frames)
  BY EmptySeq DEF Init
<1>2. 0 \in Frames /\ 0 \in 0..MaxOutput
  BY TerminalAssumption DEF Frames
<1>3. Data
  BY <1>1, <1>2 DEF Init, Data
<1>4. HandlerPlaces /\ Openings /\ Beside /\ Shared
  BY DEF Init, HandlerPlaces, Openings, Beside, Shared
<1> QED BY <1>3, <1>4 DEF Init, Places, LogSoFar

\* What a box of frames that is not empty is made of.
LEMMA BoxTail ==
  ASSUME NEW S, NEW box \in Seq(S), box # <<>>
  PROVE  /\ Len(box) \in Nat /\ Len(box) > 0 /\ Head(box) = box[1]
         /\ Head(box) \in S /\ Tail(box) \in Seq(S)
         /\ Len(Tail(box)) = Len(box) - 1
         /\ \A i \in 1..Len(Tail(box)) :
               i + 1 \in 1..Len(box) /\ Tail(box)[i] = box[i + 1]
<1>1. Len(box) \in Nat /\ Len(box) > 0
  BY LenProperties, EmptySeq
<1>2. /\ Head(box) \in S /\ Tail(box) \in Seq(S)
      /\ Len(Tail(box)) = Len(box) - 1
      /\ \A i \in 1..Len(Tail(box)) : Tail(box)[i] = box[i + 1]
  BY HeadTailProperties
<1>3. Head(box) = box[1]
  BY <1>1
<1>4. \A i \in 1..Len(Tail(box)) : i + 1 \in 1..Len(box)
  BY <1>1, <1>2
<1> QED BY <1>1, <1>2, <1>3, <1>4

\* Every step keeps the types of what it carries.
LEMMA DataStep ==
  ASSUME Data, reader = "write" => inbox # <<>>, [Next]_vars
  PROVE  Data'
<1>1. ASSUME UNCHANGED <<inbox, fed, typed, written>> PROVE Data'
  BY <1>1 DEF Data
<1>2. CASE BrowserSends
  <2>1. PICK frame \in {typed + 1, Other} : inbox' = Append(inbox, frame)
    BY <1>2 DEF BrowserSends
  <2>2. UNCHANGED <<fed, written>> /\ typed' = typed + 1 /\ typed < MaxFrames
    BY <1>2 DEF BrowserSends, client
  <2>3. typed \in Frames
    BY DEF Data
  <2>4. typed' \in Frames /\ frame \in Frames
    BY TerminalAssumption, <2>1, <2>2, <2>3 DEF Frames, Other
  <2>5. inbox \in Seq(Frames)
    BY DEF Data
  <2>6. inbox' \in Seq(Frames)
    BY <2>1, <2>4, <2>5, AppendProperties
  <2> QED BY <2>2, <2>4, <2>6 DEF Data
<1>3. CASE OutputComes
  <2>1. UNCHANGED <<inbox, fed, typed>> /\ written' = written + 1 /\ written < MaxOutput
    BY <1>3 DEF OutputComes
  <2>2. written \in 0..MaxOutput
    BY DEF Data
  <2>3. written' \in 0..MaxOutput
    BY TerminalAssumption, <2>1, <2>2
  <2> QED BY <2>1, <2>3 DEF Data
<1>4. CASE StdinTakes
  <2>1. /\ inbox' = Tail(inbox) /\ UNCHANGED <<typed, written>> /\ inbox # <<>>
        /\ fed' = Append(fed, Head(inbox)) \/ fed' = fed
    BY <1>4 DEF StdinTakes
  <2>2. inbox \in Seq(Frames) /\ fed \in Seq(Frames)
    BY DEF Data
  <2>3. Head(inbox) \in Frames /\ inbox' \in Seq(Frames)
    BY <2>1, <2>2, BoxTail
  <2>4. fed' \in Seq(Frames)
    BY <2>1, <2>2, <2>3, AppendProperties, SMTT(20)
  <2> QED BY <2>1, <2>3, <2>4 DEF Data
<1>5. CASE ReadFrame
  <2>1. /\ (inbox # <<>> /\ inbox' = Tail(inbox)) \/ inbox' = inbox
        /\ UNCHANGED <<typed, fed, written>>
    BY <1>5 DEF ReadFrame, client
  <2>2. inbox' \in Seq(Frames)
    BY <2>1, BoxTail DEF Data
  <2> QED BY <2>1, <2>2 DEF Data
<1>6. CASE BrowserGoes \/ AttachEnds \/ StdinEnds \/ AttachDropped \/ OutputLocks \/ OutputWritten
  BY <1>1, <1>6 DEF BrowserGoes, AttachEnds, StdinEnds, AttachDropped, OutputLocks,
     OutputWritten, client
<1>7. CASE ReadFails \/ Forward \/ Handler
  BY <1>1, <1>7 DEF ReadFails, Forward, Handler, Preflight, Attach, SelectClosed, SelectDone,
     ExitLocks, ExitWritten, Return, client
<1>8. CASE UNCHANGED vars
  BY <1>1, <1>8 DEF vars, client
<1> QED BY <1>2, <1>3, <1>4, <1>5, <1>6, <1>7, <1>8 DEF Next, Client, Reader

\* Every step takes a goroutine to one of its places.
LEMMA PlacesStep ==
  ASSUME Places, [Next]_vars
  PROVE  Places'
<1> USE DEF Next, Client, Reader, Handler, BrowserSends, BrowserGoes, AttachEnds,
       AttachDropped, StdinTakes, StdinEnds, OutputComes, OutputLocks, OutputWritten,
       ReadFrame, ReadFails, Forward, Preflight, Attach, SelectClosed, SelectDone,
       ExitLocks, ExitWritten, Return, Deferred, client, bridge, vars
<1>1. HandlerPlaces => HandlerPlaces'
  BY DEF HandlerPlaces
<1>2. Openings => Openings'
  BY DEF Openings
<1>3. Beside => Beside'
  BY DEF Beside
<1>4. Shared => Shared'
  BY DEF Shared
<1> QED BY <1>1, <1>2, <1>3, <1>4 DEF Places

\* The log of a terminal that was attached and left.
LEMMA Two == ASSUME NEW a, NEW b PROVE Append(<<a>>, b) = <<a, b>>
<1>1. ASSUME NEW S, NEW one \in Seq(S), NEW two \in Seq(S), NEW x \in S,
             Len(one) = 1, Len(two) = 2, two[1] = one[1], two[2] = x
      PROVE  Append(one, x) = two
  <2> DEFINE app == Append(one, x)
  <2>0. app \in Seq(S) /\ Len(app) = Len(one) + 1
    BY <1>1, AppendProperties, ZenonT(40)
  <2>1. \A i \in 1..Len(one) : app[i] = one[i]
    BY <1>1, AppendProperties
  <2>2. app[Len(one) + 1] = x
    BY <1>1, AppendProperties
  <2> HIDE DEF app
  <2>3. Len(app) = 2 /\ app[1] = one[1] /\ app[2] = x
    BY <1>1, <2>0, <2>1, <2>2
  <2>4. \A i \in 1..Len(app) : app[i] = two[i]
    BY <1>1, <2>3
  <2>5. app = two
    BY <1>1, <2>0, <2>3, <2>4, SeqEqual
  <2> QED BY <2>5 DEF app
<1> DEFINE S == {a, b}
           one == <<a>>
           two == <<a, b>>
<1>2. /\ one \in Seq(S) /\ two \in Seq(S) /\ b \in S
      /\ Len(one) = 1 /\ Len(two) = 2 /\ two[1] = one[1] /\ two[2] = b
  OBVIOUS
<1> HIDE DEF S, one, two
<1>3. Append(one, b) = two
  BY <1>1, <1>2
<1> QED BY <1>3 DEF one, two

\* Every step logs what the handler does.
LEMMA LogStep ==
  ASSUME LogSoFar, [Next]_vars
  PROVE  LogSoFar'
<1>1. ASSUME UNCHANGED <<main, log>> PROVE LogSoFar'
  BY <1>1 DEF LogSoFar
<1>2. CASE BrowserSends \/ BrowserGoes \/ AttachEnds \/ StdinEnds \/ AttachDropped
  BY <1>1, <1>2 DEF BrowserSends, BrowserGoes, AttachEnds, StdinEnds, AttachDropped, bridge
<1>3. CASE OutputComes \/ StdinTakes \/ OutputLocks \/ OutputWritten
  BY <1>1, <1>3 DEF OutputComes, StdinTakes, OutputLocks, OutputWritten, bridge
<1>4. CASE ReadFrame \/ ReadFails \/ Forward
  BY <1>1, <1>4 DEF ReadFrame, ReadFails, Forward
<1>5. CASE Preflight \/ Attach
  BY <1>5 DEF Preflight, Attach, LogSoFar
<1>6. CASE SelectClosed \/ SelectDone \/ ExitLocks \/ ExitWritten
  BY <1>6 DEF SelectClosed, SelectDone, ExitLocks, ExitWritten, LogSoFar
<1>7. CASE Return
  <2>1. log = <<"terminal.attach">> /\ log' = Append(log, "terminal.detach")
    BY <1>7 DEF Return, Deferred, LogSoFar
  <2>2. log' = <<"terminal.attach", "terminal.detach">>
    BY <2>1, Two
  <2> QED BY <1>7, <2>2 DEF Return, Deferred, LogSoFar
<1>8. CASE UNCHANGED vars
  BY <1>1, <1>8 DEF vars, bridge
<1> QED BY <1>2, <1>3, <1>4, <1>5, <1>6, <1>7, <1>8 DEF Next, Client, Reader, Handler

-----------------------------------------------------------------------------
(* What was typed                                                           *)

\* The inputs under way are numbered upwards, after those the session got.
Numbered ==
  /\ \A i, j \in 1..Len(inbox) :
        i < j /\ inbox[i] # Other /\ inbox[j] # Other => inbox[i] < inbox[j]
  /\ \A i \in 1..Len(inbox) : inbox[i] <= typed
  /\ \A k \in 1..Len(fed) : fed[k] <= typed
  /\ \A k \in 1..Len(fed), i \in 1..Len(inbox) : inbox[i] # Other => fed[k] < inbox[i]
  /\ InputInOrder
  /\ reader = "write" => inbox # <<>> /\ inbox[1] # Other

\* Nothing is under way at the start.
LEMMA NumberedInit == Init => Numbered
<1> SUFFICES ASSUME Init PROVE Numbered
  OBVIOUS
<1>1. Len(inbox) = 0 /\ Len(fed) = 0 /\ reader = "none"
  BY DEF Init
<1> QED BY <1>1 DEF Numbered, InputInOrder

\* Every step keeps the order of what was typed.
LEMMA NumberedStep ==
  ASSUME Data, Numbered, [Next]_vars
  PROVE  Numbered'

<1>0. inbox \in Seq(Frames) /\ fed \in Seq(Frames) /\ typed \in Frames
  BY DEF Data
<1>1. /\ typed \in Nat /\ Len(inbox) \in Nat /\ Len(fed) \in Nat
      /\ \A i \in 1..Len(inbox) : inbox[i] \in Nat
      /\ \A k \in 1..Len(fed) : fed[k] \in Nat
  <2>1. \A i \in 1..Len(inbox) : inbox[i] \in Frames
    BY <1>0, ElementOfSeq
  <2>2. \A k \in 1..Len(fed) : fed[k] \in Frames
    BY <1>0, ElementOfSeq
  <2>3. Len(inbox) \in Nat /\ Len(fed) \in Nat
    BY <1>0, LenProperties
  <2>4. \A n \in Frames : n \in Nat
    BY TerminalAssumption DEF Frames
  <2> QED BY <1>0, <2>1, <2>2, <2>3, <2>4
<1>2. ASSUME UNCHANGED <<inbox, typed, fed>>, reader' = "write" => reader = "write"
      PROVE  Numbered'
  BY <1>2 DEF Numbered, InputInOrder
<1>3. CASE BrowserSends
  <2>0. typed < MaxFrames
    BY <1>3 DEF BrowserSends
  <2>1. PICK frame \in {typed + 1, Other} :
          /\ inbox' = Append(inbox, frame) /\ typed' = typed + 1
          /\ UNCHANGED <<fed, reader>>
    BY <1>3 DEF BrowserSends, client, bridge
  <2>2. /\ Len(inbox') = Len(inbox) + 1
        /\ \A i \in 1..Len(inbox) : inbox'[i] = inbox[i]
        /\ inbox'[Len(inbox) + 1] = frame
    <3>1. frame \in Frames
      BY <1>0, <2>1, <2>0, TerminalAssumption DEF Frames, Other
    <3> QED BY <1>0, <2>1, <3>1, AppendProperties
  <2>3. frame = Other \/ frame = typed + 1
    BY <2>1
  <2>4. \A i, j \in 1..Len(inbox') :
          i < j /\ inbox'[i] # Other /\ inbox'[j] # Other => inbox'[i] < inbox'[j]
    <3> SUFFICES ASSUME NEW i \in 1..Len(inbox'), NEW j \in 1..Len(inbox'), i < j,
                        inbox'[i] # Other, inbox'[j] # Other
                 PROVE  inbox'[i] < inbox'[j]
      OBVIOUS
    <3>1. i \in 1..Len(inbox) /\ inbox'[i] = inbox[i] /\ inbox[i] <= typed
      BY <1>1, <2>2 DEF Numbered
    <3>2. CASE j \in 1..Len(inbox)
      BY <2>2, <3>1, <3>2 DEF Numbered
    <3>3. CASE j = Len(inbox) + 1
      BY <1>1, <2>2, <2>3, <3>1, <3>3
    <3> QED BY <1>1, <2>2, <3>2, <3>3
  <2>5. \A i \in 1..Len(inbox') :
          \/ i \in 1..Len(inbox) /\ inbox'[i] = inbox[i]
          \/ inbox'[i] = frame
    BY <1>1, <2>2
  <2>6. \A i \in 1..Len(inbox') : inbox'[i] <= typed'
    BY <1>1, <2>1, <2>3, <2>5 DEF Numbered, Other
  <2>7. \A k \in 1..Len(fed) : fed[k] <= typed'
    BY <1>1, <2>1 DEF Numbered
  <2>8. \A k \in 1..Len(fed), i \in 1..Len(inbox') : inbox'[i] # Other => fed[k] < inbox'[i]
    BY <1>1, <2>3, <2>5 DEF Numbered
  <2>9. reader' = "write" => inbox' # <<>> /\ inbox'[1] # Other
    <3>1. ASSUME reader = "write" PROVE inbox' # <<>> /\ inbox'[1] # Other
      <4>1. Len(inbox) > 0 /\ inbox[1] # Other
        BY <1>0, <3>1, BoxTail DEF Numbered
      <4>2. Len(inbox') # 0
        BY <1>1, <2>2
      <4> QED BY <1>1, <2>2, <4>1, <4>2
    <3> QED BY <2>1, <3>1
  <2> QED BY <2>1, <2>4, <2>6, <2>7, <2>8, <2>9 DEF Numbered, InputInOrder
<1>4. ASSUME inbox # <<>>, inbox' = Tail(inbox), typed' = typed, reader' # "write",
             \/ fed' = fed
             \/ inbox[1] # Other /\ fed' = Append(fed, Head(inbox))
      PROVE  Numbered'
  <2>1. /\ Len(inbox') = Len(inbox) - 1
        /\ \A i \in 1..Len(inbox') : i + 1 \in 1..Len(inbox) /\ inbox'[i] = inbox[i + 1]
        /\ 1 \in 1..Len(inbox) /\ Head(inbox) = inbox[1]
    BY <1>0, <1>4, BoxTail
  <2>2. /\ \A i, j \in 1..Len(inbox') :
             i < j /\ inbox'[i] # Other /\ inbox'[j] # Other => inbox'[i] < inbox'[j]
        /\ \A i \in 1..Len(inbox') : inbox'[i] <= typed'
    <3>1. \A i, j \in 1..Len(inbox') :
             i < j /\ inbox'[i] # Other /\ inbox'[j] # Other => inbox'[i] < inbox'[j]
      <4> SUFFICES ASSUME NEW i \in 1..Len(inbox'), NEW j \in 1..Len(inbox'), i < j,
                          inbox'[i] # Other, inbox'[j] # Other
                   PROVE  inbox'[i] < inbox'[j]
        OBVIOUS
      <4>1. /\ i + 1 \in 1..Len(inbox) /\ inbox'[i] = inbox[i + 1]
            /\ j + 1 \in 1..Len(inbox) /\ inbox'[j] = inbox[j + 1]
            /\ i + 1 < j + 1
        BY <2>1
      <4>2. inbox[i + 1] # Other /\ inbox[j + 1] # Other
        BY <4>1
      <4>3. inbox[i + 1] < inbox[j + 1]
        BY <4>1, <4>2 DEF Numbered
      <4> QED BY <4>1, <4>3
    <3>2. \A i \in 1..Len(inbox') : inbox'[i] <= typed'
      BY <1>4, <2>1 DEF Numbered
    <3> QED BY <3>1, <3>2
  <2>3. CASE fed' = fed
    <3>1. \A k \in 1..Len(fed), i \in 1..Len(inbox') : inbox'[i] # Other => fed[k] < inbox'[i]
      BY <2>1 DEF Numbered
    <3> QED BY <1>4, <2>2, <2>3, <3>1 DEF Numbered, InputInOrder
  <2>4. CASE inbox[1] # Other /\ fed' = Append(fed, Head(inbox))
    <3>1. /\ Len(fed') = Len(fed) + 1
          /\ \A k \in 1..Len(fed) : fed'[k] = fed[k]
          /\ fed'[Len(fed) + 1] = inbox[1]
      <4>1. Head(inbox) \in Frames /\ fed \in Seq(Frames)
        BY <1>0, <1>4, BoxTail
      <4> QED BY <2>1, <2>4, <4>1, AppendProperties
    <3>2. \A k \in 1..Len(fed') : (k \in 1..Len(fed) /\ fed'[k] = fed[k]) \/ fed'[k] = inbox[1]
      BY <1>1, <3>1
    <3>3. \A k \in 1..Len(fed') : fed'[k] <= typed'
      BY <1>4, <2>1, <3>2 DEF Numbered
    <3>4. \A k \in 1..Len(fed'), i \in 1..Len(inbox') :
             inbox'[i] # Other => fed'[k] < inbox'[i]
      <4> SUFFICES ASSUME NEW k \in 1..Len(fed'), NEW i \in 1..Len(inbox'), inbox'[i] # Other
                   PROVE  fed'[k] < inbox'[i]
        OBVIOUS
      <4>1. i + 1 \in 1..Len(inbox) /\ inbox'[i] = inbox[i + 1] /\ 1 < i + 1
        BY <2>1
      <4>2. inbox[1] < inbox'[i]
        BY <2>1, <2>4, <4>1 DEF Numbered
      <4>3. k \in 1..Len(fed) => fed[k] < inbox'[i]
        BY <4>1 DEF Numbered
      <4> QED BY <3>2, <4>2, <4>3
    <3>5. \A k \in 1..(Len(fed') - 1) : fed'[k] < fed'[k + 1]
      <4> SUFFICES ASSUME NEW k \in 1..(Len(fed') - 1) PROVE fed'[k] < fed'[k + 1]
        OBVIOUS
      <4>1. k \in 1..Len(fed) /\ fed'[k] = fed[k]
        BY <1>1, <3>1
      <4>2. CASE k = Len(fed)
        BY <2>1, <2>4, <3>1, <4>1, <4>2 DEF Numbered
      <4>3. CASE k # Len(fed)
        BY <1>1, <3>1, <4>1, <4>3 DEF Numbered, InputInOrder
      <4> QED BY <4>2, <4>3
    <3> QED BY <1>4, <2>2, <3>3, <3>4, <3>5 DEF Numbered, InputInOrder
  <2> QED BY <1>4, <2>3, <2>4
<1>5. CASE StdinTakes
  <2>1. inbox # <<>> /\ inbox[1] # Other
    BY <1>5 DEF StdinTakes, Numbered
  <2> QED BY <1>4, <1>5, <2>1 DEF StdinTakes
<1>6. CASE ReadFrame
  <2>1. CASE Head(inbox) = Other
    BY <1>4, <1>6, <2>1 DEF ReadFrame, client
  <2>2. CASE Head(inbox) # Other
    <3>1. UNCHANGED <<inbox, typed, fed>> /\ inbox # <<>> /\ inbox[1] # Other
      BY <1>0, <1>6, <2>2, BoxTail DEF ReadFrame, client
    <3> QED BY <3>1 DEF Numbered, InputInOrder
  <2> QED BY <2>1, <2>2
<1>7. CASE BrowserGoes \/ AttachEnds \/ StdinEnds \/ AttachDropped
  BY <1>2, <1>7 DEF BrowserGoes, AttachEnds, StdinEnds, AttachDropped, client, bridge
<1>8. CASE OutputComes \/ OutputLocks \/ OutputWritten
  BY <1>2, <1>8 DEF OutputComes, OutputLocks, OutputWritten, bridge
<1>9. CASE ReadFails \/ Forward \/ Handler
  BY <1>2, <1>9 DEF ReadFails, Forward, Handler, Preflight, Attach, SelectClosed, SelectDone,
     ExitLocks, ExitWritten, Return, client
<1>10. CASE UNCHANGED vars
  BY <1>2, <1>10 DEF vars, client, bridge
<1> QED BY <1>3, <1>5, <1>6, <1>7, <1>8, <1>9, <1>10 DEF Next, Client, Reader

\* The types, the log and the order of what was typed, in every reachable state.
LEMMA NumberedAlways == Spec => [](Data /\ Places /\ LogSoFar /\ Numbered)
<1>1. Data /\ Places /\ LogSoFar /\ Numbered /\ [Next]_vars
        => (Data /\ Places /\ LogSoFar /\ Numbered)'
  BY DataStep, PlacesStep, LogStep, NumberedStep DEF Numbered
<1> QED BY <1>1, TypeInit, NumberedInit, PTL DEF Spec

\* The variables keep their types, and the log tells what the handler has done.
THEOREM TypeCorrect == Spec => []TypeOK
BY TypeParts, NumberedAlways, PTL

\* The session gets the inputs in the order they were typed and none twice, whenever
\* either end closes.
THEOREM InputAlwaysInOrder == Spec => []InputInOrder
<1>1. Numbered => InputInOrder
  BY DEF Numbered
<1> QED BY <1>1, NumberedAlways, PTL
=============================================================================
