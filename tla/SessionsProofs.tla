--------------------------- MODULE SessionsProofs ---------------------------
(***************************************************************************)
(* A terminal behind its pre-flight is a terminal, a tab that ensured its   *)
(* session gets it, and an ensure settles, for any names, any number of     *)
(* requests and any failures.                                               *)
(***************************************************************************)
EXTENDS Sessions, TerminalProofs, FiniteSetTheorems

\* The pre-flight, and everything around the terminal, starts it as it is.
LEMMA TerminalInit == SessionsInit => Init
  BY DEF SessionsInit

\* Every step is one of the terminal's, or leaves it alone.
LEMMA TerminalStep == [SessionsNext]_allVars => [Next]_vars
<1> SUFFICES ASSUME [SessionsNext]_allVars PROVE [Next]_vars
  OBVIOUS
<1> USE DEF Next, Handler
<1>1. CASE \E s \in Names : SessionAppears(s) \/ SessionEnds(s)
  BY <1>1 DEF SessionAppears, SessionEnds
<1>2. CASE ContainerEnds \/ ContainerStarts \/ ProjectForgotten
  BY <1>2 DEF ContainerEnds, ContainerStarts, ProjectForgotten
<1>3. CASE EnsureBegins \/ Ensure \/ Dial \/ Join
  BY <1>3 DEF EnsureBegins, Ensure, EnsureGet, EnsureExec, EnsureRuns, EnsureStartFails,
              EnsureAnswers, EnsureCall, Dial, Join
<1>4. CASE Look
  BY <1>4 DEF Look, LookGet, LookExec, LookRuns, LookAnswers, LookCall, Refuse, Upgrade, AttachHere
<1>5. CASE Bridge
  BY <1>5 DEF Bridge
<1>6. CASE UNCHANGED allVars
  BY <1>6 DEF allVars
<1> QED BY <1>1, <1>2, <1>3, <1>4, <1>5, <1>6 DEF SessionsNext

\* To a terminal, the requests, the sessions and the container are Terminal: every step
\* here was written as one of its steps, or as none.
LEMMA TerminalBehind == SessionsSpec => Spec
  BY TerminalInit, TerminalStep, PTL DEF SessionsSpec, Spec

\* So what is proved of a terminal holds of it here.
THEOREM WritersBehindPreflight == SessionsSpec => [](OneWriter /\ PipeOutlivesReader)
  BY TerminalBehind, OneWriterAlways, PipeAlwaysOutlives, PTL

\* The inputs stay in order as well.
THEOREM InputBehindPreflight == SessionsSpec => []InputInOrder
  BY TerminalBehind, InputAlwaysInOrder, PTL

-----------------------------------------------------------------------------
\* The pre-flight comes after the ensure request and before the terminal.
Sequence ==
  /\ ensure \notin Answered => look = "none"
  /\ look \in {"none", "get", "create", "start", "inspect", "upgrade"} => main = "preflight"
  /\ main = "preflight" => attach = "none" /\ joined = NoSession

\* What the histories say is so.
Remembered ==
  /\ sure => Name \in sessions /\ container = "running"
  /\ calm => known /\ container = "running"

\* At most one 201 of a session that lives, and none is due while it counts.
Credited ==
  /\ credits \in {0, 1}
  /\ credits = 1 => sure
  /\ ensure = "inspect" /\ exit = "made" => credits = 0

\* A refusal has its reason.
Reasoned ==
  /\ ensure \in {"404", "500"} => ~calm
  /\ ensure \in {"200", "201"} /\ sure /\ calm =>
       look \notin {"404", "409", "500"} /\ (look = "inspect" => exit = "found")
  /\ sure => joined \in {Name, NoSession}

IInv == Sequence /\ Remembered /\ Credited /\ Reasoned

\* The tab begins with nothing asked and nothing answered.
LEMMA IInvInit == SessionsInit => IInv
<1>1. SessionsInit => Sequence
  BY DEF SessionsInit, Init, Sequence, Answered
<1>2. SessionsInit => Remembered
  BY DEF SessionsInit, Remembered
<1>3. SessionsInit => Credited
  BY DEF SessionsInit, Credited
<1>4. SessionsInit => Reasoned
  BY DEF SessionsInit, Reasoned
<1> QED BY <1>1, <1>2, <1>3, <1>4 DEF IInv

\* A session of the name is the one that is meant.
LEMMA TargetIsName == ASSUME Name \in sessions PROVE Target = Name /\ Name # NoSession
  BY SessionsAssumption DEF Target

\* The requests and the terminal keep their order.
LEMMA SequenceStep == IInv /\ [SessionsNext]_allVars => Sequence'
<1> SUFFICES ASSUME IInv, [SessionsNext]_allVars PROVE Sequence'
  OBVIOUS
<1> USE DEF IInv, Sequence, Answered, project, requests, history, vars, client, bridge
<1>1. CASE \E s \in Names : SessionAppears(s)
  BY <1>1 DEF SessionAppears
<1>2. CASE \E s \in Names : SessionEnds(s)
  BY <1>2 DEF SessionEnds, Ends
<1>3. CASE ContainerEnds
  BY <1>3 DEF ContainerEnds, Ends
<1>4. CASE ContainerStarts
  BY <1>4 DEF ContainerStarts
<1>5. CASE ProjectForgotten
  BY <1>5 DEF ProjectForgotten
<1>6. CASE EnsureBegins
  BY <1>6 DEF EnsureBegins
<1>7. CASE EnsureGet
  BY <1>7 DEF EnsureGet, EnsureCall, Works, Fails
<1>8. CASE EnsureExec
  BY <1>8 DEF EnsureExec, EnsureCall, CallWorks, CallFails, Works, Fails
<1>9. CASE EnsureRuns
  BY <1>9 DEF EnsureRuns, NewSession, Works, Fails
<1>10. CASE EnsureStartFails
  BY <1>10 DEF EnsureStartFails, EnsureCall, CallWorks, CallFails, Works, Fails
<1>11. CASE EnsureAnswers
  BY <1>11 DEF EnsureAnswers, CallFails, Works, Fails
<1>12. CASE Dial
  BY <1>12 DEF Dial
<1>13. CASE LookGet
  BY <1>13 DEF LookGet, LookCall, Refuse, Preflight, Works, Fails
<1>14. CASE LookExec
  BY <1>14 DEF LookExec, LookCall, Refuse, Preflight, CallWorks, CallFails, Works, Fails
<1>15. CASE LookRuns
  BY <1>15 DEF LookRuns, LookCall, Refuse, Preflight, CallWorks, CallFails, Works, Fails
<1>16. CASE LookAnswers
  BY <1>16 DEF LookAnswers, LookCall, Refuse, Preflight, CallWorks, CallFails, Works, Fails
<1>17. CASE Upgrade
  BY <1>17 DEF Upgrade, Preflight
<1>18. CASE AttachHere
  BY <1>18 DEF AttachHere, Attach, CallWorks, CallFails, Works, Fails
<1>19. CASE Join
  BY <1>19 DEF Join
<1>20. CASE Bridge /\ Client
  BY <1>20 DEF Bridge, Apart, Client, StdinTakes, StdinEnds, AttachDropped, AttachEnds, OutputLocks,
              OutputWritten
<1>21. CASE Bridge /\ ~Client
  BY <1>21 DEF Bridge, Apart, BrowserSends, AttachEnds, OutputComes, Reader, ReadFrame, ReadFails, Forward,
              SelectClosed, SelectDone, ExitLocks, ExitWritten, Return, Deferred, BrowserGoes
<1>22. CASE UNCHANGED allVars
  BY <1>22 DEF allVars
<1> QED
  BY <1>1, <1>2, <1>3, <1>4, <1>5, <1>6, <1>7, <1>8, <1>9, <1>10,
     <1>11, <1>12, <1>13, <1>14, <1>15, <1>16, <1>17, <1>18, <1>19, <1>20, <1>21, <1>22
  DEF SessionsNext, Ensure, Look

\* What a call does to calm.
LEMMA CallsAndCalm ==
  /\ Works => calm' = calm
  /\ Fails => ~calm'
  /\ CallWorks => container = "running" /\ calm' = calm
  /\ CallFails => ~calm' \/ (container # "running" /\ calm' = calm)
<1>1. Works => calm' = calm
  BY DEF Works
<1>2. Fails => ~calm'
  BY DEF Fails
<1> QED BY <1>1, <1>2 DEF CallWorks, CallFails

\* The histories stay true.
LEMMA RememberedStep == IInv /\ [SessionsNext]_allVars => Remembered'
<1> SUFFICES ASSUME IInv, [SessionsNext]_allVars PROVE Remembered'
  OBVIOUS
<1> USE DEF IInv, Remembered, project, requests, history
<1>1. CASE \E s \in Names : SessionAppears(s)
  BY <1>1 DEF SessionAppears
<1>2. CASE \E s \in Names : SessionEnds(s)
  <2> PICK s \in Names : SessionEnds(s)
    BY <1>2
  <2>1. CASE s = Name
    BY <2>1 DEF SessionEnds, Ends
  <2>2. CASE s # Name
    BY <2>2 DEF SessionEnds
  <2> QED BY <2>1, <2>2
<1>3. CASE ContainerEnds
  BY <1>3 DEF ContainerEnds, Ends
<1>4. CASE ContainerStarts
  BY <1>4 DEF ContainerStarts
<1>5. CASE ProjectForgotten
  BY <1>5 DEF ProjectForgotten
<1>6. CASE EnsureBegins
  BY <1>6 DEF EnsureBegins
<1>7. CASE EnsureGet
  BY <1>7, CallsAndCalm DEF EnsureGet, EnsureCall
<1>8. CASE EnsureExec
  BY <1>8, CallsAndCalm DEF EnsureExec, EnsureCall
<1>9. CASE EnsureRuns
  BY <1>9, CallsAndCalm DEF EnsureRuns, NewSession
<1>10. CASE EnsureStartFails
  BY <1>10, CallsAndCalm DEF EnsureStartFails, EnsureCall
<1>11. CASE EnsureAnswers
  BY <1>11, CallsAndCalm DEF EnsureAnswers
<1>12. CASE Dial
  BY <1>12 DEF Dial
<1>13. CASE LookGet
  BY <1>13, CallsAndCalm DEF LookGet, LookCall, Refuse, Preflight
<1>14. CASE LookExec
  BY <1>14, CallsAndCalm DEF LookExec, LookCall, Refuse, Preflight
<1>15. CASE LookRuns
  <2>1. UNCHANGED <<known, container, sessions>>
    BY <1>15 DEF LookRuns, LookCall, Refuse
  <2>2. sure' => Name \in sessions /\ container = "running"
    BY <1>15, CallsAndCalm DEF LookRuns
  <2>3. calm' => calm
    BY <1>15, CallsAndCalm DEF LookRuns
  <2> QED BY <2>1, <2>2, <2>3
<1>16. CASE LookAnswers
  BY <1>16, CallsAndCalm DEF LookAnswers, LookCall, Refuse, Preflight
<1>17. CASE Upgrade
  BY <1>17 DEF Upgrade, Preflight
<1>18. CASE AttachHere
  BY <1>18, CallsAndCalm DEF AttachHere, Attach
<1>19. CASE Join
  BY <1>19 DEF Join
<1>20. CASE Bridge
  BY <1>20 DEF Bridge, Apart
<1>21. CASE UNCHANGED allVars
  BY <1>21 DEF allVars
<1> QED
  BY <1>1, <1>2, <1>3, <1>4, <1>5, <1>6, <1>7, <1>8, <1>9, <1>10,
     <1>11, <1>12, <1>13, <1>14, <1>15, <1>16, <1>17, <1>18, <1>19, <1>20, <1>21
  DEF SessionsNext, Ensure, Look

\* A session is credited once.
LEMMA CreditedStep == IInv /\ [SessionsNext]_allVars => Credited'
<1> SUFFICES ASSUME IInv, [SessionsNext]_allVars PROVE Credited'
  OBVIOUS
<1> USE DEF IInv, Credited, Remembered, project, requests, history
<1>1. CASE \E s \in Names : SessionAppears(s)
  BY <1>1 DEF SessionAppears
<1>2. CASE \E s \in Names : SessionEnds(s)
  <2> PICK s \in Names : SessionEnds(s)
    BY <1>2
  <2>1. CASE s = Name
    BY <2>1 DEF SessionEnds, Ends
  <2>2. CASE s # Name
    BY <2>2 DEF SessionEnds
  <2> QED BY <2>1, <2>2
<1>3. CASE ContainerEnds
  BY <1>3 DEF ContainerEnds, Ends
<1>4. CASE ContainerStarts
  BY <1>4 DEF ContainerStarts
<1>5. CASE ProjectForgotten
  BY <1>5 DEF ProjectForgotten
<1>6. CASE EnsureBegins
  BY <1>6 DEF EnsureBegins
<1>7. CASE EnsureGet
  BY <1>7 DEF EnsureGet, EnsureCall
<1>8. CASE EnsureExec
  BY <1>8 DEF EnsureExec, EnsureCall
<1>9. CASE EnsureRuns
  BY <1>9 DEF EnsureRuns, NewSession
<1>10. CASE EnsureStartFails
  BY <1>10 DEF EnsureStartFails, EnsureCall
<1>11. CASE EnsureAnswers
  BY <1>11 DEF EnsureAnswers
<1>12. CASE Dial
  BY <1>12 DEF Dial
<1>13. CASE LookGet
  BY <1>13 DEF LookGet, LookCall, Refuse, Preflight
<1>14. CASE LookExec
  BY <1>14 DEF LookExec, LookCall, Refuse, Preflight
<1>15. CASE LookRuns
  BY <1>15 DEF LookRuns, LookCall, Refuse, Preflight
<1>16. CASE LookAnswers
  BY <1>16 DEF LookAnswers, LookCall, Refuse, Preflight
<1>17. CASE Upgrade
  BY <1>17 DEF Upgrade, Preflight
<1>18. CASE AttachHere
  BY <1>18 DEF AttachHere, Attach
<1>19. CASE Join
  BY <1>19 DEF Join
<1>20. CASE Bridge
  BY <1>20 DEF Bridge, Apart
<1>21. CASE UNCHANGED allVars
  BY <1>21 DEF allVars
<1> QED
  BY <1>1, <1>2, <1>3, <1>4, <1>5, <1>6, <1>7, <1>8, <1>9, <1>10,
     <1>11, <1>12, <1>13, <1>14, <1>15, <1>16, <1>17, <1>18, <1>19, <1>20, <1>21
  DEF SessionsNext, Ensure, Look

\* Refusals keep to their reasons.
LEMMA ReasonedStep == IInv /\ [SessionsNext]_allVars => Reasoned'
<1> SUFFICES ASSUME IInv, [SessionsNext]_allVars PROVE Reasoned'
  OBVIOUS
<1> USE DEF IInv, Reasoned, Remembered, Sequence, Answered, project, requests, history
<1>1. CASE \E s \in Names : SessionAppears(s)
  BY <1>1 DEF SessionAppears
<1>2. CASE \E s \in Names : SessionEnds(s)
  BY <1>2 DEF SessionEnds, Ends
<1>3. CASE ContainerEnds
  BY <1>3 DEF ContainerEnds, Ends
<1>4. CASE ContainerStarts
  BY <1>4 DEF ContainerStarts
<1>5. CASE ProjectForgotten
  BY <1>5 DEF ProjectForgotten
<1>6. CASE EnsureBegins
  BY <1>6 DEF EnsureBegins
<1>7. CASE EnsureGet
  BY <1>7 DEF EnsureGet, EnsureCall, Works, Fails
<1>8. CASE EnsureExec
  BY <1>8 DEF EnsureExec, EnsureCall, CallWorks, CallFails, Works, Fails
<1>9. CASE EnsureRuns
  BY <1>9 DEF EnsureRuns, NewSession, Works, Fails
<1>10. CASE EnsureStartFails
  BY <1>10 DEF EnsureStartFails, EnsureCall, CallWorks, CallFails, Works, Fails
<1>11. CASE EnsureAnswers
  BY <1>11 DEF EnsureAnswers, CallFails, Works, Fails
<1>12. CASE Dial
  BY <1>12 DEF Dial
<1>13. CASE LookGet
  BY <1>13 DEF LookGet, LookCall, Refuse, Preflight, Works, Fails
<1>14. CASE LookExec
  BY <1>14 DEF LookExec, LookCall, Refuse, Preflight, CallWorks, CallFails, Works, Fails
<1>15. CASE LookRuns
  <2>1. CASE CallWorks /\ LookCall("inspect") /\ sure' = (Name \in sessions)
    <3>1. joined' = NoSession
      BY <1>15, <2>1 DEF LookRuns, LookCall
    <3>2. sure' => exit' = "found"
      BY <1>15, <2>1, TargetIsName DEF LookRuns, LookCall, CallFails, CallWorks, Refuse
    <3> QED BY <2>1, <3>1, <3>2 DEF LookCall, CallWorks, Works
  <2>2. CASE CallFails /\ Refuse("500") /\ UNCHANGED <<exit, sure>>
    BY <2>2 DEF Refuse, Preflight, CallFails, Works, Fails
  <2> QED BY <1>15, <2>1, <2>2 DEF LookRuns
<1>16. CASE LookAnswers
  BY <1>16 DEF LookAnswers, LookCall, Refuse, Preflight, CallWorks, CallFails, Works, Fails
<1>17. CASE Upgrade
  BY <1>17 DEF Upgrade, Preflight
<1>18. CASE AttachHere
  BY <1>18 DEF AttachHere, Attach, CallWorks, CallFails, Works, Fails
<1>19. CASE Join
  BY <1>19, TargetIsName DEF Join
<1>20. CASE Bridge
  BY <1>20 DEF Bridge, Apart
<1>21. CASE UNCHANGED allVars
  BY <1>21 DEF allVars
<1> QED
  BY <1>1, <1>2, <1>3, <1>4, <1>5, <1>6, <1>7, <1>8, <1>9, <1>10,
     <1>11, <1>12, <1>13, <1>14, <1>15, <1>16, <1>17, <1>18, <1>19, <1>20, <1>21
  DEF SessionsNext, Ensure, Look

\* Every step keeps the invariant.
LEMMA IInvStep == IInv /\ [SessionsNext]_allVars => IInv'
  BY SequenceStep, RememberedStep, CreditedStep, ReasonedStep DEF IInv

\* A tab whose ensure succeeded gets its terminal, unless the session ended, a call
\* failed, or the project or container went; and whoever dials is in the session of that
\* very name, if his ensure or his pre-flight came upon it and it has not ended since.
THEOREM EnsuredAlwaysOpens == SessionsSpec => []EnsuredOpens
<1>1. IInv => EnsuredOpens
  BY DEF IInv, Sequence, Remembered, Reasoned, EnsuredOpens
<1> QED BY <1>1, IInvInit, IInvStep, PTL DEF SessionsSpec

\* One ensure at most is told that it made the session, and none is refused
\* without a reason.
THEOREM EnsureAlwaysSettles == SessionsSpec => []EnsureSettles
<1>1. IInv => EnsureSettles
  BY DEF IInv, Credited, Reasoned, EnsureSettles
<1> QED BY <1>1, IInvInit, IInvStep, PTL DEF SessionsSpec
-----------------------------------------------------------------------------
(* Types                                                                    *)

\* The engine, the requests, and what is counted and remembered of them.
EngineTypes ==
  /\ known \in BOOLEAN /\ container \in {"missing", "stopped", "running"}
  /\ sessions \subseteq (IF container = "running" THEN Names ELSE {})

EnsureTypes ==
  /\ ensure \in Answered \union {"get", "create", "start", "inspect"}
  /\ exit \in {"none", "made", "found", "missed"}

LookTypes ==
  look \in {"none", "get", "create", "start", "inspect", "upgrade", "open", "failed",
            "404", "409", "500"}

JoinedType == joined \in Names \union {NoSession}

CountTypes == ensures \in 0..MaxEnsures /\ faults \in 0..MaxFaults

FlagTypes == sure \in BOOLEAN /\ calm \in BOOLEAN

\* The terminal waits for the pre-flight.
Waits == look \in {"none", "get", "create", "start", "inspect", "upgrade"} <=> main = "preflight"

Types == EngineTypes /\ EnsureTypes /\ LookTypes /\ JoinedType /\ CountTypes /\ FlagTypes /\ Waits

\* They hold at the start.
LEMMA TypesInit == SessionsInit => Types
<1> USE SessionsAssumption
<1>1. SessionsInit => EngineTypes
  BY DEF SessionsInit, EngineTypes, Names
<1>2. SessionsInit => EnsureTypes
  BY DEF SessionsInit, EnsureTypes, Answered
<1>3. SessionsInit => LookTypes
  BY DEF SessionsInit, LookTypes
<1>4. SessionsInit => CountTypes
  BY DEF SessionsInit, CountTypes
<1>5. SessionsInit => Waits
  BY DEF SessionsInit, Init, Waits
<1>6. SessionsInit => JoinedType
  BY DEF SessionsInit, JoinedType
<1>7. SessionsInit => FlagTypes
  BY DEF SessionsInit, FlagTypes
<1> QED BY <1>1, <1>2, <1>3, <1>4, <1>5, <1>6, <1>7 DEF Types

\* A counter below its bound may go up.
LEMMA CountsAdvance ==
  ASSUME NEW m \in Nat, NEW n \in 0..m
  PROVE  0 \in 0..m /\ (n < m => n + 1 \in 0..m)
  OBVIOUS

\* tmux finds one of the sessions there are, or none.
LEMMA TargetTyped ==
  ASSUME sessions \subseteq (IF container = "running" THEN Names ELSE {})
  PROVE  Target \in Names \union {NoSession}
<1>1. Cardinality(sessions) = 1 => sessions # {}
  BY FS_EmptySet
<1>2. Cardinality(sessions) = 1 => (CHOOSE s \in sessions : TRUE) \in sessions
  BY <1>1
<1>3. sessions \subseteq Names
  OBVIOUS
<1> QED BY <1>2, <1>3 DEF Target, Names

\* A flag is kept, set, or set to what is the case.
LEMMA FlagTyped ==
  ASSUME NEW a \in BOOLEAN, NEW b,
         \/ b = a \/ b = TRUE \/ b = FALSE
         \/ b = (Name \in sessions) \/ b = (known /\ container = "running")
  PROVE  b \in BOOLEAN
<1>1. CASE b = (Name \in sessions)
  <2>1. (Name \in sessions) = TRUE \/ (Name \in sessions) = FALSE
    OBVIOUS
  <2> QED BY <1>1, <2>1, Zenon
<1>2. CASE b = (known /\ container = "running")
  BY <1>2, Zenon
<1> QED BY <1>1, <1>2, Zenon

\* Every step keeps them.
LEMMA TypesStep ==
  ASSUME Types, [SessionsNext]_allVars
  PROVE  Types'
<1> USE DEF SessionsNext, SessionAppears, SessionEnds, Ends, ContainerEnds, ContainerStarts,
       ProjectForgotten, EnsureBegins, Ensure, EnsureGet, EnsureExec, EnsureRuns, NewSession,
       EnsureStartFails, EnsureAnswers, EnsureCall, Dial, Look, LookGet, LookExec, LookRuns,
       LookAnswers, LookCall, Refuse, Upgrade, AttachHere, Join, Bridge, Apart,
       CallWorks, CallFails, Works, Fails, project, requests, history, allVars,
       Client, Reader, Handler, BrowserSends, BrowserGoes, AttachEnds,
       AttachDropped, StdinTakes, StdinEnds, OutputComes, OutputLocks, OutputWritten,
       ReadFrame, ReadFails, Forward, Preflight, Attach, SelectClosed, SelectDone,
       ExitLocks, ExitWritten, Return, Deferred, client, bridge, vars
<1>1. EngineTypes => EngineTypes'
  BY ZenonT(40) DEF EngineTypes, Names
<1>2. EnsureTypes => EnsureTypes'
  BY ZenonT(40) DEF EnsureTypes, Answered
<1>3. LookTypes => LookTypes'
  BY DEF LookTypes
<1>4. CountTypes => CountTypes'
  <2>1. ensures' = ensures \/ ensures' = 0 \/ (ensures < MaxEnsures /\ ensures' = ensures + 1)
    OBVIOUS
  <2>2. faults' = faults \/ (faults < MaxFaults /\ faults' = faults + 1)
    OBVIOUS
  <2> SUFFICES ASSUME CountTypes PROVE CountTypes'
    OBVIOUS
  <2>3. ensures' \in 0..MaxEnsures
    BY <2>1, CountsAdvance, SessionsAssumption DEF CountTypes
  <2>4. faults' \in 0..MaxFaults
    BY <2>2, CountsAdvance, SessionsAssumption DEF CountTypes
  <2> QED BY <2>3, <2>4 DEF CountTypes
<1>5. Waits => Waits'
  BY ZenonT(40) DEF Waits
<1>6. JoinedType /\ EngineTypes => JoinedType'
  <2>1. joined' = joined \/ joined' = Target
    OBVIOUS
  <2> QED BY <2>1, TargetTyped DEF JoinedType, EngineTypes
<1>7. FlagTypes => FlagTypes'
  <2>1. sure' = sure \/ sure' = TRUE \/ sure' = FALSE \/ sure' = (Name \in sessions)
    BY ZenonT(40)
  <2>2. calm' = calm \/ calm' = TRUE \/ calm' = FALSE \/ calm' = (known /\ container = "running")
    BY ZenonT(40)
  <2> SUFFICES ASSUME FlagTypes PROVE FlagTypes'
    OBVIOUS
  <2>3. sure' \in BOOLEAN
    BY <2>1, FlagTyped DEF FlagTypes
  <2>4. calm' \in BOOLEAN
    BY <2>2, FlagTyped DEF FlagTypes
  <2> QED BY <2>3, <2>4 DEF FlagTypes
<1> QED BY <1>1, <1>2, <1>3, <1>4, <1>5, <1>6, <1>7 DEF Types

\* The requests, the sessions and the terminal keep their types together; a terminal
\* is behind its pre-flight exactly while the pre-flight is under way.
THEOREM SessionsTypeCorrect == SessionsSpec => []SessionsTypeOK
<1>1. TypeOK /\ IInv /\ Types => SessionsTypeOK
  <2> SUFFICES ASSUME TypeOK, IInv, Types PROVE SessionsTypeOK
    OBVIOUS
  <2>1. credits \in Nat /\ (sure => Name \in sessions)
    BY DEF IInv, Credited, Remembered
  <2> QED BY <2>1, Zenon DEF SessionsTypeOK, Types, EngineTypes, EnsureTypes, LookTypes, JoinedType,
             CountTypes, FlagTypes, Waits
<1>2. SessionsSpec => []TypeOK
  BY TerminalBehind, TypeCorrect, PTL
<1> QED BY <1>1, <1>2, IInvInit, IInvStep, TypesInit, TypesStep, PTL DEF SessionsSpec
=============================================================================
