------------------------ MODULE ProjectServiceProofs ------------------------
(***************************************************************************)
(* What holds of the control plane for any number of requests, projects,    *)
(* failures and crashes: types, volumes, the effect of each operation, its  *)
(* scope, what a failed create leaves, and that requests run out of calls;  *)
(* and, where only the server dies, that what is orphaned shows and that    *)
(* deletes which overlap do not all fail.                                   *)
(***************************************************************************)
EXTENDS ProjectServiceProps, TLAPS, FiniteSetTheorems

\* What the parts of an action leave of the types.
LEMMA FaultTypes ==
  ASSUME TypeOK, NEW r, NEW ans, Fault(ans) \/ BareCall(ans) \/ CtxCall(r, ans)
  PROVE  faults' \in 0..MaxFaults
<1>1. faults \in 0..MaxFaults /\ MaxFaults \in Nat
  BY ConstantsAssumption DEF TypeOK
<1>2. CASE UNCHANGED faults
  BY <1>1, <1>2
<1>3. CASE faults < MaxFaults /\ faults' = faults + 1
  BY <1>1, <1>3
<1>. QED
  BY <1>2, <1>3 DEF Fault, BareCall, CtxCall

\* Going to the next call keeps the types of what a request knows.
LEMMA GotoTypes ==
  ASSUME TypeOK, NEW r \in Requests, NEW label \in Labels, Goto(r, label)
  PROVE  pc' \in [Requests -> Labels] /\ result' \in [Requests -> Results]
BY DEF TypeOK, Goto

\* So does answering.
LEMMA ReturnTypes ==
  ASSUME TypeOK, NEW r \in Requests, NEW res \in Results, Return(r, res)
  PROVE  pc' \in [Requests -> Labels] /\ result' \in [Requests -> Results]
BY DEF TypeOK, Return, Labels

\* The event log gets event types only.
LEMMA EmitTypes ==
  ASSUME TypeOK, NEW r \in Requests, NEW E \in SUBSET EventTypes, Emit(r, E)
  PROVE  logged' \in [Requests -> SUBSET EventTypes]
BY DEF TypeOK, Emit

ContainerType == [Projects -> {"missing", "stopped", "running", "removing"}]

\* A step of request r keeps the types if it keeps those of what it writes.
LEMMA ServeTypes ==
  ASSUME TypeOK, NEW r \in Requests, InFlight(r),
         \/ \E label \in Labels : Goto(r, label)
         \/ \E res \in Results : Return(r, res),
         container' \in ContainerType,
         meta' \subseteq Projects, repo' \subseteq Projects, home' \subseteq Projects,
         logged' \in [Requests -> SUBSET EventTypes],
         faults' \in 0..MaxFaults,
         UNCHANGED <<network, image>> \/ (network' \in BOOLEAN /\ image' \in BOOLEAN),
         Fixed
  PROVE  TypeOK'
<1>1. pc' \in [Requests -> Labels] /\ result' \in [Requests -> Results]
  BY GotoTypes, ReturnTypes
<1>2. \A x \in Requests : InFlight(x)' => on'[x] \in Projects
  BY DEF TypeOK, InFlight, Goto, Return, Fixed
<1>3. network' \in BOOLEAN /\ image' \in BOOLEAN
  BY DEF TypeOK
<1>. QED
  BY <1>1, <1>2, <1>3 DEF TypeOK, ContainerType, Fixed, history

\* The two ways a container changes under the calls.
LEMMA ContainerTypes ==
  ASSUME TypeOK, NEW p, NEW st \in {"missing", "stopped", "running", "removing"}
  PROVE  [container EXCEPT ![p] = st] \in ContainerType /\ container \in ContainerType
BY DEF TypeOK, ContainerType

\* So does a request that arrives.
LEMMA ArriveTypes ==
  ASSUME TypeOK, NEW r \in Requests, NEW o \in Ops, NEW p \in Projects, Arrive(r, o, p),
         \/ \E label \in Labels : Goto(r, label)
         \/ \E res \in Results : Return(r, res),
         meta' \subseteq Projects, used' \subseteq Projects,
         todo' \in [Requests -> SUBSET {"stop", "remove", "home", "repo", "meta"}],
         logged' \in [Requests -> SUBSET EventTypes]
  PROVE  TypeOK'
<1>1. pc' \in [Requests -> Labels] /\ result' \in [Requests -> Results]
  BY GotoTypes, ReturnTypes
<1>2. on' \in [Requests -> Projects \union {NoProject}] /\ on'[r] = p
  BY DEF Arrive, TypeOK
<1>3. op' \in [Requests -> CreateOps \union RunOps \union Scopes \union {"none"}]
  BY ConstantsAssumption DEF Arrive, TypeOK
<1>4. disturbed' \subseteq Requests
  BY DEF Arrive, Working, TypeOK
<1>5. ASSUME NEW x \in Requests, InFlight(x)' PROVE on'[x] \in Projects
  <2>1. CASE x = r
    BY <1>2, <2>1
  <2>2. CASE x # r
    <3>1. on'[x] = on[x]
      BY <2>2 DEF Arrive, TypeOK
    <3>2. pc'[x] = pc[x]
      BY <2>2 DEF Goto, Return, TypeOK
    <3>. QED
      BY <1>5, <3>1, <3>2 DEF InFlight, TypeOK
  <2>. QED
    BY <2>1, <2>2
<1>6. UNCHANGED <<failed, gone, faults, crashes, engineVars>>
  BY DEF Arrive
<1>. QED
  BY <1>1, <1>2, <1>3, <1>4, <1>5, <1>6 DEF TypeOK, engineVars

\* So does a call of a delete.
LEMMA TurnTypes ==
  ASSUME TypeOK, NEW r \in Requests, NEW step, Turn(r, step),
         UNCHANGED <<pc, result>> \/ \E label \in Labels : Goto(r, label),
         container' \in ContainerType,
         meta' \subseteq Projects, repo' \subseteq Projects, home' \subseteq Projects,
         failed' \subseteq Requests, faults' \in 0..MaxFaults
  PROVE  TypeOK'
<1>1. todo' \in [Requests -> SUBSET {"stop", "remove", "home", "repo", "meta"}]
  BY DEF TypeOK, Turn
<1>2. \A x \in Requests : InFlight(x)' => on'[x] \in Projects
  BY DEF TypeOK, InFlight, Turn, Goto
<1>3. pc' \in [Requests -> Labels] /\ result' \in [Requests -> Results]
  BY GotoTypes DEF TypeOK
<1>. QED
  BY <1>1, <1>2, <1>3 DEF TypeOK, ContainerType, Turn, history

\* What a forced removal and a stop make of the containers, and of the faults.
LEMMA RemovalTypes ==
  ASSUME TypeOK, NEW r, NEW outcome, RemoveContainer(r, outcome)
  PROVE  container' \in ContainerType /\ faults' \in 0..MaxFaults
BY ZenonT(60), ContainerTypes, FaultTypes DEF RemoveContainer

LEMMA HaltTypes ==
  ASSUME TypeOK, NEW p, NEW ans, HaltContainer(p, ans)
  PROVE  container' \in ContainerType
BY ContainerTypes DEF HaltContainer

LEMMA RemovalAnswerTypes ==
  ASSUME TypeOK, NEW r, NEW ok, RemovalAnswer(r, ok)
  PROVE  faults' \in 0..MaxFaults
BY FaultTypes DEF RemovalAnswer, TypeOK

\* The types hold at the start.
LEMMA TypeInit == Init => TypeOK
BY ConstantsAssumption DEF Init, TypeOK, InFlight, Labels, Results

\* Every step keeps the types.
LEMMA TypeStep == TypeOK /\ [Next]_vars => TypeOK'
<1>. SUFFICES ASSUME TypeOK, [Next]_vars PROVE TypeOK'
  OBVIOUS
<1>. USE ConstantsAssumption DEF CreateOps, RunOps, Scopes, Labels, Results, EventTypes
<1>1. ASSUME NEW r \in Requests, RefuseRequest(r) PROVE TypeOK'
  BY <1>1 DEF RefuseRequest, TypeOK, Return, InFlight, storeVars, engineVars, history
<1>2. ASSUME NEW r \in Requests, NEW o \in Ops, NEW p \in Projects, AcceptCreate(r, o, p)
      PROVE  TypeOK'
  <2>1. Arrive(r, o, p) /\ Goto(r, "list networks") /\ todo' = todo
    BY <1>2 DEF AcceptCreate
  <2>2. used' \subseteq Projects /\ meta' \subseteq Projects
    BY <1>2 DEF AcceptCreate, TypeOK
  <2>3. logged' \in [Requests -> SUBSET EventTypes]
    BY <1>2, EmitTypes DEF AcceptCreate
  <2>. QED
    BY <2>1, <2>2, <2>3, ArriveTypes DEF TypeOK
<1>3. ASSUME NEW r \in Requests, NEW o \in Ops, NEW p \in Projects, NoSuchProject(r, o, p)
      PROVE  TypeOK'
  <2>1. Arrive(r, o, p) /\ Return(r, "notfound") /\ UNCHANGED <<storeVars, todo, logged>>
    BY <1>3 DEF NoSuchProject
  <2>. QED
    BY <2>1, ArriveTypes DEF TypeOK, storeVars
<1>4. ASSUME NEW r \in Requests, NEW o \in Ops, NEW p \in Projects, AcceptOp(r, o, p)
      PROVE  TypeOK'
  <2>1. Arrive(r, o, p) /\ UNCHANGED <<storeVars, logged>>
    BY <1>4 DEF AcceptOp
  <2>2. \E label \in Labels : Goto(r, label)
    BY <1>4 DEF AcceptOp
  <2>3. todo' \in [Requests -> SUBSET {"stop", "remove", "home", "repo", "meta"}]
    BY <1>4 DEF AcceptOp, Takes, TypeOK
  <2>. QED
    BY <2>1, <2>2, <2>3, ArriveTypes DEF TypeOK, storeVars
<1>5. ASSUME NEW r \in Requests, ListNetworks(r) PROVE TypeOK'
  <2>1. InFlight(r) /\ Fixed /\ UNCHANGED <<meta, engineVars, logged>>
    BY <1>5 DEF ListNetworks, InFlight
  <2>2. \E label \in Labels : Goto(r, label)
    BY <1>5 DEF ListNetworks
  <2>3. faults' \in 0..MaxFaults
    BY <1>5, FaultTypes DEF ListNetworks, BareCall
  <2>. QED
    BY <2>1, <2>2, <2>3, ServeTypes DEF engineVars, TypeOK, ContainerType
<1>6. ASSUME NEW r \in Requests, CreateNetwork(r) PROVE TypeOK'
  <2>1. /\ InFlight(r) /\ Fixed /\ UNCHANGED <<meta, container, repo, home, image, logged>>
        /\ network' \in BOOLEAN
    BY <1>6 DEF CreateNetwork, InFlight
  <2>2. \E label \in Labels : Goto(r, label)
    BY <1>6 DEF CreateNetwork
  <2>3. faults' \in 0..MaxFaults
    BY <1>6, FaultTypes DEF CreateNetwork, BareCall
  <2>. QED
    BY <2>1, <2>2, <2>3, ServeTypes DEF TypeOK, ContainerType
<1>7. ASSUME NEW r \in Requests, InspectImage(r) PROVE TypeOK'
  <2>1. InFlight(r) /\ Fixed /\ UNCHANGED <<network, image>>
    BY <1>7 DEF InspectImage, InFlight, engineVars
  <2>2. meta' \subseteq Projects /\ repo' \subseteq Projects /\ home' \subseteq Projects
    BY <1>7 DEF InspectImage, TypeOK, engineVars
  <2>3. container' \in ContainerType
    BY <1>7, ContainerTypes DEF InspectImage, engineVars
  <2>4. \/ \E label \in Labels : Goto(r, label)
        \/ \E res \in Results : Return(r, res)
    BY <1>7 DEF InspectImage, Labels, Results
  <2>5. logged' \in [Requests -> SUBSET EventTypes]
    BY <1>7, EmitTypes DEF InspectImage, TypeOK, EventTypes
  <2>6. faults' \in 0..MaxFaults
    BY <1>7, FaultTypes DEF InspectImage, TypeOK
  <2>. QED
    BY <2>1, <2>2, <2>3, <2>4, <2>5, <2>6, ServeTypes
<1>8. ASSUME NEW r \in Requests, BuildImage(r) PROVE TypeOK'
  BY ZenonT(60), <1>8, FaultTypes DEF BuildImage, Goto, Fixed, history, TypeOK, InFlight
<1>9. ASSUME NEW r \in Requests, CreateContainer(r) PROVE TypeOK'
  <2>1. InFlight(r) /\ Fixed /\ UNCHANGED <<network, image>>
    BY <1>9 DEF CreateContainer, InFlight, engineVars
  <2>2. meta' \subseteq Projects /\ repo' \subseteq Projects /\ home' \subseteq Projects
    <3>1. on[r] \in Projects
      BY <1>9, <2>1 DEF TypeOK
    <3>2. /\ meta' = meta
          /\ repo' = repo \/ repo' = repo \union {on[r]}
          /\ home' = home \/ home' = home \union {on[r]}
      BY <1>9 DEF CreateContainer
    <3>. QED
      BY ZenonT(60), <1>9, <3>1, <3>2 DEF TypeOK
  <2>3. container' \in ContainerType
    BY <1>9, ContainerTypes DEF CreateContainer, engineVars
  <2>4. \/ \E label \in Labels : Goto(r, label)
        \/ \E res \in Results : Return(r, res)
    BY <1>9 DEF CreateContainer, Labels, Results
  <2>5. logged' \in [Requests -> SUBSET EventTypes]
    BY <1>9, EmitTypes DEF CreateContainer, TypeOK, EventTypes
  <2>6. faults' \in 0..MaxFaults
    BY <1>9, FaultTypes DEF CreateContainer, TypeOK
  <2>. QED
    BY <2>1, <2>2, <2>3, <2>4, <2>5, <2>6, ServeTypes
<1>10. ASSUME NEW r \in Requests, RunStart(r) PROVE TypeOK'
  <2>1. InFlight(r) /\ Fixed /\ UNCHANGED <<network, image>>
    BY <1>10 DEF RunStart, InFlight, engineVars
  <2>2. meta' \subseteq Projects /\ repo' \subseteq Projects /\ home' \subseteq Projects
    BY <1>10 DEF RunStart, TypeOK, engineVars
  <2>3. container' \in ContainerType
    BY <1>10, ContainerTypes DEF RunStart, engineVars, StartAnswer
  <2>4. \/ \E label \in Labels : Goto(r, label)
        \/ \E res \in Results : Return(r, res)
    BY <1>10 DEF RunStart, Labels, Results
  <2>5. logged' \in [Requests -> SUBSET EventTypes]
    BY <1>10, EmitTypes DEF RunStart, TypeOK, EventTypes
  <2>6. faults' \in 0..MaxFaults
    BY <1>10, FaultTypes DEF RunStart, TypeOK, StartAnswer
  <2>. QED
    BY <2>1, <2>2, <2>3, <2>4, <2>5, <2>6, ServeTypes
<1>11. ASSUME NEW r \in Requests, CleanUp(r) PROVE TypeOK'
  <2>1. InFlight(r) /\ Fixed /\ UNCHANGED <<meta, repo, home, network, image, logged>>
    BY <1>11 DEF CleanUp, InFlight
  <2>2. \E label \in Labels : Goto(r, label)
    BY <1>11 DEF CleanUp
  <2>3. container' \in ContainerType /\ faults' \in 0..MaxFaults
    BY <1>11, RemovalTypes DEF CleanUp
  <2>. QED
    BY <2>1, <2>2, <2>3, ServeTypes DEF TypeOK
<1>27. ASSUME NEW r \in Requests, CleanUpEnds(r) PROVE TypeOK'
  <2>1. InFlight(r) /\ Fixed /\ UNCHANGED <<meta, engineVars, logged>>
    BY <1>27 DEF CleanUpEnds, InFlight
  <2>2. Goto(r, "rollback") /\ faults' \in 0..MaxFaults
    BY <1>27, RemovalAnswerTypes DEF CleanUpEnds
  <2>. QED
    BY <2>1, <2>2, ServeTypes DEF engineVars, TypeOK, ContainerType
<1>12. ASSUME NEW r \in Requests, Rollback(r) PROVE TypeOK'
  BY ZenonT(60), <1>12, FaultTypes DEF Rollback, StoreDelete, Return, Fixed, engineVars, history,
     TypeOK, InFlight
<1>13. ASSUME NEW r \in Requests, Clone(r) PROVE TypeOK'
  <2>1. InFlight(r) /\ Fixed /\ UNCHANGED <<network, image>>
    BY <1>13 DEF Clone, InFlight, engineVars
  <2>2. meta' \subseteq Projects /\ repo' \subseteq Projects /\ home' \subseteq Projects
    BY <1>13 DEF Clone, TypeOK, engineVars
  <2>3. container' \in ContainerType
    BY <1>13, ContainerTypes DEF Clone, engineVars
  <2>4. \/ \E label \in Labels : Goto(r, label)
        \/ \E res \in Results : Return(r, res)
    BY <1>13 DEF Clone, Labels, Results
  <2>5. logged' \in [Requests -> SUBSET EventTypes]
    BY <1>13, EmitTypes DEF Clone, TypeOK, EventTypes
  <2>6. faults' \in 0..MaxFaults
    BY <1>13, FaultTypes DEF Clone, TypeOK
  <2>. QED
    BY <2>1, <2>2, <2>3, <2>4, <2>5, <2>6, ServeTypes
<1>14. ASSUME NEW r \in Requests, StopContainer(r) PROVE TypeOK'
  <2>1. InFlight(r) /\ Fixed /\ UNCHANGED <<network, image>>
    BY <1>14 DEF StopContainer, InFlight, engineVars
  <2>2. meta' \subseteq Projects /\ repo' \subseteq Projects /\ home' \subseteq Projects
    BY <1>14 DEF StopContainer, TypeOK, engineVars
  <2>3. container' \in ContainerType
    BY <1>14, HaltTypes DEF StopContainer
  <2>4. \/ \E label \in Labels : Goto(r, label)
        \/ \E res \in Results : Return(r, res)
    BY <1>14 DEF StopContainer, Labels, Results
  <2>5. logged' \in [Requests -> SUBSET EventTypes]
    BY <1>14, EmitTypes DEF StopContainer, TypeOK, EventTypes
  <2>6. faults' \in 0..MaxFaults
    BY <1>14, FaultTypes DEF StopContainer, TypeOK
  <2>. QED
    BY <2>1, <2>2, <2>3, <2>4, <2>5, <2>6, ServeTypes
<1>15. ASSUME NEW r \in Requests, GetAgain(r) PROVE TypeOK'
  <2>1. \/ \E label \in Labels : Goto(r, label)
        \/ \E res \in Results : Return(r, res)
    BY <1>15 DEF GetAgain
  <2>2. InFlight(r) /\ Fixed /\ UNCHANGED <<meta, engineVars, logged, faults>>
    BY <1>15 DEF GetAgain, InFlight
  <2>. QED
    BY <2>1, <2>2, ServeTypes DEF engineVars, TypeOK, ContainerType
<1>16. ASSUME NEW r \in Requests, StartContainer(r) PROVE TypeOK'
  <2>1. InFlight(r) /\ Fixed /\ UNCHANGED <<network, image>>
    BY <1>16 DEF StartContainer, InFlight, engineVars
  <2>2. meta' \subseteq Projects /\ repo' \subseteq Projects /\ home' \subseteq Projects
    BY <1>16 DEF StartContainer, TypeOK, engineVars
  <2>3. container' \in ContainerType
    BY <1>16, ContainerTypes DEF StartContainer, engineVars, StartAnswer
  <2>4. \/ \E label \in Labels : Goto(r, label)
        \/ \E res \in Results : Return(r, res)
    BY <1>16 DEF StartContainer, Labels, Results
  <2>5. logged' \in [Requests -> SUBSET EventTypes]
    BY <1>16, EmitTypes DEF StartContainer, TypeOK, EventTypes
  <2>6. faults' \in 0..MaxFaults
    BY <1>16, FaultTypes DEF StartContainer, TypeOK, StartAnswer
  <2>. QED
    BY <2>1, <2>2, <2>3, <2>4, <2>5, <2>6, ServeTypes
<1>17. ASSUME NEW r \in Requests, DeleteStop(r) PROVE TypeOK'
  <2>1. Turn(r, "stop")
    BY <1>17 DEF DeleteStop
  <2>2. container' \in ContainerType /\ UNCHANGED <<pc, result>>
    BY <1>17, HaltTypes DEF DeleteStop
  <2>3. meta' \subseteq Projects /\ repo' \subseteq Projects /\ home' \subseteq Projects
    BY <1>17 DEF DeleteStop, TypeOK
  <2>4. failed' \subseteq Requests
    BY <1>17 DEF DeleteStop, TypeOK
  <2>5. faults' \in 0..MaxFaults
    BY <1>17, FaultTypes DEF DeleteStop
  <2>. QED
    BY <2>1, <2>2, <2>3, <2>4, <2>5, TurnTypes
<1>18. ASSUME NEW r \in Requests, DeleteContainer(r) PROVE TypeOK'
  <2>1. Turn(r, "remove")
    BY <1>18 DEF DeleteContainer
  <2>2. container' \in ContainerType /\ faults' \in 0..MaxFaults
    BY <1>18, RemovalTypes DEF DeleteContainer
  <2>3. meta' \subseteq Projects /\ repo' \subseteq Projects /\ home' \subseteq Projects
    BY <1>18 DEF DeleteContainer, TypeOK
  <2>4. failed' \subseteq Requests
    BY <1>18 DEF DeleteContainer, Note, TypeOK
  <2>5. UNCHANGED <<pc, result>> \/ \E label \in Labels : Goto(r, label)
    BY <1>18 DEF DeleteContainer
  <2>. QED
    BY <2>1, <2>2, <2>3, <2>4, <2>5, TurnTypes
<1>28. ASSUME NEW r \in Requests, RemovalReturns(r) PROVE TypeOK'
  <2>1. pc' \in [Requests -> Labels] /\ result' \in [Requests -> Results]
    BY <1>28, GotoTypes DEF RemovalReturns
  <2>2. faults' \in 0..MaxFaults
    BY <1>28, RemovalAnswerTypes DEF RemovalReturns
  <2>3. failed' \subseteq Requests
    BY <1>28 DEF RemovalReturns, Note, TypeOK
  <2>4. \A x \in Requests : InFlight(x)' => on'[x] \in Projects
    BY ZenonT(60), <1>28 DEF RemovalReturns, Goto, TypeOK, InFlight
  <2>. QED
    BY <1>28, <2>1, <2>2, <2>3, <2>4
       DEF RemovalReturns, TypeOK, storeVars, engineVars, history
<1>19. ASSUME NEW r \in Requests, DeleteHome(r) PROVE TypeOK'
  <2>1. Turn(r, "home")
    BY <1>19 DEF DeleteHome
  <2>2. container' \in ContainerType /\ UNCHANGED <<pc, result>>
    BY <1>19, ContainerTypes DEF DeleteHome
  <2>3. meta' \subseteq Projects /\ repo' \subseteq Projects /\ home' \subseteq Projects
    BY <1>19 DEF DeleteHome, RemoveVolume, TypeOK
  <2>4. failed' \subseteq Requests
    BY <1>19 DEF DeleteHome, Note, TypeOK
  <2>5. faults' \in 0..MaxFaults
    BY <1>19, FaultTypes DEF DeleteHome
  <2>. QED
    BY <2>1, <2>2, <2>3, <2>4, <2>5, TurnTypes
<1>20. ASSUME NEW r \in Requests, DeleteRepo(r) PROVE TypeOK'
  <2>1. Turn(r, "repo")
    BY <1>20 DEF DeleteRepo
  <2>2. container' \in ContainerType /\ UNCHANGED <<pc, result>>
    BY <1>20, ContainerTypes DEF DeleteRepo
  <2>3. meta' \subseteq Projects /\ repo' \subseteq Projects /\ home' \subseteq Projects
    BY <1>20 DEF DeleteRepo, RemoveVolume, TypeOK
  <2>4. failed' \subseteq Requests
    BY <1>20 DEF DeleteRepo, Note, TypeOK
  <2>5. faults' \in 0..MaxFaults
    BY <1>20, FaultTypes DEF DeleteRepo
  <2>. QED
    BY <2>1, <2>2, <2>3, <2>4, <2>5, TurnTypes
<1>21. ASSUME NEW r \in Requests, DeleteMetadata(r) PROVE TypeOK'
  <2>1. Turn(r, "meta")
    BY <1>21 DEF DeleteMetadata
  <2>2. container' \in ContainerType /\ UNCHANGED <<pc, result>>
    BY <1>21, ContainerTypes DEF DeleteMetadata
  <2>3. meta' \subseteq Projects /\ repo' \subseteq Projects /\ home' \subseteq Projects
    BY <1>21 DEF DeleteMetadata, StoreDelete, TypeOK
  <2>4. failed' \subseteq Requests
    BY <1>21 DEF DeleteMetadata, Note, TypeOK
  <2>5. faults' \in 0..MaxFaults
    BY <1>21, FaultTypes DEF DeleteMetadata, StoreDelete, TypeOK
  <2>. QED
    BY <2>1, <2>2, <2>3, <2>4, <2>5, TurnTypes
<1>22. ASSUME NEW r \in Requests, DeleteReturns(r) PROVE TypeOK'
  <2>1. InFlight(r) /\ Fixed /\ UNCHANGED <<network, image>>
    BY <1>22 DEF DeleteReturns, InFlight, engineVars
  <2>2. meta' \subseteq Projects /\ repo' \subseteq Projects /\ home' \subseteq Projects
    BY <1>22 DEF DeleteReturns, TypeOK, engineVars
  <2>3. container' \in ContainerType
    BY <1>22, ContainerTypes DEF DeleteReturns, engineVars
  <2>4. \/ \E label \in Labels : Goto(r, label)
        \/ \E res \in Results : Return(r, res)
    BY <1>22 DEF DeleteReturns, Labels, Results
  <2>5. logged' \in [Requests -> SUBSET EventTypes]
    BY <1>22, EmitTypes DEF DeleteReturns, TypeOK, EventTypes
  <2>6. faults' \in 0..MaxFaults
    BY <1>22, FaultTypes DEF DeleteReturns, TypeOK
  <2>. QED
    BY <2>1, <2>2, <2>3, <2>4, <2>5, <2>6, ServeTypes
<1>23. ASSUME NEW r \in Requests, ClientGone(r) PROVE TypeOK'
  BY ZenonT(60), <1>23 DEF ClientGone, storeVars, engineVars, history, TypeOK, InFlight
<1>24. CASE Crash
  <2>1. pc' \in [Requests -> Labels] /\ result' \in [Requests -> Results]
    BY <1>24 DEF Crash, TypeOK
  <2>2. \A r \in Requests : ~InFlight(r)'
    BY <1>24 DEF Crash, InFlight
  <2>3. crashes' \in 0..MaxCrashes
    <3>1. crashes \in 0..MaxCrashes /\ MaxCrashes \in Nat
      BY DEF TypeOK
    <3>2. crashes < MaxCrashes /\ crashes' = crashes + 1
      BY <1>24 DEF Crash
    <3>. QED
      BY <3>1, <3>2
  <2>. QED
    BY <1>24, <2>1, <2>2, <2>3 DEF Crash, storeVars, engineVars, history, TypeOK
<1>25. ASSUME NEW p \in Projects, ContainerExits(p) PROVE TypeOK'
  BY <1>25 DEF ContainerExits, Working, storeVars, reqVars, TypeOK, InFlight
<1>29. ASSUME NEW p \in Projects, RemovalEnds(p) PROVE TypeOK'
  <2>1. container' \in ContainerType
    BY <1>29, ContainerTypes DEF RemovalEnds
  <2>. QED
    BY <1>29, <2>1
       DEF RemovalEnds, ContainerType, storeVars, reqVars, history, TypeOK, InFlight
<1>26. CASE UNCHANGED vars
  BY <1>26 DEF vars, TypeOK, InFlight
<1>. QED
  BY <1>1, <1>2, <1>3, <1>4, <1>5, <1>6, <1>7, <1>8, <1>9, <1>10, <1>11, <1>12, <1>13,
     <1>14, <1>15, <1>16, <1>17, <1>18, <1>19, <1>20, <1>21, <1>22, <1>23, <1>24, <1>25,
     <1>26, <1>27, <1>28, <1>29 DEF Next, Request, Serve

\* The variables keep their types whatever requests overlap, fail or crash.
THEOREM TypeCorrect == Spec => []TypeOK
BY TypeInit, TypeStep, PTL DEF Spec

-----------------------------------------------------------------------------
(* What a step of the server does, whatever the call                        *)

CreateLabels == {"list networks", "create network", "inspect image", "build image",
                 "create container", "run", "clean up", "await clean up", "rollback",
                 "clone"}
RunLabels == {"start", "stop", "get"}
DeleteLabels == {"delete", "await removal"}

\* A request goes on with a call of its own operation, or is done.
GoesOn(a, b) ==
  \/ b = "done"
  \/ a \in CreateLabels /\ b \in CreateLabels
  \/ a \in RunLabels /\ b \in RunLabels
  \/ a \in DeleteLabels /\ b \in DeleteLabels

\* A step of r touches the project r is for and nothing of any other.
Shape(r) ==
  /\ InFlight(r)
  /\ UNCHANGED <<used, op, on>>
  /\ \A x \in Requests \ {r} : /\ pc'[x] = pc[x] /\ todo'[x] = todo[x]
                               /\ logged'[x] = logged[x] /\ result'[x] = result[x]
                               /\ x \in failed' <=> x \in failed
  /\ GoesOn(pc[r], pc'[r])
  /\ todo'[r] \subseteq todo[r]
  /\ meta' \subseteq meta
  /\ \A p \in Projects \ {on[r]} :
       /\ p \in meta' <=> p \in meta
       /\ container'[p] = container[p]
       /\ p \in repo' <=> p \in repo
       /\ p \in home' <=> p \in home

\* A request that arrives touches its own state only, and is not answered with an error
\* of a call.
LEMMA RequestShape ==
  ASSUME TypeOK, NEW y \in Requests, Request(y)
  PROVE  /\ pc[y] = "new" /\ pc'[y] # "new"
         /\ UNCHANGED failed
         /\ result'[y] \in {result[y], "invalid", "notfound"}
         /\ \A r \in Requests \ {y} : /\ op'[r] = op[r] /\ pc'[r] = pc[r] /\ todo'[r] = todo[r]
                                      /\ result'[r] = result[r] /\ logged'[r] = logged[r]
                                      /\ on'[r] = on[r]
<1>1. CASE RefuseRequest(y)
  BY <1>1 DEF RefuseRequest, Return, TypeOK
<1>2. ASSUME NEW o \in Ops, NEW p \in Projects, AcceptCreate(y, o, p)
      PROVE  /\ pc[y] = "new" /\ UNCHANGED <<failed, todo, result>>
             /\ op' = [op EXCEPT ![y] = o] /\ on' = [on EXCEPT ![y] = p]
             /\ pc' = [pc EXCEPT ![y] = "list networks"]
             /\ logged' = [logged EXCEPT ![y] = @ \union {"create"}]
  BY <1>2 DEF AcceptCreate, Arrive, Goto, Emit
<1>3. ASSUME NEW o \in Ops, NEW p \in Projects, NoSuchProject(y, o, p)
      PROVE  /\ pc[y] = "new" /\ UNCHANGED <<failed, todo, logged>>
             /\ op' = [op EXCEPT ![y] = o] /\ on' = [on EXCEPT ![y] = p]
             /\ pc' = [pc EXCEPT ![y] = "done"]
             /\ result' = [result EXCEPT ![y] = "notfound"]
  BY <1>3 DEF NoSuchProject, Arrive, Return
<1>4. ASSUME NEW o \in Ops, NEW p \in Projects, AcceptOp(y, o, p)
      PROVE  /\ pc[y] = "new" /\ UNCHANGED <<failed, result, logged>>
             /\ op' = [op EXCEPT ![y] = o] /\ on' = [on EXCEPT ![y] = p]
             /\ \E label \in {"start", "stop", "delete"} : pc' = [pc EXCEPT ![y] = label]
             /\ todo' = todo \/ todo' = [todo EXCEPT ![y] = Takes(o)]
  BY <1>4 DEF AcceptOp, Arrive, Goto
<1>5. CASE \E o \in Ops, p \in Projects : AcceptCreate(y, o, p)
  BY <1>2, <1>5 DEF TypeOK
<1>6. CASE \E o \in Ops, p \in Projects : NoSuchProject(y, o, p)
  BY <1>3, <1>6 DEF TypeOK
<1>7. CASE \E o \in Ops, p \in Projects : AcceptOp(y, o, p)
  <2>1. /\ pc[y] = "new" /\ UNCHANGED <<failed, result, logged>>
        /\ \E o \in Ops : op' = [op EXCEPT ![y] = o]
        /\ \E p \in Projects : on' = [on EXCEPT ![y] = p]
    BY <1>4, <1>7
  <2>2. /\ \E label \in {"start", "stop", "delete"} : pc' = [pc EXCEPT ![y] = label]
        /\ \E T : todo' = todo \/ todo' = [todo EXCEPT ![y] = T]
    BY <1>4, <1>7
  <2>3. pc'[y] # "new" /\ \A r \in Requests \ {y} : pc'[r] = pc[r] /\ todo'[r] = todo[r]
    BY <2>2 DEF TypeOK
  <2>. QED
    BY <2>1, <2>3 DEF TypeOK
<1>. QED
  BY <1>1, <1>5, <1>6, <1>7 DEF Request

\* A step of a request touches its own project and its own state only.
LEMMA ServeShape ==
  ASSUME TypeOK, NEW r \in Requests, Serve(r)
  PROVE  Shape(r)
<1>. USE DEF Shape, GoesOn, CreateLabels, RunLabels, DeleteLabels, InFlight, Goto, Return,
   Fixed, Turn,
             Emit, Note, engineVars
<1>1. CASE ListNetworks(r)
  BY <1>1 DEF ListNetworks, TypeOK
<1>2. CASE CreateNetwork(r)
  BY <1>2 DEF CreateNetwork, TypeOK
<1>3. CASE InspectImage(r)
  BY <1>3 DEF InspectImage, TypeOK
<1>4. CASE BuildImage(r)
  BY <1>4 DEF BuildImage, TypeOK
<1>5. CASE CreateContainer(r)
  BY <1>5 DEF CreateContainer, TypeOK
<1>6. CASE RunStart(r)
  BY ZenonT(60), <1>6 DEF RunStart, TypeOK, StartAnswer
<1>7. CASE CleanUp(r)
  BY ZenonT(60), <1>7 DEF CleanUp, TypeOK, RemoveContainer
<1>19. CASE CleanUpEnds(r)
  BY <1>19 DEF CleanUpEnds, TypeOK
<1>8. CASE Rollback(r)
  BY <1>8 DEF Rollback, TypeOK, StoreDelete
<1>9. CASE Clone(r)
  BY <1>9 DEF Clone, TypeOK
<1>10. CASE StopContainer(r)
  BY <1>10 DEF StopContainer, TypeOK, HaltContainer
<1>11. CASE GetAgain(r)
  BY <1>11 DEF GetAgain, TypeOK
<1>12. CASE StartContainer(r)
  BY <1>12 DEF StartContainer, TypeOK, StartAnswer
<1>13. CASE DeleteStop(r)
  BY <1>13 DEF DeleteStop, TypeOK, HaltContainer
<1>14. CASE DeleteContainer(r)
  BY ZenonT(60), <1>14 DEF DeleteContainer, TypeOK, RemoveContainer
<1>20. CASE RemovalReturns(r)
  BY <1>20 DEF RemovalReturns, TypeOK, storeVars
<1>15. CASE DeleteHome(r)
  BY <1>15 DEF DeleteHome, TypeOK, RemoveVolume
<1>16. CASE DeleteRepo(r)
  BY <1>16 DEF DeleteRepo, TypeOK, RemoveVolume
<1>17. CASE DeleteMetadata(r)
  BY <1>17 DEF DeleteMetadata, TypeOK, StoreDelete
<1>18. CASE DeleteReturns(r)
  BY <1>18 DEF DeleteReturns, TypeOK
<1>. QED
  BY <1>1, <1>2, <1>3, <1>4, <1>5, <1>6, <1>7, <1>8, <1>9, <1>10, <1>11, <1>12, <1>13,
     <1>14, <1>15, <1>16, <1>17, <1>18, <1>19, <1>20 DEF Serve

-----------------------------------------------------------------------------
(* Calls fit operations, and only projects that were created exist          *)

\* No request is in flight at the start.
LEMMA ConsistentInit == Init => Consistent
BY ConstantsAssumption DEF Init, Consistent, InFlight, NoSandbox, Scopes, RunOps

\* Every step keeps a request's call fitting its operation.
LEMMA ConsistentStep ==
  ASSUME TypeOK, Consistent, [Next]_vars
  PROVE  Consistent'
<1>. USE ConstantsAssumption DEF CreateOps, RunOps, Scopes
<1>1. ASSUME NEW r \in Requests, RefuseRequest(r) PROVE Consistent'
  BY ZenonT(60), <1>1 DEF RefuseRequest, Consistent, TypeOK, Return, InFlight, NoSandbox,
              storeVars, engineVars, history
<1>2. ASSUME NEW r \in Requests, NEW o \in Ops, NEW p \in Projects, AcceptCreate(r, o, p)
      PROVE  Consistent'
  <2>1. /\ pc[r] = "new" /\ o \in CreateOps /\ p \notin used
        /\ used' = used \union {p} /\ meta' = meta \union {p}
        /\ op' = [op EXCEPT ![r] = o] /\ on' = [on EXCEPT ![r] = p]
        /\ pc' = [pc EXCEPT ![r] = "list networks"]
        /\ UNCHANGED <<todo, container, repo, home>>
    BY <1>2 DEF AcceptCreate, Arrive, Goto, engineVars
  <2>2. meta' \subseteq used' /\ \A q \in Projects \ used' : NoSandbox(q)'
    BY <2>1 DEF Consistent, NoSandbox
  <2>3. /\ op'[r] = o /\ on'[r] = p /\ pc'[r] = "list networks"
        /\ \A x \in Requests \ {r} : op'[x] = op[x] /\ on'[x] = on[x] /\ pc'[x] = pc[x]
    BY <2>1 DEF TypeOK
  <2>4. ASSUME NEW x \in Requests
        PROVE  /\ pc'[x] # "new" /\ on'[x] \in Projects => on'[x] \in used'
               /\ InFlight(x)' => on'[x] \in Projects /\ op'[x] # "none"
               /\ pc'[x] \in {"delete", "await removal"} <=> InFlight(x)' /\ op'[x] \in Scopes
               /\ pc'[x] \in {"start", "stop", "get"} <=> InFlight(x)' /\ op'[x] \in RunOps
               /\ pc'[x] \in {"delete", "await removal"} => todo'[x] \subseteq Takes(op'[x])
               /\ pc'[x] = "new" => on'[x] = NoProject
    <3>1. CASE x = r
      <4>1. op'[x] = o /\ on'[x] = p /\ pc'[x] = "list networks"
        BY <2>3, <3>1
      <4>2. o # "none" /\ o \notin Scopes /\ o \notin RunOps
        BY <2>1
      <4>3. p \in used'
        BY <2>1
      <4>. QED
        BY <4>1, <4>2, <4>3 DEF InFlight
    <3>2. CASE x # r
      <4>1. op'[x] = op[x] /\ on'[x] = on[x] /\ pc'[x] = pc[x] /\ todo'[x] = todo[x]
        BY <2>1, <2>3, <3>2
      <4>2. InFlight(x)' <=> InFlight(x)
        BY <4>1 DEF InFlight
      <4>3. used \subseteq used'
        BY <2>1
      <4>. QED
        BY <4>1, <4>2, <4>3 DEF Consistent
    <3>. QED
      BY <3>1, <3>2
  <2>. QED
    BY <2>2, <2>4 DEF Consistent
<1>3. ASSUME NEW r \in Requests, NEW o \in Ops, NEW p \in Projects, NoSuchProject(r, o, p)
      PROVE  Consistent'
  BY ZenonT(60), <1>3 DEF NoSuchProject, Arrive, Return, engineVars, storeVars, InFlight,
              NoSandbox, TypeOK, Consistent
<1>4. ASSUME NEW r \in Requests, NEW o \in Ops, NEW p \in Projects, AcceptOp(r, o, p)
      PROVE  Consistent'
  <2>1. /\ pc[r] = "new" /\ o \in Ops /\ o \notin CreateOps /\ p \in meta
        /\ op' = [op EXCEPT ![r] = o] /\ on' = [on EXCEPT ![r] = p]
        /\ pc' = [pc EXCEPT ![r] = CASE o = "start" -> "start"
                                     [] o \in {"stop", "restart"} -> "stop"
                                     [] OTHER -> "delete"]
        /\ todo' = IF o \in Scopes THEN [todo EXCEPT ![r] = Takes(o)] ELSE todo
        /\ UNCHANGED <<meta, used, container, repo, home>>
    BY <1>4 DEF AcceptOp, Arrive, Goto, engineVars, storeVars
  <2>2. meta' \subseteq used' /\ \A q \in Projects \ used' : NoSandbox(q)'
    BY <2>1 DEF Consistent, NoSandbox
  <2>3. o \in RunOps \union Scopes
    BY <2>1
  <2>4. /\ op'[r] = o /\ on'[r] = p /\ p \in used'
        /\ o = "start" => pc'[r] = "start"
        /\ o \in {"stop", "restart"} => pc'[r] = "stop"
        /\ o \in Scopes => pc'[r] = "delete" /\ todo'[r] = Takes(o)
    BY <2>1 DEF TypeOK, Consistent
  <2>5. /\ pc'[r] # "new" /\ on'[r] \in Projects => on'[r] \in used'
        /\ InFlight(r)' => on'[r] \in Projects /\ op'[r] # "none"
        /\ pc'[r] \in {"delete", "await removal"} <=> InFlight(r)' /\ op'[r] \in Scopes
        /\ pc'[r] \in {"start", "stop", "get"} <=> InFlight(r)' /\ op'[r] \in RunOps
        /\ pc'[r] \in {"delete", "await removal"} => todo'[r] \subseteq Takes(op'[r])
        /\ pc'[r] = "new" => on'[r] = NoProject
    BY <2>3, <2>4 DEF InFlight
  <2>6. /\ used' = used
        /\ \A x \in Requests \ {r} : /\ op'[x] = op[x] /\ on'[x] = on[x] /\ pc'[x] = pc[x]
                                     /\ todo'[x] = todo[x]
    BY <2>1 DEF TypeOK
  <2>7. ASSUME NEW x \in Requests \ {r}
        PROVE  /\ pc'[x] # "new" /\ on'[x] \in Projects => on'[x] \in used'
               /\ InFlight(x)' => on'[x] \in Projects /\ op'[x] # "none"
               /\ pc'[x] \in {"delete", "await removal"} <=> InFlight(x)' /\ op'[x] \in Scopes
               /\ pc'[x] \in {"start", "stop", "get"} <=> InFlight(x)' /\ op'[x] \in RunOps
               /\ pc'[x] \in {"delete", "await removal"} => todo'[x] \subseteq Takes(op'[x])
               /\ pc'[x] = "new" => on'[x] = NoProject
    BY <2>6 DEF Consistent, InFlight
  <2>. QED
    BY <2>2, <2>5, <2>7 DEF Consistent
<1>5. ASSUME NEW r \in Requests, Serve(r) PROVE Consistent'
  <2>1. Shape(r)
    BY <1>5, ServeShape
  <2>2. meta' \subseteq used' /\ \A p \in Projects \ used' : NoSandbox(p)'
    <3>1. on[r] \in used /\ used' = used /\ meta' \subseteq meta
      BY <2>1 DEF Shape, Consistent, InFlight
    <3>2. \A p \in Projects \ used : NoSandbox(p) /\ p # on[r]
      BY <3>1 DEF Consistent
    <3>3. \A p \in Projects \ {on[r]} : /\ container'[p] = container[p]
                                        /\ p \in repo' <=> p \in repo
                                        /\ p \in home' <=> p \in home
      BY <2>1 DEF Shape
    <3>. QED
      BY <3>1, <3>2, <3>3 DEF Consistent, NoSandbox
  <2>3. \A x \in Requests : pc'[x] # "new" /\ on'[x] \in Projects => on'[x] \in used'
    BY <2>1 DEF Shape, Consistent, InFlight
  <2>4. ASSUME NEW x \in Requests
        PROVE  /\ InFlight(x)' => on'[x] \in Projects /\ op'[x] # "none"
               /\ pc'[x] \in {"delete", "await removal"} <=> InFlight(x)' /\ op'[x] \in Scopes
               /\ pc'[x] \in {"start", "stop", "get"} <=> InFlight(x)' /\ op'[x] \in RunOps
               /\ pc'[x] \in {"delete", "await removal"} => todo'[x] \subseteq Takes(op'[x])
               /\ pc'[x] = "new" => on'[x] = NoProject
    BY <2>1 DEF Shape, GoesOn, CreateLabels, RunLabels, DeleteLabels, Consistent, InFlight
  <2>. QED
    BY <2>2, <2>3, <2>4 DEF Consistent
<1>6. ASSUME NEW r \in Requests, ClientGone(r) PROVE Consistent'
  BY <1>6 DEF ClientGone, Consistent, InFlight, NoSandbox, storeVars, engineVars,
              history
<1>7. CASE Crash
  BY <1>7 DEF Crash, Consistent, TypeOK, InFlight, NoSandbox, storeVars, engineVars,
              history
<1>8. ASSUME NEW p \in Projects, ContainerExits(p) PROVE Consistent'
  BY <1>8 DEF ContainerExits, Consistent, TypeOK, InFlight, NoSandbox, storeVars, reqVars
<1>9. CASE UNCHANGED vars
  BY <1>9 DEF vars, Consistent, InFlight, NoSandbox
<1>10. ASSUME NEW p \in Projects, RemovalEnds(p) PROVE Consistent'
  BY <1>10 DEF RemovalEnds, Consistent, TypeOK, InFlight, NoSandbox, storeVars, reqVars
<1>. QED
  BY <1>1, <1>2, <1>3, <1>4, <1>5, <1>6, <1>7, <1>8, <1>9, <1>10 DEF Next, Request

\* Both hold in every reachable state.
LEMMA ConsistentAlways == Spec => [](TypeOK /\ Consistent)
BY TypeInit, TypeStep, ConsistentInit, ConsistentStep, PTL DEF Spec

-----------------------------------------------------------------------------
(* The user's work                                                          *)

\* Only the call of Delete that removes a volume takes one away.
LEMMA VolumeStep ==
  ASSUME TypeOK, Consistent, [Next]_vars
  PROVE  /\ \A p \in repo \ repo' :
              \E r \in Requests : InFlight(r) /\ on[r] = p /\ op[r] \in {"repo", "all"}
         /\ \A p \in home \ home' :
              \E r \in Requests : InFlight(r) /\ on[r] = p /\ op[r] \in {"container", "all"}
<1>1. ASSUME NEW r \in Requests, Request(r) \/ ClientGone(r)
      PROVE  repo' = repo /\ home' = home
  BY ZenonT(60), <1>1 DEF Request, RefuseRequest, AcceptCreate, NoSuchProject, AcceptOp, Arrive,
              ClientGone, engineVars
<1>2. ASSUME NEW r \in Requests, DeleteHome(r)
      PROVE  /\ repo' = repo
             /\ \A p \in home \ home' : InFlight(r) /\ on[r] = p /\ op[r] \in {"container", "all"}
  BY <1>2 DEF DeleteHome, Turn, RemoveVolume, InFlight, Consistent, Takes, Scopes
<1>3. ASSUME NEW r \in Requests, DeleteRepo(r)
      PROVE  /\ home' = home
             /\ \A p \in repo \ repo' : InFlight(r) /\ on[r] = p /\ op[r] \in {"repo", "all"}
  BY <1>3 DEF DeleteRepo, Turn, RemoveVolume, InFlight, Consistent, Takes, Scopes
<1>4. ASSUME NEW r \in Requests, Serve(r), ~DeleteHome(r), ~DeleteRepo(r)
      PROVE  repo \subseteq repo' /\ home \subseteq home'
  BY <1>4 DEF Serve, ListNetworks, CreateNetwork, InspectImage, BuildImage, CreateContainer,
              RunStart, CleanUp, CleanUpEnds, Rollback, Clone, StopContainer, GetAgain,
              StartContainer, DeleteStop, DeleteContainer, RemovalReturns, DeleteMetadata,
              DeleteReturns, engineVars
<1>5. CASE Crash \/ (\E p \in Projects : ContainerExits(p) \/ RemovalEnds(p)) \/ UNCHANGED vars
  BY <1>5 DEF Crash, ContainerExits, RemovalEnds, engineVars, vars
<1>. QED
  BY <1>1, <1>2, <1>3, <1>4, <1>5 DEF Next

\* Whatever requests overlap, whatever call fails and whenever the server dies:
\* the user's work goes only under a delete that names the repo or everything of
\* that project.
THEOREM RepoAlwaysKept == Spec => RepoKept
<1>1. TypeOK /\ Consistent /\ [Next]_vars =>
        [\A p \in repo \ repo' :
           \E r \in Requests : InFlight(r) /\ on[r] = p /\ op[r] \in {"repo", "all"}]_vars
  BY VolumeStep
<1>. QED
  BY <1>1, ConsistentAlways, PTL DEF Spec, RepoKept

\* The same of the home volume, the container's state.
THEOREM HomeAlwaysKept == Spec => HomeKept
<1>1. TypeOK /\ Consistent /\ [Next]_vars =>
        [\A p \in home \ home' :
           \E r \in Requests : InFlight(r) /\ on[r] = p /\ op[r] \in {"container", "all"}]_vars
  BY VolumeStep
<1>. QED
  BY <1>1, ConsistentAlways, PTL DEF Spec, HomeKept

-----------------------------------------------------------------------------
(* An operation that has its project for itself                             *)

\* What an operation finds of its project while it goes on undisturbed: a start and a
\* stop have done nothing yet; a restart has stopped the container at most; a delete has
\* touched what its scope takes.
OnTheWay(r) ==
  LET p == on[r]  b == before[r]
  IN  /\ op[r] = "start" => pc[r] = "start"
      /\ b.ctr # "removing"
      /\ op[r] \notin {"metadata", "all"} => (p \in meta <=> b.meta)
      /\ op[r] \notin {"repo", "all"} => (p \in repo <=> b.repo)
      /\ op[r] \notin {"container", "all"} => (p \in home <=> b.home)
      /\ (p \in meta => b.meta) /\ (p \in repo => b.repo) /\ (p \in home => b.home)
      /\ op[r] \in {"start", "stop", "metadata"} => container[p] = b.ctr
      /\ op[r] = "restart" => container[p] \in {b.ctr, "stopped"}
      /\ op[r] \in {"container", "repo", "all"} =>
           IF b.ctr = "missing" THEN container[p] = "missing"
                                ELSE container[p] \in {b.ctr, "stopped", "removing", "missing"}

\* What it has made of its project when it gets to its next call.
DoneSoFar(r) ==
  LET p == on[r]
  IN  /\ op[r] \in CreateOps => p \in meta
      /\ pc[r] \in {"run", "clone"} => p \in repo /\ p \in home
      /\ pc[r] \in DeleteLabels /\ r \notin failed =>
           /\ pc[r] = "delete" /\ "remove" \in Takes(op[r]) \ todo[r] => container[p] = "missing"
           /\ "home" \in Takes(op[r]) \ todo[r] => p \notin home
           /\ "repo" \in Takes(op[r]) \ todo[r] => p \notin repo
           /\ "meta" \in Takes(op[r]) \ todo[r] => p \notin meta

States == [meta : BOOLEAN, ctr : {"missing", "stopped", "running", "removing"},
           repo : BOOLEAN, home : BOOLEAN]

\* It is alone, and on the way.
Undisturbed ==
  /\ before \in [Requests -> States]
  /\ \A r \in Requests :
       InFlight(r) /\ r \notin disturbed =>
         /\ Working(on[r]) = {r}
         /\ op[r] \notin CreateOps => OnTheWay(r)
         /\ DoneSoFar(r)

\* What an effect makes of a state, field by field.
LEMMA Effects ==
  ASSUME NEW o \in RunOps \union Scopes, NEW b \in States, NEW e, e = Effect(o, b)
  PROVE  /\ o \notin {"metadata", "all"} => (e.meta <=> b.meta)
         /\ o \notin {"repo", "all"} => (e.repo <=> b.repo)
         /\ o \notin {"container", "all"} => (e.home <=> b.home)
         /\ o \in {"metadata", "all"} => ~e.meta
         /\ o \in {"repo", "all"} => ~e.repo
         /\ o \in {"container", "all"} => ~e.home
         /\ o \in {"start", "restart"} => e.ctr = "running"
         /\ o = "stop" => e.ctr = "stopped"
         /\ o = "metadata" => e.ctr = b.ctr
         /\ o \in {"container", "repo", "all"} => e.ctr = "missing"
<1>1. CASE o \in RunOps
  <2>1. e = [b EXCEPT !.ctr = IF o = "stop" THEN "stopped" ELSE "running"]
    BY <1>1 DEF Effect, RunOps, CreateOps
  <2> QED BY <1>1, <2>1 DEF States, RunOps, Scopes
<1>2. CASE o = "container"
  <2>1. e = [b EXCEPT !.ctr = "missing", !.home = FALSE]
    BY <1>2 DEF Effect, CreateOps
  <2> QED BY <1>2, <2>1 DEF States, RunOps, Scopes
<1>3. CASE o = "repo"
  <2>1. e = [b EXCEPT !.ctr = "missing", !.repo = FALSE]
    BY <1>3 DEF Effect, CreateOps
  <2> QED BY <1>3, <2>1 DEF States, RunOps, Scopes
<1>4. CASE o = "metadata"
  <2>1. e = [b EXCEPT !.meta = FALSE]
    BY <1>4 DEF Effect, CreateOps
  <2> QED BY <1>4, <2>1 DEF States, RunOps, Scopes
<1>5. CASE o = "all"
  <2>1. e = [meta |-> FALSE, ctr |-> "missing", repo |-> FALSE, home |-> FALSE]
    BY <1>5 DEF Effect, CreateOps, Nothing
  <2>2. ~e.meta /\ e.ctr = "missing" /\ ~e.repo /\ ~e.home
    BY <2>1
  <2> QED BY <1>5, <2>2 DEF RunOps, Scopes
<1> QED BY <1>1, <1>2, <1>3, <1>4, <1>5 DEF Scopes

\* What is on the way is within the scope.
LEMMA OnTheWayInScope == TypeOK /\ Consistent /\ Undisturbed => WithinScope
<1> SUFFICES ASSUME TypeOK, Consistent, Undisturbed, NEW r \in Requests,
                    InFlight(r), r \notin disturbed, op[r] \notin CreateOps,
                    NEW e, e = Effect(op[r], before[r])
             PROVE  LET s == Snapshot(on[r])  b == before[r]
                    IN  /\ (s.meta <=> b.meta) \/ (s.meta <=> e.meta)
                        /\ (s.repo <=> b.repo) \/ (s.repo <=> e.repo)
                        /\ (s.home <=> b.home) \/ (s.home <=> e.home)
                        /\ \/ s.ctr \in {b.ctr, e.ctr}
                           \/ s.ctr = "stopped" /\ (e.ctr # b.ctr \/ op[r] = "restart")
                           \/ s.ctr = "removing" /\ e.ctr = "missing" /\ b.ctr # "missing"
  BY DEF WithinScope
<1>1. OnTheWay(r) /\ before[r] \in States
  BY DEF Undisturbed
<1>2. op[r] \in RunOps \union Scopes
  BY DEF TypeOK, Consistent
<1>3. /\ Snapshot(on[r]).meta <=> on[r] \in meta
      /\ Snapshot(on[r]).repo <=> on[r] \in repo
      /\ Snapshot(on[r]).home <=> on[r] \in home
      /\ Snapshot(on[r]).ctr = container[on[r]]
  BY DEF Snapshot
<1>4. /\ op[r] \in {"metadata", "all"} => ~e.meta
      /\ op[r] \in {"repo", "all"} => ~e.repo
      /\ op[r] \in {"container", "all"} => ~e.home
      /\ op[r] \in {"start", "restart"} => e.ctr = "running"
      /\ op[r] = "stop" => e.ctr = "stopped"
      /\ op[r] \in {"container", "repo", "all"} => e.ctr = "missing"
  BY <1>1, <1>2, Effects
<1>5. /\ (Snapshot(on[r]).meta <=> before[r].meta) \/ (Snapshot(on[r]).meta <=> e.meta)
      /\ (Snapshot(on[r]).repo <=> before[r].repo) \/ (Snapshot(on[r]).repo <=> e.repo)
      /\ (Snapshot(on[r]).home <=> before[r].home) \/ (Snapshot(on[r]).home <=> e.home)
  BY <1>1, <1>3, <1>4 DEF OnTheWay
<1>6. \/ Snapshot(on[r]).ctr \in {before[r].ctr, e.ctr}
      \/ Snapshot(on[r]).ctr = "stopped" /\ (e.ctr # before[r].ctr \/ op[r] = "restart")
      \/ Snapshot(on[r]).ctr = "removing" /\ e.ctr = "missing" /\ before[r].ctr # "missing"
  BY <1>1, <1>2, <1>3, <1>4 DEF OnTheWay, RunOps, Scopes
<1> QED BY <1>5, <1>6

\* What there is of a project is a state.
LEMMA SnapshotIsState ==
  ASSUME TypeOK, NEW p \in Projects
  PROVE  Snapshot(p) \in States
BY DEF Snapshot, States, TypeOK

\* Nothing is under way at the start.
LEMMA UndisturbedInit == Init => Undisturbed
BY DEF Init, Undisturbed, InFlight, States, Nothing

\* A request keeps its project for itself while nobody else goes there.
LEMMA StillAlone ==
  ASSUME Undisturbed, NEW r \in Requests, InFlight(r), r \notin disturbed,
         InFlight(r)', on'[r] = on[r],
         \A x \in Requests \ {r} :
            InFlight(x)' /\ on'[x] = on[r] => InFlight(x) /\ on[x] = on[r]
  PROVE  Working(on[r])' = {r}
<1>1. \A x \in Requests \ {r} : ~(InFlight(x) /\ on[x] = on[r])
  BY DEF Undisturbed, Working
<1>. QED
  BY <1>1 DEF Working

\* It is as far on the way as it was while nothing touches its project.
LEMMA StillOnTheWay ==
  ASSUME Undisturbed, NEW r \in Requests, InFlight(r), r \notin disturbed,
  op[r] \notin CreateOps,
         op'[r] = op[r], on'[r] = on[r], before'[r] = before[r],
         pc'[r] = pc[r] \/ pc'[r] = "start",
         on[r] \in meta' <=> on[r] \in meta, on[r] \in repo' <=> on[r] \in repo,
         on[r] \in home' <=> on[r] \in home, container'[on[r]] = container[on[r]]
  PROVE  OnTheWay(r)'
<1>1. OnTheWay(r)
  BY DEF Undisturbed
<1>. QED
  BY <1>1 DEF OnTheWay

\* It has done as much as it had while nothing touches its project.
LEMMA StillDone ==
  ASSUME Consistent, Undisturbed, NEW r \in Requests, InFlight(r), r \notin disturbed,
         op'[r] = op[r], on'[r] = on[r], pc'[r] = pc[r], todo'[r] = todo[r],
         r \in failed' <=> r \in failed,
         on[r] \in meta' <=> on[r] \in meta, on[r] \in repo' <=> on[r] \in repo,
         on[r] \in home' <=> on[r] \in home,
         op[r] \notin CreateOps => container'[on[r]] = container[on[r]]
  PROVE  DoneSoFar(r)'
<1>1. DoneSoFar(r)
  BY DEF Undisturbed
<1>2. pc[r] = "delete" => op[r] \notin CreateOps
  BY DEF Consistent, Scopes, CreateOps
<1>. QED
  BY <1>1, <1>2 DEF DoneSoFar

\* No call of the server touches the history.
LEMMA ServeHistory ==
  ASSUME NEW r \in Requests, Serve(r)
  PROVE  UNCHANGED <<before, disturbed>>
BY DEF Serve, ListNetworks, CreateNetwork, InspectImage, BuildImage, CreateContainer,
       RunStart, CleanUp, CleanUpEnds, Rollback, Clone, StopContainer, GetAgain,
       StartContainer, DeleteStop, DeleteContainer, RemovalReturns, DeleteHome, DeleteRepo,
       DeleteMetadata, DeleteReturns, Turn, Fixed, history

\* A call of an operation that goes on after it leaves it on the way.
LEMMA ServeOnTheWay ==
  ASSUME TypeOK, Consistent, Undisturbed, NEW r \in Requests, Serve(r),
         r \notin disturbed, op[r] \notin CreateOps, InFlight(r)'
  PROVE  OnTheWay(r)'
<1>1. Shape(r) /\ UNCHANGED <<before, disturbed>>
  BY ServeShape, ServeHistory
<1>2. /\ InFlight(r) /\ op'[r] = op[r] /\ on'[r] = on[r] /\ before'[r] = before[r]
      /\ on[r] \in Projects /\ op[r] \in RunOps \union Scopes
  BY <1>1 DEF Shape, TypeOK, Consistent
<1>3. OnTheWay(r) /\ before[r] \in States
  BY <1>2 DEF Undisturbed
<1>4. pc[r] \in RunLabels \union DeleteLabels
  BY <1>2 DEF Consistent, RunLabels, DeleteLabels
<1>5. CASE StopContainer(r)
  <2>1. op[r] \in {"stop", "restart"} /\ (op[r] = "stop" => pc'[r] = "done")
    BY ZenonT(60), <1>2, <1>3, <1>5 DEF OnTheWay, StopContainer, Return, Goto, InFlight, TypeOK,
       Consistent, RunOps
  <2>2. UNCHANGED <<meta, repo, home>>
    BY <1>5 DEF StopContainer
  <2>3. container'[on[r]] \in {container[on[r]], "stopped"}
    BY <1>2, <1>5 DEF StopContainer, HaltContainer, TypeOK
  <2>. QED
    BY <1>2, <1>3, <2>1, <2>2, <2>3 DEF OnTheWay, InFlight
<1>6. CASE GetAgain(r)
  <2>1. UNCHANGED <<meta, repo, home, container>> /\ pc'[r] = "start"
    BY <1>2, <1>6 DEF GetAgain, engineVars, Goto, Return, InFlight, TypeOK
  <2>. QED
    BY <1>2, <2>1, StillOnTheWay
<1>7. CASE StartContainer(r)
  BY <1>7 DEF StartContainer, Return, InFlight, TypeOK
<1>8. CASE DeleteStop(r)
  <2>1. op[r] \in {"container", "repo", "all"}
    BY <1>2, <1>8 DEF DeleteStop, Turn, Consistent, Takes, Scopes
  <2>2. /\ UNCHANGED <<meta, repo, home>>
        /\ container[on[r]] = "missing" => container'[on[r]] = "missing"
        /\ container'[on[r]] \in {container[on[r]], "stopped"}
    BY <1>2, <1>8 DEF DeleteStop, HaltContainer, TypeOK
  <2>. QED
    BY <1>2, <1>3, <2>1, <2>2 DEF OnTheWay
<1>9. CASE DeleteContainer(r)
  <2>1. op[r] \in {"container", "repo", "all"}
    BY <1>2, <1>9 DEF DeleteContainer, Turn, Consistent, Takes, Scopes
  <2>2. /\ UNCHANGED <<meta, repo, home>>
        /\ \/ container'[on[r]] = container[on[r]]
           \/ container[on[r]] # "missing" /\ container'[on[r]] = "removing"
    BY <1>2, <1>9 DEF DeleteContainer, RemoveContainer, TypeOK
  <2>. QED
    BY <1>2, <1>3, <2>1, <2>2 DEF OnTheWay
<1>14. CASE RemovalReturns(r)
  <2>1. UNCHANGED <<meta, repo, home, container>> /\ pc[r] = "await removal"
    BY <1>14 DEF RemovalReturns, storeVars, engineVars
  <2>2. op[r] \in Scopes
    BY <1>2, <2>1 DEF Consistent
  <2>. QED
    BY <1>2, <1>3, <2>1, <2>2 DEF OnTheWay, Scopes
<1>10. CASE DeleteHome(r)
  <2>1. op[r] \in {"container", "all"}
    BY <1>2, <1>10 DEF DeleteHome, Turn, Consistent, Takes, Scopes
  <2>2. UNCHANGED <<meta, repo, container>> /\ home' \subseteq home
    BY <1>10 DEF DeleteHome, RemoveVolume
  <2>. QED
    BY <1>2, <1>3, <2>1, <2>2 DEF OnTheWay
<1>11. CASE DeleteRepo(r)
  <2>1. op[r] \in {"repo", "all"}
    BY <1>2, <1>11 DEF DeleteRepo, Turn, Consistent, Takes, Scopes
  <2>2. UNCHANGED <<meta, home, container>> /\ repo' \subseteq repo
    BY <1>11 DEF DeleteRepo, RemoveVolume
  <2>. QED
    BY <1>2, <1>3, <2>1, <2>2 DEF OnTheWay
<1>12. CASE DeleteMetadata(r)
  <2>1. op[r] \in {"metadata", "all"}
    BY <1>2, <1>12 DEF DeleteMetadata, Turn, Consistent, Takes, Scopes
  <2>2. UNCHANGED <<repo, home, container>> /\ meta' \subseteq meta
    BY <1>12 DEF DeleteMetadata, StoreDelete
  <2>. QED
    BY <1>2, <1>3, <2>1, <2>2 DEF OnTheWay
<1>13. CASE DeleteReturns(r)
  BY <1>13 DEF DeleteReturns, Return, InFlight, TypeOK
<1>. QED
  BY <1>4, <1>5, <1>6, <1>7, <1>8, <1>9, <1>10, <1>11, <1>12, <1>13, <1>14
     DEF RunLabels, DeleteLabels, Serve, ListNetworks, CreateNetwork, InspectImage, BuildImage,
         CreateContainer, RunStart, CleanUp, CleanUpEnds, Rollback, Clone

\* A call that is not the last has done what it should.
LEMMA ServeDone ==
  ASSUME TypeOK, Consistent, Undisturbed, NEW r \in Requests, Serve(r),
         r \notin disturbed, InFlight(r)'
  PROVE  DoneSoFar(r)'
<1>1. Shape(r)
  BY ServeShape
<1>2. /\ InFlight(r) /\ op'[r] = op[r] /\ on'[r] = on[r] /\ on[r] \in Projects
      /\ op[r] \in CreateOps \union RunOps \union Scopes
  BY <1>1 DEF Shape, TypeOK, Consistent
<1>3. DoneSoFar(r)
  BY <1>2 DEF Undisturbed
<1>4. ASSUME pc[r] \in CreateLabels, pc'[r] \notin {"run", "clone", "done"}
      PROVE  DoneSoFar(r)'
  <2>1. op[r] \in CreateOps /\ pc'[r] \notin DeleteLabels
    BY <1>1, <1>2, <1>4 DEF Shape, GoesOn, Consistent, CreateLabels, RunLabels, DeleteLabels
  <2>2. ~Rollback(r) /\ ~DeleteMetadata(r)
    BY <1>4 DEF Rollback, Return, TypeOK, DeleteMetadata, Turn, CreateLabels
  <2>3. UNCHANGED meta
    BY <2>2, <1>4 DEF Serve, ListNetworks, CreateNetwork, InspectImage, BuildImage,
         CreateContainer, RunStart, CleanUp, CleanUpEnds, Clone, StopContainer, GetAgain,
         StartContainer, DeleteStop, DeleteContainer, RemovalReturns, DeleteHome, DeleteRepo,
         DeleteReturns, storeVars
  <2>. QED
    BY <1>2, <1>3, <1>4, <2>1, <2>3 DEF DoneSoFar
<1>5. CASE CreateContainer(r)
  <2>1. pc[r] \in CreateLabels /\ pc'[r] \in {"run", "rollback"}
    BY <1>5 DEF CreateContainer, Goto, TypeOK, CreateLabels
  <2>2. CASE pc'[r] = "run"
    <3>1. on[r] \in repo' /\ on[r] \in home' /\ UNCHANGED meta
      BY <1>5, <2>2 DEF CreateContainer, Goto, TypeOK
    <3>. QED
      BY <1>2, <1>3, <2>2, <3>1 DEF DoneSoFar, DeleteLabels
  <2>. QED
    BY <1>4, <2>1, <2>2
<1>6. CASE RunStart(r)
  <2>1. pc[r] = "run" /\ UNCHANGED <<meta, repo, home>> /\ pc'[r] \in {"clone", "clean up"}
    BY <1>6 DEF RunStart, Goto, Return, TypeOK, InFlight
  <2>. QED
    BY <1>2, <1>3, <2>1 DEF DoneSoFar, DeleteLabels
<1>7. CASE Clone(r) \/ Rollback(r)
  BY <1>7 DEF Clone, Rollback, Return, InFlight, TypeOK
<1>8. CASE \/ ListNetworks(r) \/ CreateNetwork(r) \/ InspectImage(r) \/ BuildImage(r)
           \/ CleanUp(r) \/ CleanUpEnds(r)
  <2>1. pc[r] \in CreateLabels /\ pc'[r] \notin {"run", "clone", "done"}
    BY <1>8 DEF ListNetworks, CreateNetwork, InspectImage, BuildImage, CleanUp, CleanUpEnds,
                Goto, TypeOK, CreateLabels
  <2>. QED
    BY <1>4, <2>1
<1>9. CASE pc[r] \in RunLabels
  <2>1. op[r] \notin CreateOps /\ pc'[r] \notin {"run", "clone"} \union DeleteLabels
    BY <1>1, <1>2, <1>9 DEF Shape, GoesOn, Consistent, CreateLabels, RunLabels, DeleteLabels,
                            CreateOps, RunOps
  <2>. QED
    BY <1>2, <2>1 DEF DoneSoFar
<1>10. ASSUME pc[r] \in DeleteLabels, pc'[r] \in DeleteLabels, op'[r] = op[r],
              \/ r \in failed'
              \/ /\ r \notin failed
                 /\ pc'[r] = "delete" /\ "remove" \in Takes(op[r]) \ todo'[r]
                      => container'[on[r]] = "missing"
                 /\ "home" \in Takes(op[r]) \ todo'[r] => on[r] \notin home'
                 /\ "repo" \in Takes(op[r]) \ todo'[r] => on[r] \notin repo'
                 /\ "meta" \in Takes(op[r]) \ todo'[r] => on[r] \notin meta'
       PROVE  DoneSoFar(r)'
  <2>1. op[r] \notin CreateOps
    BY <1>10 DEF Consistent, Scopes, CreateOps, DeleteLabels
  <2>. QED
    BY <1>2, <1>10, <2>1 DEF DoneSoFar, DeleteLabels
<1>11. CASE DeleteStop(r)
  <2>1. /\ pc[r] = "delete" /\ pc'[r] = "delete" /\ UNCHANGED <<meta, repo, home, failed>>
        /\ todo'[r] = todo[r] \ {"stop"}
        /\ container[on[r]] = "missing" => container'[on[r]] = "missing"
    BY <1>2, <1>11 DEF DeleteStop, HaltContainer, Turn, TypeOK
  <2>. QED
    BY <1>2, <1>3, <1>10, <2>1 DEF DoneSoFar, DeleteLabels
<1>12. CASE DeleteContainer(r)
  <2>1. /\ pc[r] = "delete" /\ pc'[r] \in DeleteLabels /\ UNCHANGED <<meta, repo, home>>
        /\ todo'[r] = todo[r] \ {"remove"}
        /\ r \in failed => r \in failed'
        /\ r \in failed' \/ pc'[r] = "await removal" \/ container'[on[r]] = "missing"
    BY <1>2, <1>12 DEF DeleteContainer, Turn, RemoveContainer, Note, Goto, DeleteLabels, TypeOK
  <2>. QED
    BY <1>2, <1>3, <1>10, <2>1 DEF DoneSoFar, DeleteLabels
<1>17. CASE RemovalReturns(r)
  <2>1. /\ pc[r] = "await removal" /\ pc'[r] = "delete"
        /\ UNCHANGED <<meta, repo, home, container, todo>>
        /\ r \in failed => r \in failed'
        /\ r \in failed' \/ container[on[r]] = "missing"
    BY <1>17 DEF RemovalReturns, RemovalAnswer, Note, Goto, storeVars, engineVars, TypeOK
  <2>. QED
    BY <1>2, <1>3, <1>10, <2>1 DEF DoneSoFar, DeleteLabels
<1>13. CASE DeleteHome(r)
  <2>1. /\ pc[r] = "delete" /\ pc'[r] = "delete" /\ UNCHANGED <<meta, repo, container>>
        /\ todo'[r] = todo[r] \ {"home"}
        /\ r \in failed => r \in failed'
        /\ r \in failed' \/ on[r] \notin home'
    BY <1>2, <1>13 DEF DeleteHome, Turn, RemoveVolume, Note, TypeOK
  <2>. QED
    BY <1>2, <1>3, <1>10, <2>1 DEF DoneSoFar, DeleteLabels
<1>14. CASE DeleteRepo(r)
  <2>1. /\ pc[r] = "delete" /\ pc'[r] = "delete" /\ UNCHANGED <<meta, home, container>>
        /\ todo'[r] = todo[r] \ {"repo"}
        /\ r \in failed => r \in failed'
        /\ r \in failed' \/ on[r] \notin repo'
    BY <1>2, <1>14 DEF DeleteRepo, Turn, RemoveVolume, Note, TypeOK
  <2>. QED
    BY <1>2, <1>3, <1>10, <2>1 DEF DoneSoFar, DeleteLabels
<1>15. CASE DeleteMetadata(r)
  <2>1. /\ pc[r] = "delete" /\ pc'[r] = "delete" /\ UNCHANGED <<repo, home, container>>
        /\ todo'[r] = todo[r] \ {"meta"}
        /\ r \in failed => r \in failed'
        /\ r \in failed' \/ on[r] \notin meta'
    BY <1>2, <1>15 DEF DeleteMetadata, Turn, StoreDelete, Note, TypeOK
  <2>. QED
    BY <1>2, <1>3, <1>10, <2>1 DEF DoneSoFar, DeleteLabels
<1>16. CASE DeleteReturns(r)
  BY <1>16 DEF DeleteReturns, Return, InFlight, TypeOK
<1>. QED
  BY <1>5, <1>6, <1>7, <1>8, <1>9, <1>11, <1>12, <1>13, <1>14, <1>15, <1>16, <1>17
     DEF Serve, RunLabels, StopContainer, GetAgain, StartContainer

\* A request that arrives has its project for itself, or disturbs whoever is there.
LEMMA ArriveUndisturbed ==
  ASSUME TypeOK, Consistent, Undisturbed, NEW y \in Requests, NEW o \in Ops, NEW p \in Projects,
         Arrive(y, o, p), \E label \in Labels : pc' = [pc EXCEPT ![y] = label],
         o = "start" => pc'[y] \in {"start", "done"},
         o \in CreateOps => p \in meta' /\ pc'[y] = "list networks",
         o \notin CreateOps => pc'[y] \in {"start", "stop", "delete", "done"},
         pc'[y] = "delete" => todo'[y] = Takes(o),
         \A x \in Requests \ {y} : todo'[x] = todo[x],
         \A q \in Projects \ {p} : q \in meta' <=> q \in meta,
         o \notin CreateOps => meta' = meta
  PROVE  Undisturbed'
<1>1. /\ op'[y] = o /\ on'[y] = p /\ before'[y] = Snapshot(p) /\ ~InFlight(y)
      /\ \A x \in Requests \ {y} : /\ op'[x] = op[x] /\ on'[x] = on[x] /\ pc'[x] = pc[x]
                                    /\ before'[x] = before[x]
      /\ UNCHANGED <<container, repo, home>>
  BY DEF Arrive, TypeOK, Undisturbed, InFlight, engineVars
<1>2. Snapshot(p) \in States
  BY SnapshotIsState
<1>3. before' \in [Requests -> States]
  BY <1>2 DEF Undisturbed, Arrive
<1>4. \A x \in Requests : x \notin disturbed' => x \notin disturbed
  BY DEF Arrive
<1>5. \A x \in Requests \ {y} : InFlight(x)' <=> InFlight(x)
  BY <1>1 DEF InFlight
<1>6. ASSUME InFlight(y)', y \notin disturbed'
      PROVE  /\ Working(on[y])' = {y}
             /\ op'[y] \notin CreateOps => OnTheWay(y)'
             /\ DoneSoFar(y)'
  <2>1. Working(p) = {} /\ container[p] # "removing"
    BY <1>6 DEF Arrive
  <2>2. Working(on[y])' = {y}
    <3>1. \A x \in Requests \ {y} : ~(InFlight(x)' /\ on'[x] = p)
      BY <1>1, <1>5, <2>1 DEF Working
    <3>. QED
      BY <1>1, <1>6, <3>1 DEF Working
  <2>3. ASSUME op'[y] \notin CreateOps
        PROVE  OnTheWay(y)'
    <3>0. before'[y] = Snapshot(p) /\ UNCHANGED <<meta, repo, home, container>>
      BY <1>1, <2>3
    <3>1. /\ Snapshot(p).meta <=> p \in meta
          /\ Snapshot(p).repo <=> p \in repo
          /\ Snapshot(p).home <=> p \in home
          /\ Snapshot(p).ctr = container[p]
      BY DEF Snapshot
    <3>2. /\ before'[y].meta <=> p \in meta'
          /\ before'[y].repo <=> p \in repo'
          /\ before'[y].home <=> p \in home'
          /\ before'[y].ctr = container'[p]
      BY <3>0, <3>1
    <3>. QED
      BY <1>1, <1>6, <2>1, <2>3, <3>2 DEF OnTheWay, InFlight
  <2>4. DoneSoFar(y)'
    BY <1>1 DEF DoneSoFar, DeleteLabels
  <2>. QED
    BY <2>2, <2>3, <2>4
<1>7. ASSUME NEW r \in Requests, r # y, InFlight(r)', r \notin disturbed'
      PROVE  /\ Working(on[r])' = {r}
             /\ op'[r] \notin CreateOps => OnTheWay(r)'
             /\ DoneSoFar(r)'
  <2>1. InFlight(r) /\ r \notin disturbed /\ on[r] \in Projects /\ on'[r] = on[r]
    BY <1>1, <1>4, <1>5, <1>7 DEF TypeOK
  <2>2. on[r] # p
    BY <1>7, <2>1 DEF Arrive, Working
  <2>3. Working(on[r])' = {r}
    BY <1>1, <1>5, <1>7, <2>1, <2>2, StillAlone
  <2>4. op'[r] \notin CreateOps => OnTheWay(r)'
    BY <1>1, <1>7, <2>1, <2>2, StillOnTheWay
  <2>5. DoneSoFar(r)'
    BY <1>1, <1>7, <2>1, <2>2, StillDone DEF Arrive
  <2>. QED
    BY <2>3, <2>4, <2>5
<1>. QED
  BY <1>3, <1>6, <1>7 DEF Undisturbed

\* A step that lets every request where it was and touches no undisturbed project.
LEMMA ElsewhereUndisturbed ==
  ASSUME TypeOK, Consistent, Undisturbed, UNCHANGED <<op, on, before, todo, failed>>,
         disturbed \subseteq disturbed',
         \A r \in Requests : InFlight(r)' => pc'[r] = pc[r],
         \A r \in Requests : InFlight(r) /\ r \notin disturbed' =>
            /\ on[r] \in meta' <=> on[r] \in meta
            /\ on[r] \in repo' <=> on[r] \in repo
            /\ on[r] \in home' <=> on[r] \in home
            /\ op[r] \notin CreateOps => container'[on[r]] = container[on[r]]
  PROVE  Undisturbed'
<1>1. ASSUME NEW r \in Requests, InFlight(r)', r \notin disturbed'
      PROVE  /\ Working(on[r])' = {r}
             /\ op'[r] \notin CreateOps => OnTheWay(r)'
             /\ DoneSoFar(r)'
  <2>1. InFlight(r) /\ r \notin disturbed /\ pc'[r] = pc[r]
    BY <1>1 DEF InFlight
  <2>2. Working(on[r])' = {r}
    BY <1>1, <2>1, StillAlone DEF InFlight
  <2>3. op'[r] \notin CreateOps => OnTheWay(r)'
    BY <1>1, <2>1, StillOnTheWay
  <2>4. DoneSoFar(r)'
    BY <1>1, <2>1, StillDone
  <2>. QED
    BY <2>2, <2>3, <2>4
<1>. QED
  BY <1>1 DEF Undisturbed

\* Every step leaves what is undisturbed on the way.
LEMMA UndisturbedStep ==
  ASSUME TypeOK, Consistent, Undisturbed, [Next]_vars
  PROVE  Undisturbed'
<1>1. ASSUME NEW y \in Requests, RefuseRequest(y) PROVE Undisturbed'
  <2>1. /\ UNCHANGED <<op, on, todo, failed, before, disturbed, meta, repo, home, container>>
        /\ \A r \in Requests : InFlight(r)' => pc'[r] = pc[r]
    BY <1>1 DEF RefuseRequest, Return, storeVars, engineVars, history, InFlight, TypeOK
  <2>. QED
    BY <2>1, ElsewhereUndisturbed
<1>2. ASSUME NEW y \in Requests, NEW o \in Ops, NEW p \in Projects,
             AcceptCreate(y, o, p) \/ NoSuchProject(y, o, p) \/ AcceptOp(y, o, p)
      PROVE  Undisturbed'
  <2>1. /\ Arrive(y, o, p)
        /\ \A q \in Projects \ {p} : q \in meta' <=> q \in meta
        /\ o \notin CreateOps => meta' = meta
    BY <1>2 DEF AcceptCreate, NoSuchProject, AcceptOp, storeVars
  <2>2. \E label \in Labels : pc' = [pc EXCEPT ![y] = label]
    BY <1>2 DEF AcceptCreate, NoSuchProject, AcceptOp, Goto, Return, Labels
  <2>3. o = "start" => pc'[y] \in {"start", "done"}
    BY <1>2 DEF AcceptCreate, NoSuchProject, AcceptOp, Goto, Return, TypeOK, CreateOps
  <2>4. /\ o \in CreateOps => p \in meta' /\ pc'[y] = "list networks"
        /\ o \notin CreateOps => pc'[y] \in {"start", "stop", "delete", "done"}
        /\ pc'[y] = "delete" => todo'[y] = Takes(o)
        /\ \A x \in Requests \ {y} : todo'[x] = todo[x]
    <3>1. CASE AcceptCreate(y, o, p)
      BY <3>1 DEF AcceptCreate, Goto, TypeOK
    <3>2. CASE NoSuchProject(y, o, p)
      BY <3>2 DEF NoSuchProject, Return, TypeOK
    <3>3. CASE AcceptOp(y, o, p)
      BY <3>3, ConstantsAssumption DEF AcceptOp, Goto, TypeOK, RunOps
    <3>. QED
      BY <1>2, <3>1, <3>2, <3>3
  <2>. QED
    BY <2>1, <2>2, <2>3, <2>4, ArriveUndisturbed
<1>3. ASSUME NEW y \in Requests, Serve(y) PROVE Undisturbed'
  <2>1. Shape(y) /\ UNCHANGED <<before, disturbed>>
    BY <1>3, ServeShape, ServeHistory
  <2>2. \A x \in Requests : InFlight(x)' => InFlight(x) /\ on'[x] = on[x]
    BY <2>1 DEF Shape, InFlight
  <2>3. ASSUME NEW r \in Requests, InFlight(r)', r \notin disturbed'
        PROVE  /\ Working(on[r])' = {r}
               /\ op'[r] \notin CreateOps => OnTheWay(r)'
               /\ DoneSoFar(r)'
    <3>1. /\ InFlight(r) /\ r \notin disturbed /\ on'[r] = on[r] /\ op'[r] = op[r]
          /\ before'[r] = before[r] /\ on[r] \in Projects
      BY <2>1, <2>2, <2>3 DEF Shape, TypeOK
    <3>2. Working(on[r])' = {r}
      BY <2>2, <2>3, <3>1, StillAlone
    <3>3. ASSUME r = y, op[r] \notin CreateOps PROVE OnTheWay(r)'
      BY <1>3, <2>3, <3>1, <3>3, ServeOnTheWay
    <3>4. ASSUME r = y PROVE DoneSoFar(r)'
      BY <1>3, <2>3, <3>1, <3>4, ServeDone
    <3>5. ASSUME r # y
          PROVE  (op[r] \notin CreateOps => OnTheWay(r)') /\ DoneSoFar(r)'
      <4>1. InFlight(y) /\ Working(on[r]) = {r}
        BY <2>1, <3>1 DEF Shape, Undisturbed
      <4>2. on[r] # on[y]
        BY <3>5, <4>1 DEF Working
      <4>3. /\ on[r] \in meta' <=> on[r] \in meta
            /\ on[r] \in repo' <=> on[r] \in repo
            /\ on[r] \in home' <=> on[r] \in home
            /\ container'[on[r]] = container[on[r]]
            /\ pc'[r] = pc[r] /\ todo'[r] = todo[r]
            /\ r \in failed' <=> r \in failed
        BY <2>1, <3>1, <3>5, <4>2 DEF Shape
      <4>4. op[r] \notin CreateOps => OnTheWay(r)'
        BY <3>1, <4>3, StillOnTheWay
      <4>5. DoneSoFar(r)'
        BY <3>1, <4>3, StillDone
      <4>. QED
        BY <4>4, <4>5
    <3>. QED
      BY <3>1, <3>2, <3>3, <3>4, <3>5
  <2>. QED
    BY <2>1, <2>3 DEF Undisturbed
<1>4. ASSUME NEW y \in Requests, ClientGone(y) PROVE Undisturbed'
  <2>1. /\ UNCHANGED <<op, on, todo, failed, before, disturbed, meta, repo, home, container>>
        /\ \A r \in Requests : InFlight(r)' => pc'[r] = pc[r]
    BY <1>4 DEF ClientGone, storeVars, engineVars, history, InFlight
  <2>. QED
    BY <2>1, ElsewhereUndisturbed
<1>5. CASE Crash
  <2>1. /\ UNCHANGED <<op, on, todo, failed, before, disturbed, meta, repo, home, container>>
        /\ \A r \in Requests : InFlight(r)' => pc'[r] = pc[r]
    BY <1>5 DEF Crash, storeVars, engineVars, history, InFlight
  <2>. QED
    BY <2>1, ElsewhereUndisturbed
<1>6. ASSUME NEW p \in Projects, ContainerExits(p) PROVE Undisturbed'
  <2>1. /\ UNCHANGED <<op, on, todo, failed, before, meta, repo, home, pc>>
        /\ disturbed' = disturbed \union {r \in Working(p) : op[r] \notin CreateOps}
        /\ \A q \in Projects \ {p} : container'[q] = container[q]
    BY <1>6 DEF ContainerExits, storeVars, reqVars, TypeOK
  <2>2. \A r \in Requests : InFlight(r)' => pc'[r] = pc[r]
    BY <2>1
  <2>3. \A r \in Requests : InFlight(r) /\ r \notin disturbed' =>
           (op[r] \notin CreateOps => container'[on[r]] = container[on[r]])
    BY <2>1 DEF Working, TypeOK
  <2>. QED
    BY <2>1, <2>2, <2>3, ElsewhereUndisturbed
<1>7. CASE UNCHANGED vars
  <2>1. /\ UNCHANGED <<op, on, todo, failed, before, disturbed, meta, repo, home, container>>
        /\ \A r \in Requests : InFlight(r)' => pc'[r] = pc[r]
    BY <1>7 DEF vars, InFlight
  <2>. QED
    BY <2>1, ElsewhereUndisturbed
<1>8. ASSUME NEW p \in Projects, RemovalEnds(p) PROVE Undisturbed'
  <2>1. /\ UNCHANGED <<op, on, todo, failed, before, disturbed, meta, repo, home, pc>>
        /\ container[p] = "removing" /\ container'[p] = "missing"
        /\ \A q \in Projects \ {p} : container'[q] = container[q]
    BY <1>8 DEF RemovalEnds, storeVars, reqVars, history, TypeOK
  <2>2. \A x \in Requests : InFlight(x)' <=> InFlight(x)
    BY <2>1 DEF InFlight
  <2>3. ASSUME NEW r \in Requests, InFlight(r), r \notin disturbed
        PROVE  /\ Working(on[r])' = {r}
               /\ op'[r] \notin CreateOps => OnTheWay(r)'
               /\ DoneSoFar(r)'
    <3>1. /\ Working(on[r]) = {r} /\ DoneSoFar(r) /\ on[r] \in Projects
          /\ op[r] \notin CreateOps => OnTheWay(r)
          /\ op[r] \in CreateOps \union RunOps \union Scopes
      BY <2>3 DEF Undisturbed, TypeOK, Consistent
    <3>2. Working(on[r])' = {r}
      BY <2>1, <2>2, <2>3, StillAlone
    <3>3. op[r] \notin CreateOps => OnTheWay(r)'
      BY <2>1, <3>1 DEF OnTheWay, RunOps, Scopes
    <3>4. DoneSoFar(r)'
      <4>1. container[on[r]] = "missing" => container'[on[r]] = "missing"
        BY <2>1, <3>1
      <4>. QED
        BY <2>1, <3>1, <4>1 DEF DoneSoFar
    <3>. QED
      BY <2>1, <3>2, <3>3, <3>4
  <2>. QED
    BY <2>1, <2>2, <2>3 DEF Undisturbed
<1>. QED
  BY <1>1, <1>2, <1>3, <1>4, <1>5, <1>6, <1>7, <1>8 DEF Next, Request

\* Half-done, failed or abandoned, and whatever the other requests do, an operation
\* that has its project for itself touches nothing that its effect does not touch.
THEOREM AlwaysWithinScope == Spec => []WithinScope
<1>1. Init => TypeOK /\ Consistent /\ Undisturbed
  BY TypeInit, ConsistentInit, UndisturbedInit
<1>2. TypeOK /\ Consistent /\ Undisturbed /\ [Next]_vars
        => (TypeOK /\ Consistent /\ Undisturbed)'
  BY TypeStep, ConsistentStep, UndisturbedStep
<1>. QED
  BY <1>1, <1>2, OnTheWayInScope, PTL DEF Spec

-----------------------------------------------------------------------------
(* The sequential specification                                             *)

\* No request has logged its success before it answers; one that stops a container
\* does not go on to start it.
Unlogged ==
  \A r \in Requests :
    /\ pc[r] = "new" => logged[r] = {}
    /\ InFlight(r) => Success(op[r]) \notin logged[r]
    /\ pc[r] \in {"get", "start"} => op[r] # "stop"

\* The event that records each operation's success.
LEMMA Successes ==
  /\ \A o \in CreateOps : Success(o) = "ready"
  /\ Success("start") = "start" /\ Success("restart") = "start" /\ Success("stop") = "stop"
  /\ \A o \in Scopes : Success(o) = "delete"
BY DEF Success, CreateOps, Scopes

\* A call of a request logs its success if and only if it answers ok.
LEMMA ServeLogs ==
  ASSUME TypeOK, Consistent, Unlogged, NEW r \in Requests, Serve(r)
  PROVE  /\ InFlight(r)' => Success(op[r]) \notin logged'[r]
         /\ pc'[r] = "done" => (result'[r] = "ok" <=> Success(op[r]) \in logged'[r])
         /\ pc'[r] \in {"get", "start"} => op[r] # "stop"
<1>1. InFlight(r) /\ Success(op[r]) \notin logged[r]
  BY ServeShape DEF Shape, Unlogged
<1>2. /\ pc[r] \in CreateLabels => op[r] \in CreateOps
      /\ pc[r] \in RunLabels => op[r] \in RunOps
      /\ pc[r] \in DeleteLabels => op[r] \in Scopes
  BY <1>1 DEF Consistent, TypeOK, CreateLabels, RunLabels, DeleteLabels
<1>3. CASE \/ ListNetworks(r) \/ CreateNetwork(r) \/ BuildImage(r) \/ CreateContainer(r)
           \/ CleanUp(r) \/ CleanUpEnds(r) \/ Rollback(r)
  BY ZenonT(60), <1>1, <1>3 DEF ListNetworks, CreateNetwork, BuildImage, CreateContainer, CleanUp,
     CleanUpEnds,
                    Rollback, Goto, Return, TypeOK, InFlight
<1>4. CASE InspectImage(r)
  <2>1. op[r] \in CreateOps /\ pc'[r] \notin {"get", "start", "done"}
    BY <1>2, <1>4 DEF InspectImage, Goto, TypeOK, CreateLabels
  <2>2. logged'[r] \subseteq logged[r] \union {"image.build"}
    BY <1>4 DEF InspectImage, Emit, TypeOK
  <2>. QED
    BY <1>1, <2>1, <2>2, Successes
<1>5. CASE RunStart(r)
  <2>1. op[r] \in CreateOps /\ pc'[r] \notin {"get", "start"}
    BY <1>2, <1>5 DEF RunStart, Goto, Return, TypeOK, CreateLabels
  <2>2. CASE pc'[r] = "done"
    <3>1. Return(r, "ok") /\ Emit(r, {"ready"})
      BY <1>5, <2>2 DEF RunStart, Goto, TypeOK
    <3>2. result'[r] = "ok" /\ "ready" \in logged'[r]
      BY <3>1 DEF Return, Emit, TypeOK
    <3>. QED
      BY <2>1, <2>2, <3>2, Successes DEF InFlight
  <2>3. CASE pc'[r] # "done"
    BY <1>1, <1>5, <2>1, <2>3 DEF RunStart, Return, TypeOK
  <2>. QED
    BY <2>2, <2>3 DEF InFlight
<1>6. CASE Clone(r)
  <2>1. op[r] \in CreateOps /\ pc'[r] = "done"
    BY <1>2, <1>6 DEF Clone, Return, TypeOK, CreateLabels
  <2>2. \/ result'[r] = "ok" /\ "ready" \in logged'[r]
        \/ result'[r] = "error" /\ logged'[r] = logged[r] \union {"error"}
    BY <1>6 DEF Clone, Return, Emit, TypeOK
  <2>. QED
    BY <1>1, <2>1, <2>2, Successes DEF InFlight
<1>7. CASE StopContainer(r)
  <2>1. op[r] \in RunOps
    BY <1>2, <1>7 DEF StopContainer, RunLabels
  <2>2. \/ pc'[r] = "done" /\ result'[r] = "error" /\ logged' = logged
        \/ /\ logged'[r] = logged[r] \union {"stop"}
           /\ op[r] = "stop" => pc'[r] = "done" /\ result'[r] = "ok"
           /\ op[r] # "stop" => pc'[r] = "get"
    BY <1>7 DEF StopContainer, Return, Goto, Emit, TypeOK
  <2>. QED
    BY <1>1, <2>1, <2>2, Successes DEF InFlight, RunOps
<1>8. CASE GetAgain(r)
  BY <1>1, <1>8 DEF GetAgain, Return, Goto, TypeOK, Unlogged
<1>9. CASE StartContainer(r)
  <2>1. op[r] \in {"start", "restart"}
    BY <1>2, <1>9 DEF StartContainer, RunLabels, RunOps, Unlogged
  <2>2. pc'[r] = "done"
    BY <1>9 DEF StartContainer, Return, TypeOK
  <2>3. \/ result'[r] = "ok" /\ "start" \in logged'[r]
        \/ result'[r] = "error" /\ logged' = logged
    <3>1. \/ Return(r, "ok") /\ Emit(r, {"start"})
          \/ Return(r, "error") /\ UNCHANGED logged
      BY <1>9 DEF StartContainer
    <3>. QED
      BY <3>1 DEF Return, Emit, TypeOK
  <2>. QED
    BY <1>1, <2>1, <2>2, <2>3, Successes DEF InFlight
<1>10. CASE \/ DeleteStop(r) \/ DeleteContainer(r) \/ DeleteHome(r) \/ DeleteRepo(r)
            \/ DeleteMetadata(r)
  BY <1>1, <1>10 DEF DeleteStop, DeleteContainer, Goto, InFlight, TypeOK, DeleteHome,
     DeleteRepo,
                     DeleteMetadata, Turn
<1>12. CASE RemovalReturns(r)
  <2>1. pc'[r] = "delete" /\ logged' = logged
    BY <1>12 DEF RemovalReturns, Goto, TypeOK
  <2>. QED
    BY <1>1, <2>1
<1>11. CASE DeleteReturns(r)
  <2>1. op[r] \in Scopes /\ pc'[r] = "done"
    BY <1>2, <1>11 DEF DeleteReturns, Return, TypeOK, DeleteLabels
  <2>2. \/ result'[r] = "ok" /\ "delete" \in logged'[r]
        \/ result'[r] = "error" /\ logged' = logged
    BY <1>11 DEF DeleteReturns, Return, Emit, TypeOK
  <2>. QED
    BY <1>1, <2>1, <2>2, Successes DEF InFlight
<1>. QED
  BY <1>3, <1>4, <1>5, <1>6, <1>7, <1>8, <1>9, <1>10, <1>11, <1>12 DEF Serve

\* No step but a call of the server ends a request with an answer.
LEMMA OnlyServeAnswers ==
  ASSUME TypeOK, [Next]_vars, NEW r \in Requests, InFlight(r), ~Serve(r)
  PROVE  pc'[r] # "done" \/ result'[r] = "crashed"
<1>1. ASSUME NEW y \in Requests, Serve(y) PROVE pc'[r] = pc[r]
  BY <1>1, ServeShape DEF Shape
<1>2. ASSUME NEW y \in Requests, Request(y) PROVE pc'[r] = pc[r]
  BY <1>2, RequestShape DEF InFlight
<1>3. ASSUME NEW y \in Requests, ClientGone(y) PROVE pc'[r] = pc[r]
  BY <1>3 DEF ClientGone
<1>4. ASSUME NEW p \in Projects, ContainerExits(p) \/ RemovalEnds(p) PROVE pc'[r] = pc[r]
  BY <1>4 DEF ContainerExits, RemovalEnds, reqVars
<1>5. CASE Crash
  BY <1>5 DEF Crash
<1>6. CASE UNCHANGED vars
  BY <1>6 DEF vars, InFlight
<1>. QED
  BY <1>1, <1>2, <1>3, <1>4, <1>5, <1>6 DEF Next, InFlight

\* No success is logged at the start, as nothing is.
LEMMA UnloggedInit == Init => Unlogged
BY DEF Init, Unlogged, InFlight

\* Every step keeps successes out of the logs of requests that have not answered.
LEMMA UnloggedStep ==
  ASSUME TypeOK, Consistent, Unlogged, [Next]_vars
  PROVE  Unlogged'
<1>1. ASSUME NEW y \in Requests, Serve(y) PROVE Unlogged'
  <2>1. Shape(y)
    BY <1>1, ServeShape
  <2>2. pc'[y] # "new" /\ op' = op
    BY <2>1 DEF Shape, GoesOn, CreateLabels, RunLabels, DeleteLabels
  <2>3. /\ InFlight(y)' => Success(op[y]) \notin logged'[y]
        /\ pc'[y] \in {"get", "start"} => op[y] # "stop"
    BY <1>1, ServeLogs
  <2>4. \A r \in Requests \ {y} : pc'[r] = pc[r] /\ logged'[r] = logged[r]
    BY <2>1 DEF Shape
  <2>. QED
    BY <2>2, <2>3, <2>4 DEF Unlogged, InFlight
<1>2. ASSUME NEW y \in Requests, Request(y) PROVE Unlogged'
  <2>1. \A r \in Requests \ {y} : pc'[r] = pc[r] /\ logged'[r] = logged[r] /\ op'[r] = op[r]
    BY <1>2, RequestShape
  <2>2. pc'[y] # "new"
    BY <1>2, RequestShape
  <2>3. ASSUME NEW o \in Ops, NEW p \in Projects, AcceptCreate(y, o, p)
        PROVE  /\ Success(op'[y]) \notin logged'[y]
               /\ pc'[y] \in {"get", "start"} => op'[y] # "stop"
    <3>1. logged'[y] = {"create"} /\ op'[y] \in CreateOps
      BY <2>3 DEF AcceptCreate, Arrive, Emit, TypeOK, Unlogged
    <3>. QED
      BY <3>1, Successes DEF CreateOps
  <2>4. ASSUME NEW o \in Ops, NEW p \in Projects, AcceptOp(y, o, p)
        PROVE  /\ Success(op'[y]) \notin logged'[y]
               /\ pc'[y] \in {"get", "start"} => op'[y] # "stop"
    BY <2>4 DEF AcceptOp, Arrive, Goto, TypeOK, Unlogged
  <2>5. ASSUME NEW o \in Ops, NEW p \in Projects, NoSuchProject(y, o, p)
        PROVE  pc'[y] = "done"
    BY <2>5 DEF NoSuchProject, Return, TypeOK
  <2>6. RefuseRequest(y) => pc'[y] = "done"
    BY DEF RefuseRequest, Return, TypeOK
  <2>7. /\ InFlight(y)' => Success(op'[y]) \notin logged'[y]
        /\ pc'[y] \in {"get", "start"} => op'[y] # "stop"
    BY <1>2, <2>3, <2>4, <2>5, <2>6 DEF Request, InFlight
  <2>. QED
    BY <2>1, <2>2, <2>7 DEF Unlogged, InFlight
<1>3. CASE \/ \E r \in Requests : ClientGone(r)
           \/ \E p \in Projects : ContainerExits(p) \/ RemovalEnds(p)
           \/ UNCHANGED vars
  <2>1. UNCHANGED <<pc, op, logged>>
    BY <1>3 DEF ClientGone, ContainerExits, RemovalEnds, reqVars, vars
  <2>. QED
    BY <2>1 DEF Unlogged, InFlight
<1>4. CASE Crash
  BY <1>4 DEF Crash, Unlogged, InFlight
<1>. QED
  BY <1>1, <1>2, <1>3, <1>4 DEF Next

\* An operation that answers ok and had its project for itself has had its effect.
LEMMA EffectReached ==
  ASSUME TypeOK, Consistent, Undisturbed, Unlogged, NEW r \in Requests, Serve(r),
         r \notin disturbed, pc'[r] = "done", result'[r] = "ok"
  PROVE  Alike(Snapshot(on[r])', Effect(op[r], before[r]))
<1>. DEFINE b == before[r]
            e == Effect(op[r], b)
<1>1. /\ InFlight(r) /\ on'[r] = on[r] /\ on[r] \in Projects
      /\ op[r] \in CreateOps \union RunOps \union Scopes
      /\ b \in States /\ DoneSoFar(r) /\ (op[r] \notin CreateOps => OnTheWay(r))
  BY ServeShape DEF Shape, TypeOK, Consistent, Undisturbed
<1>2. SUFFICES /\ container'[on[r]] = e.ctr
               /\ (on[r] \in meta' <=> e.meta)
               /\ (on[r] \in repo' <=> e.repo)
               /\ (on[r] \in home' <=> e.home)
  BY <1>1 DEF Alike, Snapshot
<1>3. CASE op[r] \in CreateOps
  <2>1. pc[r] \in {"run", "clone"}
    BY <1>3 DEF Serve, ListNetworks, CreateNetwork, InspectImage, BuildImage, CreateContainer,
       CleanUp, CleanUpEnds, Rollback, StopContainer, GetAgain, StartContainer, DeleteStop,
       DeleteContainer, RemovalReturns,
       DeleteHome, DeleteRepo, DeleteMetadata, DeleteReturns, Turn, Goto, Return, TypeOK,
       RunStart, Clone, Consistent, CreateOps, RunOps, Scopes
  <2>2. e = [meta |-> TRUE, ctr |-> "running", repo |-> TRUE, home |-> TRUE]
    BY <1>3 DEF Effect, CreateOps
  <2>3. e.meta /\ e.repo /\ e.home /\ e.ctr = "running"
    BY <2>2
  <2>4. RunStart(r) \/ Clone(r)
    BY <2>1 DEF Serve, ListNetworks, CreateNetwork, InspectImage, BuildImage, CreateContainer,
       CleanUp, CleanUpEnds, Rollback, StopContainer, GetAgain, StartContainer, DeleteStop,
       DeleteContainer, RemovalReturns,
       DeleteHome, DeleteRepo, DeleteMetadata, DeleteReturns, Turn
  <2>5. UNCHANGED <<meta, repo, home>> /\ container'[on[r]] = "running"
    <3>1. CASE RunStart(r)
      <4>1. StartAnswer(r, TRUE) /\ UNCHANGED <<meta, repo, home>>
        BY <3>1 DEF RunStart, Goto, Return, TypeOK
      <4>2. container'[on[r]] = "running"
        BY <1>1, <4>1 DEF StartAnswer, TypeOK
      <4>. QED
        BY <4>1, <4>2
    <3>2. CASE Clone(r)
      BY <1>1, <3>2 DEF Clone, Return, engineVars, TypeOK
    <3>. QED
      BY <2>4, <3>1, <3>2
  <2>6. on[r] \in meta /\ on[r] \in repo /\ on[r] \in home
    BY <1>1, <1>3, <2>1 DEF DoneSoFar
  <2>. QED
    BY <2>3, <2>5, <2>6
<1>4. CASE op[r] \in RunOps
  <2>1. /\ (e.meta <=> b.meta) /\ (e.repo <=> b.repo) /\ (e.home <=> b.home)
        /\ op[r] \in {"start", "restart"} => e.ctr = "running"
        /\ op[r] = "stop" => e.ctr = "stopped"
    BY <1>1, <1>4, Effects DEF RunOps
  <2>2. StopContainer(r) \/ StartContainer(r) \/ GetAgain(r)
    BY <1>1, <1>4 DEF Consistent, Serve, ListNetworks, CreateNetwork, InspectImage, BuildImage,
       CreateContainer, RunStart, CleanUp, CleanUpEnds, Rollback, Clone, DeleteStop,
       DeleteContainer, RemovalReturns,
       DeleteHome, DeleteRepo, DeleteMetadata, DeleteReturns, Turn
  <2>3. UNCHANGED <<meta, repo, home>>
    BY <2>2 DEF StopContainer, StartContainer, GetAgain, engineVars
  <2>4. (on[r] \in meta <=> b.meta) /\ (on[r] \in repo <=> b.repo) /\ (on[r] \in home <=> b.home)
    BY <1>1, <1>4 DEF OnTheWay, RunOps, CreateOps
  <2>5. CASE StopContainer(r)
    <3>1. op[r] = "stop"
      BY <2>5 DEF StopContainer, Return, Goto, TypeOK
    <3>3. container[on[r]] \in {"stopped", "running"}
      <4>1. container[on[r]] # "removing"
        BY <1>1, <3>1 DEF OnTheWay, CreateOps
      <4>2. container[on[r]] # "missing"
        BY <2>5 DEF StopContainer, Return, Goto, TypeOK
      <4>. QED
        BY <1>1, <4>1, <4>2 DEF TypeOK
    <3>2. container'[on[r]] = "stopped"
      BY <1>1, <2>5, <3>3 DEF StopContainer, HaltContainer, Return, Goto, TypeOK
    <3>. QED
      BY <2>1, <2>3, <2>4, <3>1, <3>2
  <2>6. CASE StartContainer(r)
    <3>1. op[r] # "stop"
      BY <2>6 DEF StartContainer, Unlogged
    <3>2. container'[on[r]] = "running"
      BY <1>1, <2>6 DEF StartContainer, StartAnswer, Return, TypeOK
    <3>. QED
      BY <1>4, <2>1, <2>3, <2>4, <3>1, <3>2 DEF RunOps
  <2>7. ~GetAgain(r)
    BY DEF GetAgain, Goto, Return, TypeOK
  <2>. QED
    BY <2>2, <2>5, <2>6, <2>7
<1>5. CASE op[r] \in Scopes
  <2>9. pc[r] \in DeleteLabels
    BY <1>1, <1>5 DEF Consistent, DeleteLabels
  <2>10. ~DeleteContainer(r) /\ ~RemovalReturns(r)
    BY DEF DeleteContainer, RemovalReturns, Turn, Goto, TypeOK
  <2>11. ~(DeleteStop(r) \/ DeleteHome(r) \/ DeleteRepo(r) \/ DeleteMetadata(r))
    BY DEF DeleteStop, DeleteHome, DeleteRepo, DeleteMetadata, Turn
  <2>1. DeleteReturns(r)
    BY <2>9, <2>10, <2>11 DEF DeleteLabels, Serve, ListNetworks, CreateNetwork, InspectImage,
       BuildImage, CreateContainer, RunStart, CleanUp, CleanUpEnds, Rollback, Clone,
       StopContainer, StartContainer, GetAgain
  <2>2. /\ pc[r] = "delete" /\ todo[r] = {} /\ r \notin failed
        /\ UNCHANGED <<meta, repo, home, container>>
    BY <2>1 DEF DeleteReturns, Return, engineVars, TypeOK
  <2>3. /\ "remove" \in Takes(op[r]) => container[on[r]] = "missing"
        /\ "home" \in Takes(op[r]) => on[r] \notin home
        /\ "repo" \in Takes(op[r]) => on[r] \notin repo
        /\ "meta" \in Takes(op[r]) => on[r] \notin meta
    BY <1>1, <2>2 DEF DoneSoFar, DeleteLabels
  <2>4. /\ op[r] \in {"container", "repo", "all"} => container[on[r]] = "missing"
        /\ op[r] \in {"container", "all"} => on[r] \notin home
        /\ op[r] \in {"repo", "all"} => on[r] \notin repo
        /\ op[r] \in {"metadata", "all"} => on[r] \notin meta
    BY <2>3 DEF Takes
  <2>5. OnTheWay(r)
    BY <1>1, <1>5 DEF Scopes, CreateOps
  <2>6. /\ op[r] \notin {"metadata", "all"} => (e.meta <=> b.meta)
        /\ op[r] \notin {"repo", "all"} => (e.repo <=> b.repo)
        /\ op[r] \notin {"container", "all"} => (e.home <=> b.home)
        /\ op[r] \in {"metadata", "all"} => ~e.meta
        /\ op[r] \in {"repo", "all"} => ~e.repo
        /\ op[r] \in {"container", "all"} => ~e.home
        /\ op[r] = "metadata" => e.ctr = b.ctr
        /\ op[r] \in {"container", "repo", "all"} => e.ctr = "missing"
    BY <1>1, <1>5, Effects
  <2>7. container[on[r]] = e.ctr
    BY <1>5, <2>4, <2>5, <2>6 DEF OnTheWay, Scopes
  <2>8. /\ on[r] \in meta <=> e.meta
        /\ on[r] \in repo <=> e.repo
        /\ on[r] \in home <=> e.home
    BY <2>4, <2>5, <2>6 DEF OnTheWay
  <2>. QED
    BY <2>2, <2>7, <2>8
<1>. QED
  BY <1>1, <1>3, <1>4, <1>5

\* Whatever the other requests do and whatever fails: an operation that answers ok
\* and had its project for itself has had exactly its sequential effect, and its
\* success is in the history if and only if it answered ok.
THEOREM OneAtATime == Spec => SequentialEffect
<1>. DEFINE Ends == \A r \in Requests :
              InFlight(r) /\ pc'[r] = "done" =>
                /\ result'[r] = "ok" /\ r \notin disturbed =>
                     Alike(Snapshot(on[r])', Effect(op[r], before[r]))
                /\ result'[r] # "crashed" =>
                     (result'[r] = "ok" <=> Success(op[r]) \in logged'[r])
<1>1. ASSUME TypeOK, Consistent, Undisturbed, Unlogged, [Next]_vars
      PROVE  [Ends]_vars
  <2>1. ASSUME NEW r \in Requests, InFlight(r), pc'[r] = "done", result'[r] # "crashed"
        PROVE  Serve(r)
    BY <1>1, <2>1, OnlyServeAnswers
  <2>2. ASSUME NEW r \in Requests, InFlight(r), pc'[r] = "done", result'[r] = "ok",
               r \notin disturbed
        PROVE  Alike(Snapshot(on[r])', Effect(op[r], before[r]))
    BY <1>1, <2>1, <2>2, EffectReached
  <2>3. ASSUME NEW r \in Requests, InFlight(r), pc'[r] = "done", result'[r] # "crashed"
        PROVE  result'[r] = "ok" <=> Success(op[r]) \in logged'[r]
    BY <1>1, <2>1, <2>3, ServeLogs
  <2>. QED
    BY <2>2, <2>3
<1>2. Init => TypeOK /\ Consistent /\ Undisturbed /\ Unlogged
  BY TypeInit, ConsistentInit, UndisturbedInit, UnloggedInit
<1>3. TypeOK /\ Consistent /\ Undisturbed /\ Unlogged /\ [Next]_vars
        => (TypeOK /\ Consistent /\ Undisturbed /\ Unlogged)'
  BY TypeStep, ConsistentStep, UndisturbedStep, UnloggedStep
<1>. QED
  BY <1>1, <1>2, <1>3, PTL DEF Spec, SequentialEffect

-----------------------------------------------------------------------------
(* Creates that failed                                                      *)

\* A request has no answer before it is done.
Unanswered == \A r \in Requests : pc[r] # "done" => result[r] = "none"

\* A call that is not the last gives no answer.
LEMMA ServeUnanswered ==
  ASSUME TypeOK, NEW r \in Requests, Serve(r), pc'[r] # "done"
  PROVE  result'[r] = result[r]
<1>1. ASSUME NEW res, Return(r, res) PROVE FALSE
  BY <1>1 DEF Return, TypeOK
<1>. QED
  BY <1>1 DEF Serve, ListNetworks, CreateNetwork, InspectImage, BuildImage, CreateContainer,
       RunStart, CleanUp, CleanUpEnds, Rollback, Clone, StopContainer, GetAgain,
       StartContainer, DeleteStop,
       DeleteContainer, RemovalReturns, DeleteHome, DeleteRepo, DeleteMetadata,
       DeleteReturns, Turn, Goto

\* Every step gives answers only to requests that it ends.
LEMMA UnansweredStep ==
  ASSUME TypeOK, Unanswered, [Next]_vars
  PROVE  Unanswered'
<1>1. ASSUME NEW y \in Requests, Serve(y) PROVE Unanswered'
  <2>1. /\ InFlight(y)
        /\ \A x \in Requests \ {y} : pc'[x] = pc[x] /\ result'[x] = result[x]
    BY <1>1, ServeShape DEF Shape
  <2>2. pc'[y] # "done" => result'[y] = result[y]
    BY <1>1, ServeUnanswered
  <2>. QED
    BY <2>1, <2>2 DEF Unanswered, InFlight
<1>2. ASSUME NEW y \in Requests, Request(y) PROVE Unanswered'
  <2>1. ASSUME NEW res, Return(y, res) PROVE Unanswered'
    BY <2>1 DEF Return, TypeOK, Unanswered
  <2>2. ASSUME NEW label, Goto(y, label), pc[y] = "new" PROVE Unanswered'
    BY <2>2 DEF Goto, TypeOK, Unanswered
  <2>3. CASE RefuseRequest(y)
    BY <2>1, <2>3 DEF RefuseRequest
  <2>4. ASSUME NEW o \in Ops, NEW p \in Projects,
               AcceptCreate(y, o, p) \/ NoSuchProject(y, o, p) \/ AcceptOp(y, o, p)
        PROVE  Unanswered'
    BY <2>1, <2>2, <2>4 DEF AcceptCreate, NoSuchProject, AcceptOp, Arrive
  <2>. QED
    BY <1>2, <2>3, <2>4 DEF Request
<1>3. CASE Crash
  BY <1>3 DEF Crash, Unanswered, InFlight
<1>4. CASE \/ \E r \in Requests : ClientGone(r)
           \/ \E p \in Projects : ContainerExits(p) \/ RemovalEnds(p)
           \/ UNCHANGED vars
  BY <1>4 DEF ClientGone, ContainerExits, RemovalEnds, reqVars, vars, Unanswered
<1>. QED
  BY <1>1, <1>2, <1>3, <1>4 DEF Next

\* A step that ends a create with an error has removed its metadata, unless the
\* clone failed.
LEMMA ServeForgets ==
  ASSUME TypeOK, Consistent, ~DiskFails, NEW r \in Requests, Serve(r),
         op[r] \in CreateOps, pc'[r] = "done", result'[r] = "error"
  PROVE  on[r] \notin meta' \/ "error" \in logged'[r]
<1>1. InFlight(r)
  BY ServeShape DEF Shape
<1>2. pc[r] \notin RunLabels \union DeleteLabels
  BY <1>1 DEF Consistent, RunLabels, DeleteLabels, CreateOps, RunOps, Scopes
<1>3. CASE Rollback(r)
  BY <1>3 DEF Rollback, StoreDelete
<1>4. CASE Clone(r)
  BY <1>4 DEF Clone, Return, Emit, TypeOK
<1>5. CASE RunStart(r)
  BY <1>5 DEF RunStart, Goto, Return, TypeOK
<1>6. CASE \/ ListNetworks(r) \/ CreateNetwork(r) \/ InspectImage(r) \/ BuildImage(r)
           \/ CreateContainer(r) \/ CleanUp(r) \/ CleanUpEnds(r)
  BY <1>6 DEF ListNetworks, CreateNetwork, InspectImage, BuildImage, CreateContainer, CleanUp,
              CleanUpEnds, Goto, TypeOK
<1>. QED
  BY <1>2, <1>3, <1>4, <1>5, <1>6 DEF Serve, RunLabels, DeleteLabels, StopContainer, GetAgain,
     StartContainer, DeleteStop, DeleteContainer, RemovalReturns, DeleteHome, DeleteRepo,
     DeleteMetadata,
     DeleteReturns, Turn

\* What was forgotten stays forgotten: ids are not drawn twice.
LEMMA ForgottenStep ==
  ASSUME TypeOK, Consistent, Unanswered, FailedCreateForgotten, ~DiskFails, [Next]_vars
  PROVE  FailedCreateForgotten'
<1>1. ASSUME NEW r \in Requests, op[r] \in CreateOps, result[r] = "error",
             "error" \notin logged[r]
      PROVE  pc[r] = "done" /\ (on[r] \in Projects => on[r] \in used) /\ on[r] \notin meta
  <2>1. pc[r] = "done"
    BY <1>1 DEF Unanswered
  <2>2. on[r] \in Projects => on[r] \in used
    BY <2>1 DEF Consistent
  <2>. QED
    BY <1>1, <2>1, <2>2 DEF FailedCreateForgotten
<1>2. ASSUME NEW y \in Requests, Serve(y) PROVE FailedCreateForgotten'
  <2>1. Shape(y)
    BY <1>2, ServeShape
  <2>2. ASSUME NEW r \in Requests, op'[r] \in CreateOps, result'[r] = "error",
               "error" \notin logged'[r]
        PROVE  on'[r] \notin meta'
    <3>1. op'[r] = op[r] /\ on'[r] = on[r] /\ meta' \subseteq meta
      BY <2>1 DEF Shape
    <3>2. CASE r = y
      <4>1. pc'[y] = "done"
        <5>1. pc'[y] # "done" => result'[y] = "none"
          BY <1>2, <2>1, ServeUnanswered DEF Shape, InFlight, Unanswered
        <5>. QED
          BY <2>2, <3>2, <5>1
      <4>. QED
        BY <1>2, <2>2, <3>1, <3>2, <4>1, ServeForgets
    <3>3. CASE r # y
      <4>1. result'[r] = result[r] /\ logged'[r] = logged[r]
        BY <2>1, <3>3 DEF Shape
      <4>. QED
        BY <1>1, <2>2, <3>1, <4>1
    <3>. QED
      BY <3>2, <3>3
  <2>. QED
    BY <2>2 DEF FailedCreateForgotten
<1>3. ASSUME NEW y \in Requests, Request(y) PROVE FailedCreateForgotten'
  <2>1. /\ \A r \in Requests \ {y} : /\ op'[r] = op[r] /\ on'[r] = on[r]
                                    /\ result'[r] = result[r] /\ logged'[r] = logged[r]
        /\ result'[y] # "error"
    <3>1. pc[y] = "new"
      BY <1>3, RequestShape
    <3>2. result[y] = "none"
      BY <3>1 DEF Unanswered
    <3>. QED
      BY <1>3, <3>2, RequestShape
  <2>2. \A q \in used : q \in meta' => q \in meta
    BY <1>3 DEF Request, RefuseRequest, AcceptCreate, NoSuchProject, AcceptOp, storeVars
  <2>3. meta' \subseteq Projects
    BY TypeStep DEF TypeOK
  <2>4. ASSUME NEW r \in Requests, op'[r] \in CreateOps, result'[r] = "error",
               "error" \notin logged'[r]
        PROVE  on'[r] \notin meta'
    <3>1. r # y
      BY <2>1, <2>4
    <3>. QED
      BY <1>1, <2>1, <2>2, <2>3, <2>4, <3>1
  <2>. QED
    BY <2>4 DEF FailedCreateForgotten
<1>4. CASE Crash
  <2>1. /\ UNCHANGED <<meta, op, on, logged>>
        /\ \A r \in Requests : result'[r] \in {result[r], "crashed"}
    BY <1>4 DEF Crash, storeVars, TypeOK
  <2>. QED
    BY <2>1 DEF FailedCreateForgotten
<1>5. CASE \/ \E r \in Requests : ClientGone(r)
           \/ \E p \in Projects : ContainerExits(p) \/ RemovalEnds(p)
           \/ UNCHANGED vars
  BY <1>5 DEF ClientGone, ContainerExits, RemovalEnds, reqVars, storeVars, vars,
     FailedCreateForgotten
<1>. QED
  BY <1>2, <1>3, <1>4, <1>5 DEF Next

\* Where the disk does not fail, whatever the engine and the clients do: the project
\* of a create that failed before its clone is not in the list, then or later.
THEOREM FailedCreatesForgotten ==
  ASSUME ~DiskFails
  PROVE  Spec => []FailedCreateForgotten
<1>1. Init => TypeOK /\ Consistent /\ Unanswered /\ FailedCreateForgotten
  <2>1. Init => Unanswered /\ FailedCreateForgotten
    BY DEF Init, Unanswered, FailedCreateForgotten
  <2>. QED
    BY <2>1, TypeInit, ConsistentInit
<1>2. TypeOK /\ Consistent /\ Unanswered /\ FailedCreateForgotten /\ [Next]_vars
        => (TypeOK /\ Consistent /\ Unanswered /\ FailedCreateForgotten)'
  BY TypeStep, ConsistentStep, UnansweredStep, ForgottenStep
<1>. QED
  BY <1>1, <1>2, PTL DEF Spec

-----------------------------------------------------------------------------
(* Where nothing fails but the server, what is left behind shows, and not all *)
(* the deletes that overlap fail: NoOrphans and DeletesPrevail, for every     *)
(* number of projects and requests, whatever order their calls run in.        *)

\* Start, Stop, Restart and Delete found their project in the store.
Found == \A r \in Requests : InFlight(r) /\ op[r] \notin CreateOps => before[r].meta

\* What the orphan invariant relies on.
OrphanInv ==
  /\ Quiet /\ Found /\ CreateAlone /\ DeleteProgress /\ NothingLeft
  /\ RemovalOwned /\ DeletesPrevail

\* The deployment of these theorems: the engine, the disk and the clients are
\* there for every call.
Calm == MaxFaults = 0 /\ MaxGone = 0

-----------------------------------------------------------------------------
(* What calm means for a call                                               *)

\* Every call of a calm behaviour ends well.
LEMMA CallsEndWell ==
  ASSUME Calm, Quiet, NEW r, NEW ans, Fault(ans) \/ BareCall(ans) \/ CtxCall(r, ans)
  PROVE  ans = "ok" /\ faults' = faults
BY DEF Calm, Quiet, Fault, BareCall, CtxCall

\* So do the two calls that are about a removal.
LEMMA RemovalsEndWell ==
  ASSUME Calm, Quiet, NEW r
  PROVE  /\ ~CtxCall(r, "refused")
         /\ \A ok \in BOOLEAN : RemovalAnswer(r, ok) =>
              ok /\ container[on[r]] = "missing" /\ faults' = faults
         /\ \A outcome : RemoveContainer(r, outcome) =>
              /\ faults' = faults
              /\ outcome = "error" => container[on[r]] = "removing"
<1>1. ~CtxCall(r, "refused")
  BY CallsEndWell
<1>2. CtxCall(r, "ok") => faults' = faults
  BY CallsEndWell
<1>. QED
  BY <1>1, <1>2 DEF RemovalAnswer, RemoveContainer

\* No step of a request makes a calm behaviour less calm.
LEMMA QuietServe ==
  ASSUME Calm, Quiet, NEW r \in Requests, Serve(r)
  PROVE  Quiet'
<1>1. gone' = gone
  BY DEF Serve, Fixed, Turn, ListNetworks, CreateNetwork, InspectImage, BuildImage,
         CreateContainer, RunStart, CleanUp, CleanUpEnds, Rollback, Clone, StopContainer,
         GetAgain, StartContainer, DeleteStop, DeleteContainer, RemovalReturns, DeleteHome,
         DeleteRepo, DeleteMetadata, DeleteReturns
<1>2. ASSUME NEW ok \in BOOLEAN, StartAnswer(r, ok) PROVE faults' = faults
  BY <1>2, CallsEndWell DEF StartAnswer
<1>3. ASSUME NEW p, NEW ok \in BOOLEAN, StoreDelete(p, ok) PROVE faults' = faults
  BY <1>3, CallsEndWell DEF StoreDelete
<1>4. CleanUp(r) \/ CleanUpEnds(r) \/ DeleteContainer(r) \/ RemovalReturns(r)
        => faults' = faults
  BY RemovalsEndWell DEF CleanUp, CleanUpEnds, DeleteContainer, RemovalReturns
<1>5. faults' = faults
  BY <1>2, <1>3, <1>4, CallsEndWell
     DEF Serve, ListNetworks, CreateNetwork, InspectImage, BuildImage, CreateContainer,
         RunStart, Rollback, Clone, StopContainer, GetAgain, StartContainer, DeleteStop,
         DeleteHome, DeleteRepo, DeleteMetadata, DeleteReturns
<1>. QED
  BY <1>1, <1>5 DEF Quiet

\* Only a create adds to what the engine keeps of a project.
LEMMA OthersOnlyTake ==
  ASSUME TypeOK, NEW r \in Requests, Serve(r), pc[r] \notin CreateLabels
  PROVE  /\ container[on[r]] = "missing" => container'[on[r]] = "missing"
         /\ home' \subseteq home /\ repo' \subseteq repo
<1>. USE DEF CreateLabels
<1>1. pc[r] \in {"stop", "get", "start", "delete", "await removal"}
  BY DEF Serve, ListNetworks, CreateNetwork, InspectImage, BuildImage,
         CreateContainer, RunStart, CleanUp, CleanUpEnds, Rollback, Clone, StopContainer,
         GetAgain, StartContainer, DeleteStop, DeleteContainer, RemovalReturns, DeleteHome,
         DeleteRepo, DeleteMetadata, DeleteReturns, Turn
<1>2. CASE StopContainer(r)
  BY <1>2 DEF StopContainer, HaltContainer
<1>3. CASE GetAgain(r)
  BY <1>3 DEF GetAgain, engineVars
<1>4. CASE StartContainer(r)
  BY <1>4 DEF StartContainer, StartAnswer
<1>5. CASE DeleteStop(r)
  BY <1>5 DEF DeleteStop, HaltContainer
<1>6. CASE DeleteContainer(r)
  BY <1>6 DEF DeleteContainer, RemoveContainer
<1>7. CASE DeleteHome(r)
  BY <1>7 DEF DeleteHome, RemoveVolume
<1>8. CASE DeleteRepo(r)
  BY <1>8 DEF DeleteRepo, RemoveVolume
<1>9. CASE DeleteMetadata(r)
  BY <1>9 DEF DeleteMetadata
<1>10. CASE DeleteReturns(r)
  BY <1>10 DEF DeleteReturns, engineVars
<1>11. CASE RemovalReturns(r)
  BY <1>11 DEF RemovalReturns, engineVars
<1>. QED
  BY <1>1, <1>2, <1>3, <1>4, <1>5, <1>6, <1>7, <1>8, <1>9, <1>10, <1>11
     DEF Serve, ListNetworks, CreateNetwork, InspectImage, BuildImage, CreateContainer,
         RunStart, CleanUp, CleanUpEnds, Rollback, Clone

-----------------------------------------------------------------------------
(* What excuses stays true                                                  *)

\* A request keeps what it asked for, and what was noted of it.
LEMMA StepKeeps ==
  ASSUME TypeOK, Consistent, Undisturbed, [Next]_vars
  PROVE  /\ failed \subseteq failed' /\ disturbed \subseteq disturbed'
         /\ \A x \in Requests : on[x] \in Projects =>
              /\ op'[x] = op[x] /\ on'[x] = on[x] /\ before'[x] = before[x]
              /\ todo'[x] \subseteq todo[x]
<1>1. ASSUME NEW y \in Requests, Serve(y)
      PROVE  /\ failed \subseteq failed' /\ UNCHANGED <<disturbed, op, on, before>>
             /\ \A x \in Requests : todo'[x] \subseteq todo[x]
  <2>1. Shape(y) /\ UNCHANGED <<disturbed, before>>
    BY <1>1, ServeShape, ServeHistory
  <2>2. failed \subseteq failed'
    BY <1>1 DEF Serve, Fixed, ListNetworks, CreateNetwork, InspectImage, BuildImage,
         CreateContainer, RunStart, CleanUp, CleanUpEnds, Rollback, Clone, StopContainer,
         GetAgain, StartContainer, DeleteStop, DeleteContainer, RemovalReturns, DeleteHome,
         DeleteRepo, DeleteMetadata, DeleteReturns, Note
  <2>. QED
    BY <2>1, <2>2 DEF Shape
<1>2. ASSUME NEW y \in Requests, Request(y)
      PROVE  /\ failed' = failed /\ disturbed \subseteq disturbed' /\ on[y] \notin Projects
             /\ \A x \in Requests \ {y} : /\ op'[x] = op[x] /\ on'[x] = on[x]
                                          /\ before'[x] = before[x] /\ todo'[x] = todo[x]
  <2>1. pc[y] = "new" /\ failed' = failed
    BY <1>2, RequestShape
  <2>2. on[y] \notin Projects
    BY <2>1, ConstantsAssumption DEF Consistent
  <2>3. \A x \in Requests \ {y} : op'[x] = op[x] /\ on'[x] = on[x] /\ todo'[x] = todo[x]
    BY <1>2, RequestShape
  <2>4. disturbed \subseteq disturbed' /\ \A x \in Requests \ {y} : before'[x] = before[x]
    <3>1. CASE RefuseRequest(y)
      BY <3>1 DEF RefuseRequest, history
    <3>2. ASSUME NEW o \in Ops, NEW p \in Projects, Arrive(y, o, p)
          PROVE  disturbed \subseteq disturbed' /\ \A x \in Requests \ {y} : before'[x] = before[x]
      BY <3>2 DEF Arrive, Undisturbed
    <3>. QED
      BY <1>2, <3>1, <3>2 DEF Request, AcceptCreate, NoSuchProject, AcceptOp
  <2>. QED
    BY <2>1, <2>2, <2>3, <2>4
<1>3. ASSUME NEW y \in Requests, ClientGone(y)
      PROVE  UNCHANGED <<failed, disturbed, op, on, before, todo>>
  BY <1>3 DEF ClientGone, history
<1>4. CASE Crash
  BY <1>4 DEF Crash, history
<1>5. ASSUME NEW p \in Projects, ContainerExits(p) \/ RemovalEnds(p)
      PROVE  UNCHANGED <<failed, op, on, before, todo>> /\ disturbed \subseteq disturbed'
  BY <1>5 DEF ContainerExits, RemovalEnds, reqVars, history
<1>6. CASE UNCHANGED vars
  BY <1>6 DEF vars
<1>. QED
  BY <1>1, <1>2, <1>3, <1>4, <1>5, <1>6 DEF Next

\* So what excuses a project that was left behind, or a removal made for it, stays.
LEMMA ExcusesStay ==
  ASSUME TypeOK, Consistent, Undisturbed, [Next]_vars, NEW p \in Projects
  PROVE  /\ Overtaken(p) => Overtaken(p)'
         /\ \A x \in Requests : on[x] = p /\ MayLeave(x) => on'[x] = p /\ MayLeave(x)'
         /\ \A q \in Requests : Removed(q, p) => Removed(q, p)'
<1>1. /\ failed \subseteq failed' /\ disturbed \subseteq disturbed'
      /\ disturbed \subseteq Requests
      /\ \A x \in Requests : on[x] = p =>
           /\ op'[x] = op[x] /\ on'[x] = on[x] /\ before'[x] = before[x]
           /\ todo'[x] \subseteq todo[x]
  BY StepKeeps DEF TypeOK
<1>2. Overtaken(p) => Overtaken(p)'
  BY <1>1 DEF Overtaken
<1>3. \A x \in Requests : on[x] = p /\ MayLeave(x) => on'[x] = p /\ MayLeave(x)'
  BY <1>1 DEF MayLeave
<1>4. \A q \in Requests : Removed(q, p) => Removed(q, p)'
  BY <1>1 DEF Removed
<1>. QED
  BY <1>2, <1>3, <1>4

-----------------------------------------------------------------------------
(* A step of a request                                                      *)

\* Requests in flight after a step of r were in flight before, for the same project.
LEMMA ServeWorking ==
  ASSUME TypeOK, NEW r \in Requests, Shape(r)
  PROVE  \A p \in Projects : Working(p)' \subseteq Working(p)
BY DEF Shape, Working, InFlight

\* The calls of a request that is not a create are not those of a create.
LEMMA NotCreating ==
  ASSUME TypeOK, Consistent, NEW r \in Requests, InFlight(r), op[r] \notin CreateOps
  PROVE  pc[r] \notin CreateLabels
<1>1. op[r] \in RunOps \union Scopes
  BY DEF TypeOK, Consistent
<1>2. pc[r] \in {"start", "stop", "get", "delete", "await removal"}
  BY <1>1 DEF Consistent
<1>. QED
  BY <1>2 DEF CreateLabels

\* Why a calm delete fails: its call for the removal of the container comes while the
\* container is being removed already, or the create was overtaken.
LEMMA WhatFails ==
  ASSUME Calm, TypeOK, Consistent, Undisturbed, OrphanInv, NEW r \in Requests, Serve(r),
         r \notin failed, r \in failed'
  PROVE  /\ r \in disturbed /\ on[r] \in Projects /\ "remove" \notin todo'[r]
         /\ Overtaken(on[r]) \/ ("remove" \in todo[r] /\ container[on[r]] = "removing")
<1>1. /\ InFlight(r) /\ on[r] \in Projects /\ Quiet
      /\ r \notin disturbed => DoneSoFar(r)
  BY ServeShape DEF Shape, TypeOK, OrphanInv, Undisturbed
<1>2. CASE DeleteContainer(r)
  <2>1. /\ pc[r] = "delete" /\ "remove" \in todo[r] /\ "remove" \notin todo'[r]
        /\ RemoveContainer(r, "error")
    BY <1>2 DEF DeleteContainer, Turn, TypeOK
  <2>2. container[on[r]] = "removing"
    BY <1>1, <2>1, RemovalsEndWell
  <2>3. r \in disturbed
    BY <1>1, <2>1, <2>2 DEF OrphanInv, RemovalOwned
  <2>. QED
    BY <1>1, <2>1, <2>2, <2>3
<1>3. CASE RemovalReturns(r)
  <2>1. PICK ok \in BOOLEAN : RemovalAnswer(r, ok) /\ Note(r, ok)
    BY <1>3 DEF RemovalReturns
  <2>2. ok
    BY <1>1, <2>1, RemovalsEndWell
  <2>. QED
    BY <2>1, <2>2 DEF Note
<1>4. ASSUME pc[r] = "delete", "remove" \in Takes(op[r]) \ todo[r], todo'[r] \subseteq todo[r],
             container[on[r]] # "missing"
      PROVE  r \in disturbed /\ "remove" \notin todo'[r] /\ Overtaken(on[r])
  <2>1. op[r] # "metadata"
    BY <1>4 DEF Takes
  <2>2. Overtaken(on[r])
    BY <1>4, <2>1 DEF OrphanInv, DeleteProgress
  <2>3. r \in disturbed
    BY <1>1, <1>4 DEF DoneSoFar, DeleteLabels
  <2>. QED
    BY <1>4, <2>2, <2>3
<1>5. CASE DeleteHome(r)
  <2>1. /\ pc[r] = "delete" /\ "home" \in todo[r] /\ "remove" \notin todo[r]
        /\ todo'[r] \subseteq todo[r]
    BY <1>5 DEF DeleteHome, Turn, Earlier, TypeOK
  <2>2. "remove" \in Takes(op[r])
    BY <2>1 DEF Consistent, Takes
  <2>3. container[on[r]] # "missing"
    BY <1>1, <1>5, CallsEndWell DEF DeleteHome, Note
  <2>. QED
    BY <1>1, <1>4, <2>1, <2>2, <2>3
<1>6. CASE DeleteRepo(r)
  <2>1. /\ pc[r] = "delete" /\ "repo" \in todo[r] /\ "remove" \notin todo[r]
        /\ todo'[r] \subseteq todo[r]
    BY <1>6 DEF DeleteRepo, Turn, Earlier, TypeOK
  <2>2. "remove" \in Takes(op[r])
    BY <2>1 DEF Consistent, Takes
  <2>3. container[on[r]] # "missing"
    BY <1>1, <1>6, CallsEndWell DEF DeleteRepo, Note
  <2>. QED
    BY <1>1, <1>4, <2>1, <2>2, <2>3
<1>7. CASE DeleteMetadata(r)
  <2>1. PICK ok \in BOOLEAN : StoreDelete(on[r], ok) /\ Note(r, ok)
    BY <1>7 DEF DeleteMetadata
  <2>2. ok
    BY <1>1, <2>1 DEF StoreDelete, Fault, Calm, Quiet
  <2>. QED
    BY <2>1, <2>2 DEF Note
<1>. QED
  BY <1>2, <1>3, <1>5, <1>6, <1>7
     DEF Serve, Fixed, ListNetworks, CreateNetwork, InspectImage, BuildImage, CreateContainer,
         RunStart, CleanUp, CleanUpEnds, Rollback, Clone, StopContainer, GetAgain,
         StartContainer, DeleteStop, DeleteReturns

\* The delete whose removal goes through stays one that has not failed.
LEMMA WitnessStays ==
  ASSUME Calm, TypeOK, Consistent, Undisturbed, OrphanInv, NEW r \in Requests, Serve(r),
         NEW p \in Projects, ~Overtaken(p), NEW q \in Requests \ failed, Removed(q, p)
  PROVE  q \in Requests \ failed' /\ Removed(q, p)'
<1>1. Next
  BY DEF Next
<1>2. Removed(q, p)'
  BY <1>1, ExcusesStay
<1>3. CASE q = r
  BY <1>2, <1>3, WhatFails DEF Removed
<1>4. CASE q # r
  BY <1>2, <1>4, ServeShape DEF Shape
<1>. QED
  BY <1>3, <1>4

\* Each delete that fails has one that does not.
LEMMA DeletesPrevailServe ==
  ASSUME Calm, TypeOK, Consistent, Undisturbed, OrphanInv, NEW r \in Requests, Serve(r)
  PROVE  DeletesPrevail'
<1>1. /\ Next /\ Shape(r) /\ UNCHANGED <<disturbed, before>> /\ RemovalOwned
  BY ServeShape, ServeHistory DEF Next, OrphanInv
<1>2. SUFFICES ASSUME NEW x \in failed', NEW p, p = on'[x]
               PROVE  /\ x \in disturbed'
                      /\ Overtaken(p)' \/ \E q \in Requests \ failed' : Removed(q, p)'
  BY DEF DeletesPrevail, Overtaken, Removed
<1>3. /\ x \in Requests /\ p \in Projects /\ x \in disturbed
      /\ Overtaken(p) \/ \E q \in Requests \ failed : Removed(q, p)
  <2>1. CASE x \in failed
    BY <1>1, <1>2, <2>1 DEF OrphanInv, RemovalOwned, DeletesPrevail, TypeOK, Shape
  <2>2. CASE x \notin failed
    <3>1. x = r
      BY <1>1, <1>2, <2>2, TypeStep DEF Shape, TypeOK
    <3>. QED
      BY <1>1, <1>2, <2>2, <3>1, WhatFails DEF RemovalOwned, Shape
  <2>. QED
    BY <2>1, <2>2
<1>4. CASE Overtaken(p)
  BY <1>1, <1>3, <1>4, ExcusesStay
<1>5. CASE ~Overtaken(p)
  BY <1>1, <1>3, <1>5, WitnessStays
<1>. QED
  BY <1>1, <1>3, <1>4, <1>5

\* A removal is begun by a delete that awaits it, or by a create that was overtaken.
LEMMA RemovalBegun ==
  ASSUME Calm, TypeOK, Consistent, OrphanInv, NEW r \in Requests, Serve(r),
         container[on[r]] # "removing", container'[on[r]] = "removing"
  PROVE  \/ /\ op[r] \in {"container", "repo", "all"} /\ pc'[r] = "await removal"
            /\ "remove" \notin todo'[r] /\ r \notin failed'
         \/ op[r] \in CreateOps /\ r \in disturbed
<1>1. InFlight(r) /\ on[r] \in Projects
  BY ServeShape DEF Shape, TypeOK
<1>2. DeleteContainer(r) \/ CleanUp(r)
  BY <1>1 DEF Serve, ListNetworks, CreateNetwork, InspectImage, BuildImage, CreateContainer,
     RunStart, CleanUpEnds, Rollback, Clone, StopContainer, GetAgain, StartContainer,
     DeleteStop, RemovalReturns, DeleteHome, DeleteRepo, DeleteMetadata, DeleteReturns,
     StartAnswer, HaltContainer, engineVars, TypeOK
<1>3. CASE DeleteContainer(r)
  <2>1. pc[r] = "delete" /\ "remove" \in todo[r] /\ "remove" \notin todo'[r]
    BY <1>3 DEF DeleteContainer, Turn, TypeOK
  <2>2. op[r] \in {"container", "repo", "all"}
    BY <1>1, <2>1 DEF Consistent, Takes, Scopes
  <2>3. r \notin failed
    BY <2>1 DEF OrphanInv, RemovalOwned
  <2>4. pc'[r] = "await removal" /\ failed' = failed
    BY <1>3 DEF DeleteContainer, RemoveContainer, Goto, TypeOK
  <2>. QED
    BY <2>1, <2>2, <2>3, <2>4
<1>4. CASE CleanUp(r)
  <2>1. pc[r] = "clean up"
    BY <1>4 DEF CleanUp
  <2>2. op[r] \in CreateOps
    BY <1>1, <2>1 DEF Consistent, TypeOK
  <2>. QED
    BY <1>1, <2>1, <2>2 DEF OrphanInv, CreateAlone, Alone
<1>. QED
  BY <1>2, <1>3, <1>4

\* A container is being removed for a delete that has not failed.
LEMMA RemovalOwnedServe ==
  ASSUME Calm, TypeOK, Consistent, Undisturbed, OrphanInv, NEW r \in Requests, Serve(r)
  PROVE  RemovalOwned'
<1>1. /\ Next /\ Shape(r) /\ UNCHANGED <<disturbed, before>> /\ RemovalOwned
      /\ on[r] \in Projects /\ InFlight(r) /\ Found /\ Quiet
  BY ServeShape, ServeHistory DEF Next, OrphanInv, Shape, TypeOK
<1>2. ASSUME NEW x \in failed'
      PROVE  on'[x] \in Projects /\ "remove" \notin todo'[x]
  <2>0. x \in Requests
    BY TypeStep, <1>1 DEF TypeOK
  <2>1. CASE x \in failed
    <3>1. on[x] \in Projects /\ "remove" \notin todo[x]
      BY <1>1, <2>1 DEF RemovalOwned
    <3>. QED
      BY <1>1, <2>0, <3>1, StepKeeps
  <2>2. CASE x \notin failed
    <3>1. x = r
      BY <1>1, <2>0, <2>2, <1>2 DEF Shape
    <3>. QED
      BY <1>1, <1>2, <2>2, <3>1, WhatFails DEF Shape
  <2>. QED
    BY <2>1, <2>2
<1>3. ASSUME NEW x \in Requests \ disturbed', InFlight(x)', container'[on'[x]] = "removing"
      PROVE  pc'[x] = "await removal"
  <2>1. InFlight(x) /\ x \notin disturbed /\ on'[x] = on[x] /\ on[x] \in Projects
    BY <1>1, <1>3 DEF Shape, InFlight, TypeOK
  <2>2. CASE on[x] # on[r]
    <3>1. container[on[x]] = "removing" /\ pc'[x] = pc[x]
      BY <1>1, <1>3, <2>1, <2>2 DEF Shape
    <3>. QED
      BY <1>1, <2>1, <3>1 DEF RemovalOwned
  <2>3. CASE on[x] = on[r]
    <3>1. Working(on[x]) = {x}
      BY <2>1 DEF Undisturbed
    <3>2. x = r
      BY <1>1, <2>3, <3>1 DEF Working
    <3>3. CASE container[on[r]] # "removing"
      BY <1>1, <1>3, <2>1, <3>2, <3>3, RemovalBegun
    <3>4. CASE container[on[r]] = "removing"
      <4>1. pc[r] = "await removal"
        BY <1>1, <2>1, <3>2, <3>4 DEF RemovalOwned
      <4>2. RemovalReturns(r)
        BY <4>1 DEF Serve, ListNetworks, CreateNetwork, InspectImage, BuildImage,
           CreateContainer, RunStart, CleanUp, CleanUpEnds, Rollback, Clone, StopContainer,
           GetAgain, StartContainer, DeleteStop, DeleteContainer, DeleteHome, DeleteRepo,
           DeleteMetadata, DeleteReturns, Turn
      <4>3. container[on[r]] = "missing"
        BY <1>1, <4>2, RemovalsEndWell DEF RemovalReturns
      <4>. QED
        BY <3>4, <4>3
    <3>. QED
      BY <3>3, <3>4
  <2>. QED
    BY <2>2, <2>3
<1>4. ASSUME NEW p \in Projects, container'[p] = "removing", ~Overtaken(p)'
      PROVE  \E q \in Requests \ failed' : Removed(q, p)'
  <2>1. ~Overtaken(p)
    BY <1>1, <1>4, ExcusesStay
  <2>2. CASE container[p] = "removing"
    <3>1. PICK q \in Requests \ failed : Removed(q, p)
      BY <1>1, <2>1, <2>2 DEF RemovalOwned
    <3>. QED
      BY <2>1, <3>1, WitnessStays
  <2>3. CASE container[p] # "removing"
    <3>1. p = on[r]
      BY <1>1, <1>4, <2>3 DEF Shape
    <3>2. ~(op[r] \in CreateOps /\ r \in disturbed)
      BY <2>1, <3>1 DEF Overtaken
    <3>3. /\ op[r] \in {"container", "repo", "all"}
          /\ "remove" \notin todo'[r] /\ r \notin failed'
      BY <1>4, <2>3, <3>1, <3>2, RemovalBegun
    <3>4. before'[r].meta
      BY <1>1, <3>3 DEF Found, CreateOps
    <3>. QED
      BY <1>1, <3>1, <3>3, <3>4 DEF Removed, Shape
  <2>. QED
    BY <2>2, <2>3
<1>. QED
  BY <1>2, <1>3, <1>4 DEF RemovalOwned

\* A create that is alone stays so, and does its calls in order.
LEMMA CreateAloneServe ==
  ASSUME Calm, TypeOK, Consistent, OrphanInv, NEW r \in Requests, Serve(r)
  PROVE  CreateAlone'
<1>1. Shape(r) /\ UNCHANGED disturbed
  BY ServeShape, ServeHistory
<1>2. ASSUME NEW x \in Requests, x \notin disturbed', InFlight(x)', op'[x] \in CreateOps
      PROVE  /\ Working(on[x])' = {x} /\ on'[x] = on[x] /\ on[x] \in Projects
             /\ InFlight(x) /\ op[x] \in CreateOps /\ Alone(x)
  <2>1. InFlight(x) /\ x \notin disturbed /\ op[x] \in CreateOps /\ on'[x] = on[x]
    BY <1>1, <1>2 DEF Shape, InFlight
  <2>2. Alone(x) /\ on[x] \in Projects
    BY <2>1 DEF OrphanInv, CreateAlone, TypeOK
  <2>3. x \in Working(on[x])'
    BY <1>2, <2>1 DEF Working
  <2>4. Working(on[x]) = {x}
    BY <2>2 DEF Alone
  <2>. QED
    BY <1>1, <2>1, <2>2, <2>3, <2>4, ServeWorking
<1>3. ASSUME NEW x \in Requests \ {r}, x \notin disturbed', InFlight(x)', op'[x] \in CreateOps
      PROVE  Alone(x)'
  <2>1. /\ InFlight(x) /\ on[x] \in Projects /\ on'[x] = on[x] /\ Alone(x)
        /\ Working(on[x])' = {x}
    BY <1>2, <1>3
  <2>2. on[x] # on[r]
    BY <1>1, <2>1 DEF Working, Shape, Alone
  <2>3. /\ on[x] \in meta' <=> on[x] \in meta
        /\ container'[on[x]] = container[on[x]] /\ pc'[x] = pc[x]
        /\ NoSandbox(on[x]) => NoSandbox(on[x])'
    BY <1>1, <2>1, <2>2 DEF Shape, NoSandbox
  <2>. QED
    BY <2>1, <2>3 DEF Alone, NoSandbox, Working
<1>4. ASSUME r \notin disturbed', InFlight(r)', op'[r] \in CreateOps
      PROVE  /\ on'[r] \in meta' /\ pc'[r] \notin {"clean up", "await clean up"}
             /\ pc'[r] \in {"list networks", "create network", "inspect image", "build image",
                            "create container", "rollback"}
                  => NoSandbox(on[r])'
             /\ pc'[r] = "run" => container'[on[r]] = "stopped"
  <2>1. /\ InFlight(r) /\ op[r] \in CreateOps /\ on'[r] = on[r] /\ on[r] \in meta
        /\ on[r] \in Projects
        /\ pc[r] \notin {"clean up", "await clean up"}
        /\ pc[r] \in {"list networks", "create network", "inspect image", "build image",
                      "create container", "rollback"}
             => NoSandbox(on[r])
        /\ pc[r] = "run" => container[on[r]] = "stopped"
    BY <1>1, <1>2, <1>4 DEF Alone
  <2>2. Quiet
    BY DEF OrphanInv
  <2>3. pc[r] \notin RunLabels \union DeleteLabels
    BY <2>1 DEF Consistent, CreateOps, RunOps, Scopes, RunLabels, DeleteLabels
  <2>4. CASE ListNetworks(r)
    BY <2>1, <2>2, <2>4, CallsEndWell DEF ListNetworks, Goto, Fixed, engineVars, NoSandbox,
       TypeOK
  <2>5. CASE CreateNetwork(r)
    BY <2>1, <2>2, <2>5, CallsEndWell DEF CreateNetwork, Goto, Fixed, NoSandbox, TypeOK
  <2>6. CASE InspectImage(r)
    BY <2>1, <2>2, <2>6, CallsEndWell DEF InspectImage, Goto, Fixed, engineVars, NoSandbox,
       TypeOK
  <2>7. CASE BuildImage(r)
    BY <2>1, <2>2, <2>7, CallsEndWell DEF BuildImage, Goto, Fixed, NoSandbox, TypeOK
  <2>8. CASE CreateContainer(r)
    <3>1. pc'[r] = "run" /\ container'[on[r]] = "stopped" /\ meta' = meta
      BY <2>1, <2>2, <2>8, CallsEndWell DEF CreateContainer, Goto, TypeOK
    <3>. QED
      BY <2>1, <3>1
  <2>9. CASE RunStart(r)
    <3>1. ~StartAnswer(r, FALSE)
      <4>1. container[on[r]] = "stopped"
        BY <2>1, <2>9 DEF RunStart
      <4>. QED
        BY <2>2, <4>1, CallsEndWell DEF StartAnswer
    <3>2. pc'[r] \in {"clone", "done"} /\ meta' = meta
      BY <2>9, <3>1 DEF RunStart, Goto, Return, TypeOK
    <3>. QED
      BY <2>1, <3>2
  <2>10. CASE Rollback(r) \/ Clone(r) \/ CleanUp(r) \/ CleanUpEnds(r)
    BY <1>4, <2>1, <2>10 DEF Rollback, Clone, CleanUp, CleanUpEnds, Return, InFlight, TypeOK
  <2>. QED
    BY <2>3, <2>4, <2>5, <2>6, <2>7, <2>8, <2>9, <2>10
       DEF Serve, StopContainer, GetAgain, StartContainer, DeleteStop, DeleteContainer,
           RemovalReturns, DeleteHome, DeleteRepo, DeleteMetadata, DeleteReturns, Turn,
           RunLabels, DeleteLabels
<1>5. ASSUME r \notin disturbed', InFlight(r)', op'[r] \in CreateOps
      PROVE  Alone(r)'
  <2>1. Working(on[r])' = {r} /\ on'[r] = on[r]
    BY <1>2, <1>5
  <2>. QED
    BY <1>4, <1>5, <2>1 DEF Alone, NoSandbox, Working
<1>. QED
  BY <1>3, <1>5 DEF CreateAlone

\* What a delete has removed stays removed.
LEMMA DeleteProgressServe ==
  ASSUME Calm, TypeOK, Consistent, Undisturbed, OrphanInv, NEW r \in Requests, Serve(r)
  PROVE  DeleteProgress'
<1>1. /\ Shape(r) /\ Next /\ Quiet /\ on[r] \in Projects /\ InFlight(r)
  BY ServeShape DEF Next, OrphanInv, Shape, TypeOK
<1>2. SUFFICES ASSUME NEW x \in Requests \ failed', pc'[x] \in {"delete", "await removal"},
                      op'[x] # "metadata", NEW p \in Projects, p = on'[x], ~Overtaken(p)'
               PROVE  /\ pc'[x] = "delete" /\ "remove" \notin todo'[x] => container'[p] = "missing"
                      /\ "home" \in Takes(op'[x]) \ todo'[x] => p \notin home'
                      /\ "repo" \in Takes(op'[x]) \ todo'[x] => p \notin repo'
  <2>1. ASSUME NEW x \in Requests, pc'[x] \in {"delete", "await removal"}
        PROVE  on'[x] \in Projects
    BY <2>1, TypeStep, <1>1 DEF TypeOK, InFlight
  <2>. QED
    BY <2>1 DEF DeleteProgress, Overtaken
<1>3. /\ op'[x] = op[x] /\ on'[x] = on[x] /\ InFlight(x) /\ p = on[x]
      /\ pc[x] \in {"delete", "await removal"}
  BY <1>1, <1>2 DEF Shape, GoesOn, CreateLabels, RunLabels, DeleteLabels, InFlight
<1>4. x \notin failed /\ ~Overtaken(p)
  BY <1>1, <1>2, StepKeeps, ExcusesStay
<1>5. /\ pc[x] = "delete" /\ "remove" \notin todo[x] => container[p] = "missing"
      /\ "home" \in Takes(op[x]) \ todo[x] => p \notin home
      /\ "repo" \in Takes(op[x]) \ todo[x] => p \notin repo
  BY <1>2, <1>3, <1>4 DEF OrphanInv, DeleteProgress
<1>6. CASE on[x] # on[r]
  <2>1. x # r /\ todo'[x] = todo[x] /\ pc'[x] = pc[x]
    BY <1>1, <1>6 DEF Shape
  <2>. QED
    BY <1>1, <1>3, <1>5, <1>6, <2>1 DEF Shape
<1>7. CASE on[x] = on[r] /\ x # r
  <2>1. op[r] \notin CreateOps
    <3>1. CASE r \in disturbed
      BY <1>3, <1>4, <1>7, <3>1 DEF Overtaken
    <3>2. CASE r \notin disturbed
      BY <1>1, <1>3, <1>7, <3>2 DEF Undisturbed, Working
    <3>. QED
      BY <3>1, <3>2
  <2>2. /\ container[p] = "missing" => container'[p] = "missing"
        /\ home' \subseteq home /\ repo' \subseteq repo
    BY <1>1, <1>3, <1>7, <2>1, NotCreating, OthersOnlyTake
  <2>3. todo'[x] = todo[x] /\ pc'[x] = pc[x]
    BY <1>1, <1>7 DEF Shape
  <2>. QED
    BY <1>3, <1>5, <2>2, <2>3
<1>8. CASE x = r
  <2>1. /\ container[p] = "missing" => container'[p] = "missing"
        /\ home' \subseteq home /\ repo' \subseteq repo
    BY <1>3, <1>8, OthersOnlyTake DEF CreateLabels
  <2>2. CASE DeleteStop(r) \/ DeleteMetadata(r)
    <3>1. /\ pc[r] = "delete" /\ home' = home /\ repo' = repo
          /\ \/ todo'[r] = todo[r] \ {"stop"}
             \/ todo'[r] = todo[r] \ {"meta"}
      BY <2>2 DEF DeleteStop, DeleteMetadata, Turn, TypeOK
    <3>. QED
      BY <1>3, <1>5, <1>8, <2>1, <3>1
  <2>3. CASE DeleteContainer(r)
    <3>1. /\ home' = home /\ repo' = repo /\ todo'[r] = todo[r] \ {"remove"}
      BY <2>3 DEF DeleteContainer, Turn, TypeOK
    <3>2. pc'[r] = "delete" => container'[p] = "missing"
      BY <1>2, <1>3, <1>8, <2>3 DEF DeleteContainer, RemoveContainer, Goto, Note, TypeOK
    <3>. QED
      BY <1>3, <1>5, <1>8, <3>1, <3>2
  <2>4. CASE RemovalReturns(r)
    <3>1. /\ home' = home /\ repo' = repo /\ todo' = todo /\ container' = container
      BY <2>4 DEF RemovalReturns, engineVars
    <3>2. container[p] = "missing"
      BY <1>1, <1>3, <1>8, <2>4, RemovalsEndWell DEF RemovalReturns
    <3>. QED
      BY <1>3, <1>5, <1>8, <3>1, <3>2
  <2>5. CASE DeleteHome(r)
    <3>1. /\ pc[r] = "delete" /\ "home" \in todo[r] /\ "remove" \notin todo[r]
          /\ todo'[r] = todo[r] \ {"home"} /\ repo' = repo /\ container' = container
      BY <2>5 DEF DeleteHome, Turn, Earlier, TypeOK
    <3>2. container[p] = "missing"
      BY <1>5, <1>8, <3>1
    <3>3. p \notin home'
      BY <1>1, <1>3, <1>8, <2>5, <3>2, CallsEndWell DEF DeleteHome, RemoveVolume
    <3>. QED
      BY <1>3, <1>5, <1>8, <3>1, <3>2, <3>3
  <2>6. CASE DeleteRepo(r)
    <3>1. /\ pc[r] = "delete" /\ "repo" \in todo[r] /\ "remove" \notin todo[r]
          /\ todo'[r] = todo[r] \ {"repo"} /\ home' = home /\ container' = container
      BY <2>6 DEF DeleteRepo, Turn, Earlier, TypeOK
    <3>2. container[p] = "missing"
      BY <1>5, <1>8, <3>1
    <3>3. p \notin repo'
      BY <1>1, <1>3, <1>8, <2>6, <3>2, CallsEndWell DEF DeleteRepo, RemoveVolume
    <3>. QED
      BY <1>3, <1>5, <1>8, <3>1, <3>2, <3>3
  <2>7. CASE DeleteReturns(r)
    BY <1>2, <1>8, <2>7 DEF DeleteReturns, Return, TypeOK
  <2>. QED
    BY <1>3, <1>8, <2>2, <2>3, <2>4, <2>5, <2>6, <2>7
       DEF Serve, ListNetworks, CreateNetwork, InspectImage, BuildImage, CreateContainer,
           RunStart, CleanUp, CleanUpEnds, Rollback, Clone, StopContainer, GetAgain,
           StartContainer
<1>. QED
  BY <1>6, <1>7, <1>8

\* The metadata goes only once everything else is gone, and nothing comes after it.
LEMMA NothingLeftServe ==
  ASSUME Calm, TypeOK, Consistent, Undisturbed, OrphanInv, NEW r \in Requests, Serve(r)
  PROVE  NothingLeft'
<1>1. Shape(r) /\ Next /\ InFlight(r) /\ on[r] \in Projects
  BY ServeShape DEF Next, Shape, TypeOK
<1>2. SUFFICES ASSUME NEW p \in Projects, p \notin meta',
                      \A x \in Requests : on'[x] = p => ~MayLeave(x)'
               PROVE  NoSandbox(p)'
  BY DEF NothingLeft
<1>3. \A x \in Requests : on[x] = p => ~MayLeave(x)
  BY <1>1, <1>2, ExcusesStay
<1>4. p \notin meta => NoSandbox(p)
  BY <1>3 DEF OrphanInv, NothingLeft
<1>5. CASE on[r] # p
  BY <1>1, <1>2, <1>4, <1>5 DEF Shape, NoSandbox
<1>6. CASE on[r] = p /\ p \notin meta
  <2>1. op[r] \notin CreateOps
    BY <1>1, <1>3, <1>6 DEF OrphanInv, CreateAlone, Alone, MayLeave
  <2>. QED
    BY <1>1, <1>4, <1>6, <2>1, NotCreating, OthersOnlyTake DEF NoSandbox
<1>7. CASE on[r] = p /\ p \in meta
  <2>1. Rollback(r) \/ DeleteMetadata(r)
    BY <1>2, <1>7
       DEF Serve, ListNetworks, CreateNetwork, InspectImage, BuildImage, CreateContainer,
           RunStart, CleanUp, CleanUpEnds, Clone, StopContainer, GetAgain, StartContainer,
           DeleteStop, DeleteContainer, RemovalReturns, DeleteHome, DeleteRepo, DeleteReturns,
           storeVars
  <2>2. CASE Rollback(r)
    <3>1. pc[r] = "rollback"
      BY <2>2 DEF Rollback
    <3>2. op[r] \in CreateOps
      BY <1>1, <3>1 DEF Consistent, TypeOK
    <3>3. NoSandbox(p)
      BY <1>1, <1>3, <1>7, <3>1, <3>2 DEF OrphanInv, CreateAlone, Alone, MayLeave
    <3>. QED
      BY <2>2, <3>3 DEF Rollback, NoSandbox, engineVars
  <2>3. CASE DeleteMetadata(r)
    <3>1. /\ pc[r] = "delete" /\ "meta" \in todo[r]
          /\ todo[r] \intersect {"stop", "remove", "home", "repo"} = {}
      BY <2>3 DEF DeleteMetadata, Turn, Earlier
    <3>2. op[r] \in {"metadata", "all"}
      BY <1>1, <3>1 DEF Consistent, Takes, Scopes
    <3>3. op[r] = "all" /\ r \notin failed
      BY <1>3, <1>7, <3>2 DEF MayLeave
    <3>4. ~Overtaken(p)
      BY <1>3 DEF Overtaken, MayLeave, TypeOK
    <3>5. NoSandbox(p)
      BY <1>7, <3>1, <3>3, <3>4 DEF OrphanInv, DeleteProgress, Takes, NoSandbox
    <3>. QED
      BY <2>3, <3>5 DEF DeleteMetadata, NoSandbox
  <2>. QED
    BY <2>1, <2>2, <2>3
<1>. QED
  BY <1>5, <1>6, <1>7

\* The requests under way found their project.
LEMMA FoundStep ==
  ASSUME TypeOK, Consistent, Undisturbed, Found, [Next]_vars
  PROVE  Found'
<1>1. ASSUME NEW x \in Requests, InFlight(x), InFlight(x)', op'[x] \notin CreateOps
      PROVE  before'[x].meta
  BY <1>1, StepKeeps DEF TypeOK, Found
<1>2. ASSUME NEW x \in Requests, ~InFlight(x), InFlight(x)', op'[x] \notin CreateOps
      PROVE  before'[x].meta
  <2>1. PICK y \in Requests : Request(y)
    <3>1. ASSUME NEW y \in Requests, Serve(y) PROVE FALSE
      BY <1>2, <3>1, ServeShape DEF Shape, InFlight
    <3>. QED
      BY <1>2, <3>1 DEF Next, ClientGone, Crash, ContainerExits, RemovalEnds, reqVars,
         vars, InFlight
  <2>2. x = y
    BY <1>2, <2>1, RequestShape DEF InFlight
  <2>3. PICK o \in Ops, p \in Projects : AcceptCreate(y, o, p) \/ AcceptOp(y, o, p)
    BY <1>2, <2>1, <2>2 DEF Request, RefuseRequest, NoSuchProject, Return, InFlight, TypeOK
  <2>4. CASE AcceptCreate(y, o, p)
    BY <1>2, <2>2, <2>4 DEF AcceptCreate, Arrive, TypeOK
  <2>5. CASE AcceptOp(y, o, p)
    <3>1. p \in meta /\ before'[y] = Snapshot(p)
      BY <2>5 DEF AcceptOp, Arrive, Undisturbed
    <3>2. Snapshot(p).meta <=> p \in meta
      BY DEF Snapshot
    <3>. QED
      BY <2>2, <3>1, <3>2
  <2>. QED
    BY <2>3, <2>4, <2>5
<1>. QED
  BY <1>1, <1>2 DEF Found

-----------------------------------------------------------------------------
(* The other steps                                                          *)

\* What the steps that are not a call of a request leave of the invariant: whoever works
\* on a project that another request comes to is disturbed.
LEMMA OrphanFrame ==
  ASSUME TypeOK, Consistent, Undisturbed, OrphanInv, [Next]_vars, Found',
         UNCHANGED <<repo, home, faults, gone, failed>>, meta \subseteq meta',
         \A x \in Requests : InFlight(x)' /\ InFlight(x) =>
           pc'[x] = pc[x] /\ todo'[x] = todo[x] /\ on'[x] = on[x] /\ op'[x] = op[x],
         \A p \in Projects : \/ container'[p] = container[p]
                             \/ container[p] = "running" /\ container'[p] = "stopped"
                             \/ container[p] = "removing" /\ container'[p] = "missing",
         \A x, y \in Requests : InFlight(x) /\ x \notin disturbed' /\ ~InFlight(y) /\ InFlight(y)'
           => on'[y] # on[x],
         \A x \in Requests : ~InFlight(x) /\ InFlight(x)' =>
           /\ x \notin disturbed' => container'[on'[x]] # "removing"
           /\ x \notin disturbed' /\ op'[x] \in CreateOps => Alone(x)'
           /\ pc'[x] # "await removal"
           /\ pc'[x] = "delete" => todo'[x] = Takes(op'[x]) /\ op'[x] \in Scopes
  PROVE  OrphanInv'
<1>1. Quiet'
  BY DEF OrphanInv, Quiet
<1>2. /\ failed \subseteq failed' /\ disturbed \subseteq disturbed'
      /\ \A x \in Requests : on[x] \in Projects =>
           /\ op'[x] = op[x] /\ on'[x] = on[x] /\ before'[x] = before[x]
           /\ todo'[x] \subseteq todo[x]
  BY StepKeeps
<1>3. CreateAlone'
  <2>1. SUFFICES ASSUME NEW x \in Requests \ disturbed', InFlight(x)', op'[x] \in CreateOps,
                        InFlight(x)
                 PROVE  Alone(x)'
    BY DEF CreateAlone
  <2>2. /\ on'[x] = on[x] /\ op'[x] = op[x] /\ pc'[x] = pc[x] /\ on[x] \in Projects
        /\ Alone(x)
    BY <1>2, <2>1 DEF OrphanInv, CreateAlone, TypeOK
  <2>3. Working(on[x])' = {x}
    <3>0. Working(on[x]) = {x}
      BY <2>2 DEF Alone
    <3>1. \A y \in Requests : InFlight(y) /\ on[y] = on[x] => y = x
      BY ZenonT(60), <3>0 DEF Working
    <3>2. ASSUME NEW y \in Requests, InFlight(y)', on'[y] = on[x]
          PROVE  y = x
      <4>1. InFlight(y)
        BY <2>1, <3>2
      <4>2. on'[y] = on[y]
        BY <3>2, <4>1
      <4>. QED
        BY <3>1, <3>2, <4>1, <4>2
    <3>. QED
      BY ZenonT(60), <2>1, <2>2, <3>2 DEF Working
  <2>4. /\ on[x] \in meta'
        /\ NoSandbox(on[x]) => NoSandbox(on[x])'
        /\ container[on[x]] = "stopped" => container'[on[x]] = "stopped"
    BY <2>2 DEF Alone, NoSandbox
  <2>. QED
    BY <2>2, <2>3, <2>4 DEF Alone, NoSandbox, Working
<1>4. DeleteProgress'
  <2>1. SUFFICES ASSUME NEW x \in Requests \ failed', pc'[x] \in {"delete", "await removal"},
                        op'[x] # "metadata", NEW p, p = on'[x], ~Overtaken(p)'
                 PROVE  /\ pc'[x] = "delete" /\ "remove" \notin todo'[x]
                             => container'[p] = "missing"
                        /\ "home" \in Takes(op'[x]) \ todo'[x] => p \notin home'
                        /\ "repo" \in Takes(op'[x]) \ todo'[x] => p \notin repo'
    BY DEF DeleteProgress, Overtaken
  <2>2. InFlight(x)'
    BY <2>1 DEF InFlight
  <2>3. CASE InFlight(x)
    <3>1. /\ pc'[x] = pc[x] /\ todo'[x] = todo[x] /\ op'[x] = op[x] /\ on'[x] = on[x]
          /\ p \in Projects
      BY <2>1, <2>2, <2>3 DEF TypeOK
    <3>2. ~Overtaken(p)
      BY <2>1, <3>1, ExcusesStay
    <3>3. /\ pc[x] = "delete" /\ "remove" \notin todo[x] => container[p] = "missing"
          /\ "home" \in Takes(op[x]) \ todo[x] => p \notin home
          /\ "repo" \in Takes(op[x]) \ todo[x] => p \notin repo
      <4>1. /\ x \in Requests \ failed /\ pc[x] \in {"delete", "await removal"}
            /\ op[x] # "metadata" /\ p = on[x]
        BY <2>1, <3>1
      <4>2. DeleteProgress
        BY DEF OrphanInv
      <4>. QED
        BY <3>2, <4>1, <4>2 DEF DeleteProgress
    <3>4. container[p] = "missing" => container'[p] = "missing"
      BY <3>1
    <3>. QED
      BY <3>1, <3>3, <3>4
  <2>4. CASE ~InFlight(x)
    <3>1. pc'[x] = "delete" /\ todo'[x] = Takes(op'[x]) /\ op'[x] \in Scopes
      BY <2>1, <2>2, <2>4
    <3>2. "remove" \in Takes(op'[x])
      BY <2>1, <3>1 DEF Takes, Scopes
    <3>. QED
      BY <3>1, <3>2
  <2>. QED
    BY <2>3, <2>4
<1>5. NothingLeft'
  <2>1. SUFFICES ASSUME NEW p \in Projects, p \notin meta',
                        \A x \in Requests : on'[x] = p => ~MayLeave(x)'
                 PROVE  NoSandbox(p)'
    BY DEF NothingLeft
  <2>2. \A x \in Requests : on[x] = p => ~MayLeave(x)
    BY <2>1, ExcusesStay
  <2>. QED
    BY <2>1, <2>2 DEF OrphanInv, NothingLeft, NoSandbox
<1>6. ASSUME NEW p \in Projects, NEW q \in Requests \ failed, Removed(q, p)
      PROVE  q \in Requests \ failed' /\ Removed(q, p)'
  BY <1>6, ExcusesStay
<1>7. RemovalOwned'
  <2>1. \A x \in failed' : on'[x] \in Projects /\ "remove" \notin todo'[x]
    BY <1>2 DEF OrphanInv, RemovalOwned, TypeOK
  <2>2. ASSUME NEW x \in Requests \ disturbed', InFlight(x)', container'[on'[x]] = "removing"
        PROVE  pc'[x] = "await removal"
    <3>1. InFlight(x)
      BY <2>2
    <3>2. pc'[x] = pc[x] /\ on'[x] = on[x] /\ on[x] \in Projects
      BY <2>2, <3>1 DEF TypeOK
    <3>3. container[on[x]] = "removing"
      BY <2>2, <3>2
    <3>. QED
      BY <1>2, <2>2, <3>1, <3>2, <3>3 DEF OrphanInv, RemovalOwned
  <2>3. ASSUME NEW p \in Projects, container'[p] = "removing", ~Overtaken(p)'
        PROVE  \E q \in Requests \ failed' : Removed(q, p)'
    <3>1. container[p] = "removing"
      BY <2>3
    <3>2. ~Overtaken(p)
      BY <2>3, ExcusesStay
    <3>3. PICK q \in Requests \ failed : Removed(q, p)
      BY <3>1, <3>2 DEF OrphanInv, RemovalOwned
    <3>. QED
      BY <1>6, <3>3
  <2>. QED
    BY <2>1, <2>2, <2>3 DEF RemovalOwned
<1>8. DeletesPrevail'
  <2>0. SUFFICES ASSUME NEW x \in failed'
                 PROVE  /\ x \in disturbed'
                        /\ Overtaken(on[x])' \/ \E q \in (Requests \ failed)' : Removed(q, on[x])'
    BY DEF DeletesPrevail
  <2>1. SUFFICES ASSUME NEW p, p = on'[x]
                 PROVE  /\ x \in disturbed'
                        /\ Overtaken(p)' \/ \E q \in Requests \ failed' : Removed(q, p)'
    BY DEF Overtaken, Removed
  <2>2. x \in failed /\ x \in Requests /\ on[x] \in Projects /\ p = on[x]
    BY <1>2, <2>0, <2>1 DEF OrphanInv, RemovalOwned, TypeOK
  <2>3. /\ x \in disturbed
        /\ Overtaken(p) \/ \E q \in Requests \ failed : Removed(q, p)
    BY <2>2 DEF OrphanInv, DeletesPrevail
  <2>. QED
    BY <1>2, <1>6, <2>2, <2>3, ExcusesStay
<1>. QED
  BY <1>1, <1>3, <1>4, <1>5, <1>7, <1>8 DEF OrphanInv

\* A request arrives: a create has a project of its own, any other finds its project as
\* the earlier ones left it.
LEMMA OrphanArrive ==
  ASSUME Calm, TypeOK, Consistent, Undisturbed, OrphanInv, [Next]_vars, Found',
         NEW r \in Requests, Request(r)
  PROVE  OrphanInv'
<1>1. /\ pc[r] = "new" /\ ~InFlight(r) /\ failed' = failed
      /\ \A x \in Requests \ {r} : /\ pc'[x] = pc[x] /\ todo'[x] = todo[x] /\ on'[x] = on[x]
                                   /\ op'[x] = op[x]
                                   /\ InFlight(x)' <=> InFlight(x)
  BY RequestShape DEF InFlight
<1>2. UNCHANGED <<container, repo, home, faults, gone>> /\ meta \subseteq meta'
  BY ZenonT(60) DEF Request, RefuseRequest, AcceptCreate, NoSuchProject, AcceptOp, Arrive, engineVars,
         storeVars
<1>3. CASE ~InFlight(r)'
  BY <1>1, <1>2, <1>3, OrphanFrame
<1>4. CASE InFlight(r)'
  <2>1. PICK o \in Ops, p \in Projects : AcceptCreate(r, o, p) \/ AcceptOp(r, o, p)
    BY <1>1, <1>4 DEF Request, RefuseRequest, NoSuchProject, Return, InFlight, TypeOK
  <2>2. /\ on'[r] = p /\ op'[r] = o
        /\ disturbed' = IF Working(p) = {} /\ container[p] # "removing" THEN disturbed
                        ELSE disturbed \union Working(p) \union {r}
    BY <2>1 DEF AcceptCreate, AcceptOp, Arrive, TypeOK
  <2>3. \A x \in Requests : InFlight(x) /\ x \notin disturbed' => on[x] # p
    BY <2>2 DEF Working
  <2>4. r \notin disturbed' => container'[on'[r]] # "removing"
    BY <1>2, <2>2
  <2>5. r \notin disturbed' /\ op'[r] \in CreateOps => Alone(r)'
    <3>1. SUFFICES ASSUME AcceptCreate(r, o, p) PROVE Alone(r)'
      BY <2>1, <2>2 DEF AcceptOp
    <3>2. pc'[r] = "list networks" /\ p \in meta' /\ p \notin used
      BY <3>1 DEF AcceptCreate, Goto, TypeOK
    <3>3. NoSandbox(p) /\ \A x \in Requests : InFlight(x) => on[x] # p
      BY <3>2 DEF Consistent, InFlight
    <3>4. \A x \in Requests : InFlight(x)' /\ on'[x] = p <=> x = r
      BY <1>1, <1>4, <2>2, <3>3
    <3>. QED
      BY <1>2, <2>2, <3>2, <3>3, <3>4 DEF Alone, Working, NoSandbox
  <2>6. /\ pc'[r] # "await removal"
        /\ pc'[r] = "delete" => todo'[r] = Takes(op'[r]) /\ op'[r] \in Scopes
    <3>1. CASE AcceptCreate(r, o, p)
      BY <3>1 DEF AcceptCreate, Goto, TypeOK
    <3>2. CASE AcceptOp(r, o, p)
      BY <2>2, <3>2, ConstantsAssumption DEF AcceptOp, Goto, TypeOK, RunOps
    <3>. QED
      BY <2>1, <3>1, <3>2
  <2>7. \A x, y \in Requests : InFlight(x) /\ x \notin disturbed' /\ ~InFlight(y) /\ InFlight(y)'
           => on'[y] # on[x]
    BY <1>1, <2>2, <2>3
  <2>. QED
    BY <1>1, <1>2, <2>4, <2>5, <2>6, <2>7, OrphanFrame
<1>. QED
  BY <1>3, <1>4

-----------------------------------------------------------------------------
(* The theorems                                                             *)

\* At the start the engine has nothing.
LEMMA OrphanInit ==
  ASSUME Init
  PROVE  OrphanInv
BY DEF Init, OrphanInv, Quiet, Found, CreateAlone, DeleteProgress, NothingLeft, RemovalOwned,
       DeletesPrevail, InFlight, NoSandbox

\* Every step keeps what NoOrphans and DeletesPrevail rely on.
LEMMA OrphanStep ==
  ASSUME Calm, TypeOK, Consistent, Undisturbed, OrphanInv, [Next]_vars
  PROVE  OrphanInv'
<1>0. Found'
  BY FoundStep DEF OrphanInv
<1>1. ASSUME NEW r \in Requests, Request(r) PROVE OrphanInv'
  BY <1>0, <1>1, OrphanArrive
<1>2. ASSUME NEW r \in Requests, ClientGone(r) PROVE FALSE
  <2>1. Cardinality(gone) = 0 /\ MaxGone = 0
    BY FS_EmptySet DEF Calm, OrphanInv, Quiet
  <2>. QED
    BY <1>2, <2>1 DEF ClientGone
<1>3. CASE Crash
  <2>1. /\ UNCHANGED <<meta, container, repo, home, faults, gone, failed>>
        /\ \A x \in Requests : ~InFlight(x)'
    BY <1>3 DEF Crash, storeVars, engineVars, InFlight
  <2>. QED
    BY <1>0, <2>1, OrphanFrame
<1>4. ASSUME NEW p \in Projects, ContainerExits(p) \/ RemovalEnds(p) PROVE OrphanInv'
  <2>1. /\ UNCHANGED <<meta, repo, home, op, on, pc, todo, faults, gone, failed>>
        /\ \/ container[p] = "running" /\ container'[p] = "stopped"
           \/ container[p] = "removing" /\ container'[p] = "missing"
        /\ \A q \in Projects \ {p} : container'[q] = container[q]
    BY <1>4 DEF ContainerExits, RemovalEnds, storeVars, reqVars, TypeOK
  <2>2. \A x \in Requests : InFlight(x)' <=> InFlight(x)
    BY <2>1 DEF InFlight
  <2>. QED
    BY <1>0, <2>1, <2>2, OrphanFrame
<1>5. CASE UNCHANGED vars
  <2>1. /\ UNCHANGED <<meta, repo, home, op, on, pc, todo, faults, gone, failed, container>>
        /\ \A x \in Requests : InFlight(x)' <=> InFlight(x)
    BY <1>5 DEF vars, InFlight
  <2>. QED
    BY <1>0, <2>1, OrphanFrame
<1>6. ASSUME NEW r \in Requests, Serve(r) PROVE OrphanInv'
  BY <1>0, <1>6, QuietServe, CreateAloneServe, DeleteProgressServe, NothingLeftServe,
     RemovalOwnedServe, DeletesPrevailServe DEF OrphanInv
<1>. QED
  BY <1>1, <1>2, <1>3, <1>4, <1>5, <1>6 DEF Next

\* Where the engine, the disk and the clients do not fail, the invariant holds.
LEMMA OrphanAlways ==
  ASSUME Calm
  PROVE  Spec => []OrphanInv
<1>1. Init => TypeOK /\ Consistent /\ Undisturbed /\ OrphanInv
  BY TypeInit, ConsistentInit, UndisturbedInit, OrphanInit
<1>2. TypeOK /\ Consistent /\ Undisturbed /\ OrphanInv /\ [Next]_vars
        => (TypeOK /\ Consistent /\ Undisturbed /\ OrphanInv)'
  BY TypeStep, ConsistentStep, UndisturbedStep, OrphanStep
<1>. QED
  BY <1>1, <1>2, PTL DEF Spec

\* Where the engine, the disk and the clients do not fail: whatever requests overlap,
\* removals of one container included, and whenever the server dies, a project that is
\* not in the store has nothing left on the engine once nobody works on it, unless a
\* client chose to drop its metadata alone, a delete of all of it answered with an error,
\* or its create was overtaken by another request.
THEOREM NothingOrphaned ==
  ASSUME Calm
  PROVE  Spec => []NoOrphans
<1>1. OrphanInv => NoOrphans
  BY DEF OrphanInv, NothingLeft, NoOrphans
<1>. QED
  BY <1>1, OrphanAlways, PTL

\* Where the engine, the disk and the clients do not fail: a delete fails only if it
\* overlaps other requests, and for each that fails, unless the create was overtaken,
\* there is one of the same project that has not, and that the engine took the removal of
\* the container on for.
THEOREM DeletesAlwaysPrevail ==
  ASSUME Calm
  PROVE  Spec => []DeletesPrevail
<1>1. OrphanInv => DeletesPrevail
  BY DEF OrphanInv
<1>. QED
  BY <1>1, OrphanAlways, PTL

-----------------------------------------------------------------------------
(* Requests run out of calls                                                *)

\* The calls a request may still make, the one it is about to make included.
Coming(r) ==
  LET fromRun    == {"run", "clone", "clean up", "await clean up", "rollback"}
      fromCreate == fromRun \union {"create container"}
      fromImage  == fromCreate \union {"inspect image", "build image"}
  IN  CASE pc[r] = "list networks"    -> fromImage \union {"create network", "list networks"}
        [] pc[r] = "create network"   -> fromImage \union {"create network"}
        [] pc[r] = "inspect image"    -> fromImage
        [] pc[r] = "build image"      -> fromImage \ {"inspect image"}
        [] pc[r] = "create container" -> fromCreate
        [] pc[r] = "run"              -> fromRun
        [] pc[r] = "clean up"         -> {"clean up", "await clean up", "rollback"}
        [] pc[r] = "await clean up"   -> {"await clean up", "rollback"}
        [] pc[r] \in {"rollback", "clone", "start"} -> {pc[r]}
        [] pc[r] = "stop"             -> {"stop", "get", "start"}
        [] pc[r] = "get"              -> {"get", "start"}
        [] pc[r] = "delete"           -> IF "remove" \in todo[r]
                                         THEN todo[r] \union {"delete", "await removal"}
                                         ELSE todo[r] \union {"delete"}
        [] pc[r] = "await removal"    -> todo[r] \union {"delete", "await removal"}
        [] OTHER                      -> {}

\* A delete that awaits the removal of the container has made that call.
RemovalMade == \A r \in Requests : pc[r] = "await removal" => "remove" \notin todo[r]

\* Only the call for the removal leads to the wait for it.
LEMMA RemovalMadeStep ==
  ASSUME TypeOK, RemovalMade, [Next]_vars
  PROVE  RemovalMade'
<1>1. ASSUME NEW y \in Requests, Serve(y) PROVE RemovalMade'
  <2>1. \A x \in Requests \ {y} : pc'[x] = pc[x] /\ todo'[x] = todo[x]
    BY <1>1, ServeShape DEF Shape
  <2>2. ASSUME pc'[y] = "await removal" PROVE "remove" \notin todo'[y]
    <3>1. CASE DeleteContainer(y)
      BY <3>1 DEF DeleteContainer, Turn, TypeOK
    <3>2. CASE pc' = pc /\ todo'[y] \subseteq todo[y]
      BY <2>2, <3>2 DEF RemovalMade
    <3>3. CASE ~DeleteContainer(y) /\ pc' # pc
      BY <1>1, <2>2, <3>3 DEF Serve, Goto, Return, TypeOK, ListNetworks, CreateNetwork,
         InspectImage, BuildImage, CreateContainer, RunStart, CleanUp, CleanUpEnds, Rollback,
         Clone, StopContainer, GetAgain, StartContainer, DeleteStop, RemovalReturns,
         DeleteHome, DeleteRepo, DeleteMetadata, DeleteReturns
    <3>. QED
      BY <1>1, <3>1, <3>2, <3>3, ServeShape DEF Shape
  <2>. QED
    BY <2>1, <2>2 DEF RemovalMade
<1>2. ASSUME NEW y \in Requests, Request(y) PROVE RemovalMade'
  <2>1. \A x \in Requests \ {y} : pc'[x] = pc[x] /\ todo'[x] = todo[x]
    BY <1>2, RequestShape
  <2>2. pc'[y] # "await removal"
    BY <1>2 DEF Request, RefuseRequest, AcceptCreate, NoSuchProject, AcceptOp, Goto,
       Return, TypeOK
  <2>. QED
    BY <2>1, <2>2 DEF RemovalMade
<1>3. CASE Crash
  BY <1>3 DEF Crash, RemovalMade, InFlight
<1>4. CASE \/ \E r \in Requests : ClientGone(r)
           \/ \E p \in Projects : ContainerExits(p) \/ RemovalEnds(p)
           \/ UNCHANGED vars
  BY <1>4 DEF ClientGone, ContainerExits, RemovalEnds, reqVars, vars, RemovalMade
<1>. QED
  BY <1>1, <1>2, <1>3, <1>4 DEF Next

\* A call leaves fewer of them.
LEMMA ServeRunsOut ==
  ASSUME TypeOK, RemovalMade, NEW r \in Requests, Serve(r)
  PROVE  Coming(r)' \subseteq Coming(r) /\ Coming(r)' # Coming(r)
<1>. USE DEF Coming
<1>1. CASE ListNetworks(r)
  <2>1. pc[r] = "list networks" /\ pc'[r] \in {"inspect image", "create network", "rollback"}
    BY <1>1 DEF ListNetworks, Goto, Return, TypeOK
  <2>. QED
    BY <2>1
<1>2. CASE CreateNetwork(r)
  <2>1. pc[r] = "create network" /\ pc'[r] \in {"inspect image", "rollback"}
    BY <1>2 DEF CreateNetwork, Goto, Return, TypeOK
  <2>. QED
    BY <2>1
<1>3. CASE InspectImage(r)
  <2>1. pc[r] = "inspect image" /\ pc'[r] \in {"build image", "create container", "rollback"}
    BY <1>3 DEF InspectImage, Goto, Return, TypeOK
  <2>. QED
    BY <2>1
<1>4. CASE BuildImage(r)
  <2>1. pc[r] = "build image" /\ pc'[r] \in {"create container", "rollback"}
    BY <1>4 DEF BuildImage, Goto, Return, TypeOK
  <2>. QED
    BY <2>1
<1>5. CASE CreateContainer(r)
  <2>1. pc[r] = "create container" /\ pc'[r] \in {"run", "rollback"}
    BY <1>5 DEF CreateContainer, Goto, Return, TypeOK
  <2>. QED
    BY <2>1
<1>6. CASE RunStart(r)
  <2>1. pc[r] = "run" /\ pc'[r] \in {"clone", "done", "clean up"}
    BY <1>6 DEF RunStart, Goto, Return, TypeOK
  <2>. QED
    BY <2>1
<1>7. CASE CleanUp(r)
  <2>1. pc[r] = "clean up" /\ pc'[r] \in {"await clean up", "rollback"}
    BY <1>7 DEF CleanUp, Goto, Return, TypeOK
  <2>. QED
    BY <2>1
<1>8. CASE Rollback(r)
  <2>1. pc[r] = "rollback" /\ pc'[r] \in {"done"}
    BY <1>8 DEF Rollback, Goto, Return, TypeOK
  <2>. QED
    BY <2>1
<1>9. CASE Clone(r)
  <2>1. pc[r] = "clone" /\ pc'[r] \in {"done"}
    BY <1>9 DEF Clone, Goto, Return, TypeOK
  <2>. QED
    BY <2>1
<1>10. CASE StopContainer(r)
  <2>1. pc[r] = "stop" /\ pc'[r] \in {"done", "get"}
    BY <1>10 DEF StopContainer, Goto, Return, TypeOK
  <2>. QED
    BY <2>1
<1>11. CASE GetAgain(r)
  <2>1. pc[r] = "get" /\ pc'[r] \in {"start", "done"}
    BY <1>11 DEF GetAgain, Goto, Return, TypeOK
  <2>. QED
    BY <2>1
<1>12. CASE StartContainer(r)
  <2>1. pc[r] = "start" /\ pc'[r] \in {"done"}
    BY <1>12 DEF StartContainer, Goto, Return, TypeOK
  <2>. QED
    BY <2>1
<1>13. CASE DeleteReturns(r)
  <2>1. pc[r] = "delete" /\ pc'[r] = "done"
    BY <1>13 DEF DeleteReturns, Return, TypeOK
  <2>. QED
    BY <2>1
<1>16. CASE CleanUpEnds(r)
  <2>1. pc[r] = "await clean up" /\ pc'[r] = "rollback"
    BY <1>16 DEF CleanUpEnds, Goto, TypeOK
  <2>. QED
    BY <2>1
<1>17. CASE DeleteContainer(r)
  <2>1. /\ pc[r] = "delete" /\ "remove" \in todo[r] /\ todo'[r] = todo[r] \ {"remove"}
        /\ pc'[r] \in {"delete", "await removal"}
    BY <1>17 DEF DeleteContainer, Turn, Goto, TypeOK
  <2>2. CASE pc'[r] = "delete"
    BY <2>1, <2>2
  <2>3. CASE pc'[r] = "await removal"
    BY <2>1, <2>3
  <2>. QED
    BY <2>1, <2>2, <2>3
<1>18. CASE RemovalReturns(r)
  <2>1. /\ pc[r] = "await removal" /\ pc'[r] = "delete" /\ todo' = todo
        /\ "remove" \notin todo[r] /\ "await removal" \notin todo[r]
    BY <1>18 DEF RemovalReturns, Goto, TypeOK, RemovalMade
  <2>. QED
    BY <2>1
<1>14. CASE \E step \in {"stop", "home", "repo", "meta"} : Turn(r, step) /\ pc' = pc
  <2>1. PICK step \in {"stop", "home", "repo", "meta"} : Turn(r, step) /\ pc' = pc
    BY <1>14
  <2>2. /\ pc[r] = "delete" /\ pc' = pc /\ step \in todo[r] /\ step # "delete"
        /\ todo'[r] = todo[r] \ {step}
    BY <2>1 DEF Turn, TypeOK
  <2>. QED
    BY <2>2
<1>15. DeleteStop(r) \/ DeleteHome(r) \/ DeleteRepo(r) \/ DeleteMetadata(r)
         => \E step \in {"stop", "home", "repo", "meta"} : Turn(r, step) /\ pc' = pc
  BY DEF DeleteStop, DeleteHome, DeleteRepo, DeleteMetadata
<1>. QED
  BY <1>1, <1>2, <1>3, <1>4, <1>5, <1>6, <1>7, <1>8, <1>9, <1>10, <1>11, <1>12, <1>13,
     <1>14, <1>15,
     <1>16, <1>17, <1>18 DEF Serve

\* The safety half of RequestsReturn.  No step, of a request itself, of others, of clients
\* that leave or of containers that exit, sets a request back: each call leaves it fewer,
\* and the crash none.  And a delete that has calls left has one whose turn it is.
THEOREM RequestsRunOut ==
  Spec => /\ [][\A r \in Requests : InFlight(r) =>
                  \/ pc'[r] = pc[r] /\ todo'[r] = todo[r]
                  \/ Coming(r)' \subseteq Coming(r) /\ Coming(r)' # Coming(r)]_vars
          /\ [](\A r \in Requests : pc[r] = "delete" /\ todo[r] # {} =>
                  \E step \in todo[r] : todo[r] \intersect Earlier(step) = {})
<1>. DEFINE RunsOut(r) == \/ pc'[r] = pc[r] /\ todo'[r] = todo[r]
                          \/ Coming(r)' \subseteq Coming(r) /\ Coming(r)' # Coming(r)
            HasTurn(r) == pc[r] = "delete" /\ todo[r] # {} =>
                            \E step \in todo[r] : todo[r] \intersect Earlier(step) = {}
<1>1. ASSUME TypeOK, RemovalMade, [Next]_vars, NEW r \in Requests, InFlight(r) PROVE RunsOut(r)
  <2>1. ASSUME NEW x \in Requests, Serve(x) PROVE RunsOut(r)
    <3>1. Shape(x)
      BY <1>1, <2>1, ServeShape
    <3>2. CASE x = r
      BY <1>1, <2>1, <3>2, ServeRunsOut
    <3>3. CASE x # r
      BY <3>1, <3>3 DEF Shape
    <3>. QED
      BY <3>2, <3>3
  <2>2. ASSUME NEW x \in Requests, Request(x) PROVE RunsOut(r)
    <3>1. pc[x] = "new" /\ x # r
      BY <1>1, <2>2, RequestShape DEF InFlight
    <3>. QED
      BY <1>1, <2>2, <3>1, RequestShape
  <2>3. CASE Crash
    <3>1. pc'[r] = "done" /\ pc[r] \in Labels \ {"new", "done"}
      BY <1>1, <2>3 DEF Crash, TypeOK, InFlight
    <3>2. Coming(r)' = {}
      BY <3>1 DEF Coming
    <3>3. pc[r] \in Coming(r)
      BY <3>1 DEF Coming, Labels
    <3>. QED
      BY <3>2, <3>3
  <2>4. CASE \/ \E x \in Requests : ClientGone(x)
             \/ \E p \in Projects : ContainerExits(p) \/ RemovalEnds(p)
             \/ UNCHANGED vars
    BY <2>4 DEF ClientGone, ContainerExits, RemovalEnds, reqVars, vars
  <2>. QED
    BY <1>1, <2>1, <2>2, <2>3, <2>4 DEF Next
<1>2. ASSUME TypeOK, NEW r \in Requests PROVE HasTurn(r)
  <2>1. todo[r] \subseteq {"stop", "remove", "home", "repo", "meta"}
    BY <1>2 DEF TypeOK
  <2>. QED
    BY <2>1 DEF Earlier
<1>3. TypeOK /\ RemovalMade /\ [Next]_vars => [\A r \in Requests : InFlight(r) => RunsOut(r)]_vars
  BY <1>1
<1>4. TypeOK => \A r \in Requests : HasTurn(r)
  BY <1>2
<1>5. Init => RemovalMade
  BY DEF Init, RemovalMade
<1>. QED
  BY <1>3, <1>4, <1>5, TypeInit, TypeStep, RemovalMadeStep, PTL DEF Spec
=============================================================================
