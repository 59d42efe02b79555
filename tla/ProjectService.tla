--------------------------- MODULE ProjectService ---------------------------
(***************************************************************************)
(* The project control plane (server/internal/project/service.go on top of  *)
(* server/internal/docker): HTTP requests that create, start, stop, restart *)
(* and delete projects.  Nothing locks a project: each request is a chain   *)
(* of calls to the store and to the Docker engine, one action per call, and *)
(* the chains of different requests interleave freely.                      *)
(*                                                                         *)
(* What a call changes is the store (project.json files, on disk) and the   *)
(* engine (containers, volumes, the network, the image), which both survive *)
(* the server; what a request is doing is lost with it.                     *)
(***************************************************************************)
EXTENDS Integers, FiniteSets

CONSTANTS
  Projects,      \* project ids newID may draw
  NoProject,     \* the target of a request that was not made yet
  Requests,      \* HTTP requests, each made once
  Ops,           \* the operations clients ask for in this instance
  DiskFails,     \* TRUE: the store's RemoveAll may fail
  MaxFaults,     \* bound: engine and disk failures in a behaviour
  MaxGone,       \* bound: requests whose client disconnects
  MaxCrashes     \* bound: server crashes

Scopes    == {"container", "repo", "metadata", "all"}
CreateOps == {"blank", "clone"}
RunOps    == {"start", "stop", "restart"}

ASSUME ConstantsAssumption ==
  /\ NoProject \notin Projects
  /\ Ops \subseteq CreateOps \union RunOps \union Scopes
  /\ DiskFails \in BOOLEAN
  /\ MaxFaults \in Nat /\ MaxGone \in Nat /\ MaxCrashes \in Nat

VARIABLES
  meta,        \* store: the projects that have a project.json
  used,        \* the ids drawn so far
  container,   \* engine, per project: "missing", "stopped", "running", or
               \* "removing" while a forced removal is under way
  repo, home,  \* engine: the projects whose sps-<id>-repo / -home volume exists
  network,     \* engine: the sps-net network exists
  image,       \* engine: the sandbox image exists
  op, on,      \* per request: what it asks for, of which project
  pc,          \* per request: the call it is about to make
  todo,        \* per delete: the calls left to make
  failed,      \* the deletes whose firstErr is set
  result,      \* per request: the answer, once pc is "done"
  gone,        \* the requests whose context is cancelled
  logged,      \* per request: the types of the events it appended
  faults, crashes,
  before,      \* history, per request: its project when it was accepted
  disturbed    \* history: requests that shared their project with something else

storeVars  == <<meta, used>>
engineVars == <<container, repo, home, network, image>>
reqVars    == <<op, on, pc, todo, failed, result, gone, logged>>
history    == <<before, disturbed>>
vars == <<meta, used, container, repo, home, network, image, op, on, pc, todo,
          failed, result, gone, logged, faults, crashes, before, disturbed>>

-----------------------------------------------------------------------------
InFlight(r) == pc[r] \notin {"new", "done"}
Working(p)  == {r \in Requests : InFlight(r) /\ on[r] = p}

\* All there is of a project.
Snapshot(p) == [meta |-> p \in meta, ctr |-> container[p],
                repo |-> p \in repo, home |-> p \in home]
NoSandbox(p) == container[p] = "missing" /\ p \notin repo /\ p \notin home
Nothing == [meta |-> FALSE, ctr |-> "missing", repo |-> FALSE, home |-> FALSE]

\* Slips: the container scope takes the repo volume with it; the repo scope does
\* not take the container that holds the volume; the repo scope takes the home
\* volume too; the metadata scope stops the container like the others.
TakesRepoWithContainer(scope) ==
  CASE scope \in {"container", "repo"} -> {"stop", "remove", "home", "repo"}
    [] scope = "metadata"  -> {"meta"}
    [] OTHER               -> {"stop", "remove", "home", "repo", "meta"}
TakesRepoInUse(scope) ==
  CASE scope = "container" -> {"stop", "remove", "home"}
    [] scope = "repo"      -> {"stop", "repo"}
    [] scope = "metadata"  -> {"meta"}
    [] OTHER               -> {"stop", "remove", "home", "repo", "meta"}
TakesHomeWithRepo(scope) ==
  CASE scope = "container" -> {"stop", "remove", "home"}
    [] scope = "repo"      -> {"stop", "remove", "home", "repo"}
    [] scope = "metadata"  -> {"meta"}
    [] OTHER               -> {"stop", "remove", "home", "repo", "meta"}
StopsForMetadata(scope) ==
  CASE scope = "container" -> {"stop", "remove", "home"}
    [] scope = "repo"      -> {"stop", "remove", "repo"}
    [] scope = "metadata"  -> {"stop", "meta"}
    [] OTHER               -> {"stop", "remove", "home", "repo", "meta"}

\* The calls a delete of each scope makes.  Whenever it takes the container or
\* a volume it first stops the container: the engine keeps a volume some
\* container uses.
Takes(scope) ==
  CASE scope = "container" -> {"stop", "remove", "home"}
    [] scope = "repo"      -> {"stop", "remove", "repo"}
    [] scope = "metadata"  -> {"meta"}
    [] OTHER               -> {"stop", "remove", "home", "repo", "meta"}

\* Slip: the metadata goes first.
MetadataFirst(step) ==
  CASE step = "meta"   -> {}
    [] step = "stop"   -> {"meta"}
    [] step = "remove" -> {"meta", "stop"}
    [] step = "home"   -> {"meta", "stop", "remove"}
    [] OTHER           -> {"meta", "stop", "remove", "home"}

\* The calls that come earlier in Delete.
Earlier(step) ==
  CASE step = "stop"   -> {}
    [] step = "remove" -> {"stop"}
    [] step = "home"   -> {"stop", "remove"}
    [] step = "repo"   -> {"stop", "remove", "home"}
    [] OTHER           -> {"stop", "remove", "home", "repo"}

-----------------------------------------------------------------------------
(* How an engine call ends: "ok" (the engine does it, or refuses it for a   *)
(* reason of its own), "refused" (an error, nothing was done), or "lost"    *)
(* (done, but the caller gets an error: the connection broke, or the        *)
(* request's context was cancelled while the call was under way).  With a   *)
(* context cancelled earlier every call that takes the context is refused.  *)

Answers == {"ok", "refused", "lost"}

Fault(ans) ==
  IF ans = "ok" THEN UNCHANGED faults ELSE faults < MaxFaults /\ faults' = faults + 1

\* A call that ignores the request's context.
BareCall(ans) == Fault(ans)

\* A call that is given the request's context.
CtxCall(r, ans) ==
  IF r \in gone THEN ans = "refused" /\ UNCHANGED faults ELSE Fault(ans)

Goto(r, label) == pc' = [pc EXCEPT ![r] = label] /\ UNCHANGED result
Return(r, res) == pc' = [pc EXCEPT ![r] = "done"] /\ result' = [result EXCEPT ![r] = res]
Emit(r, types) == logged' = [logged EXCEPT ![r] = @ \union types]

-----------------------------------------------------------------------------
(* Requests arrive                                                          *)

\* Slip: the request forgets its project.
ArriveAnonymous(r, o, p) ==
  /\ pc[r] = "new"
  /\ o \in Ops
  /\ op' = [op EXCEPT ![r] = o]
  /\ before' = [before EXCEPT ![r] = Snapshot(p)]
  /\ UNCHANGED <<on, disturbed, failed, gone, faults, crashes, engineVars>>

\* A request r for operation o on project p is under way: from here on it and
\* the other requests at work on p disturb each other.  A removal that a request
\* left behind disturbs r, too.
Arrive(r, o, p) ==
  /\ pc[r] = "new"
  /\ o \in Ops
  /\ op' = [op EXCEPT ![r] = o]
  /\ on' = [on EXCEPT ![r] = p]
  /\ before' = [before EXCEPT ![r] = Snapshot(p)]
  /\ disturbed' = IF Working(p) = {} /\ container[p] # "removing" THEN disturbed
                  ELSE disturbed \union Working(p) \union {r}
  /\ UNCHANGED <<failed, gone, faults, crashes, engineVars>>

\* Create: the id is drawn, project.json is written, project.create logged.
AcceptCreate(r, o, p) ==
  /\ o \in CreateOps
  /\ p \notin used
  /\ Arrive(r, o, p)
  /\ used' = used \union {p}
  /\ meta' = meta \union {p}
  /\ Goto(r, "list networks")
  /\ Emit(r, {"create"})
  /\ UNCHANGED todo

\* The input is invalid, no id can be drawn or project.json cannot be written.
RefuseRequest(r) ==
  /\ pc[r] = "new"
  /\ Return(r, "invalid")
  /\ UNCHANGED <<storeVars, engineVars, op, on, todo, failed, gone, logged,
                 faults, crashes, history>>

\* store.Get finds no project.json: 404.  Clients know the ids of the list, that
\* of a project whose create is under way included, and those they knew before.
NoSuchProject(r, o, p) ==
  /\ o \notin CreateOps
  /\ p \in used \ meta
  /\ Arrive(r, o, p)
  /\ Return(r, "notfound")
  /\ UNCHANGED <<storeVars, todo, logged>>

\* Start, Stop, Restart and Delete begin by reading project.json.
AcceptOp(r, o, p) ==
  /\ o \notin CreateOps
  /\ p \in meta
  /\ Arrive(r, o, p)
  /\ Goto(r, CASE o = "start"             -> "start"
               [] o \in {"stop", "restart"} -> "stop"
               [] OTHER                    -> "delete")
  /\ todo' = IF o \in Scopes THEN [todo EXCEPT ![r] = Takes(o)] ELSE todo
  /\ UNCHANGED <<storeVars, logged>>

-----------------------------------------------------------------------------
(* Create: EnsureNetwork, ensureSandboxImage, Run, git clone                *)

\* What every call of Create and of the container operations leaves alone.
Fixed == UNCHANGED <<used, op, on, todo, failed, gone, crashes, history>>

\* EnsureNetwork first lists the networks...
ListNetworks(r) ==
  /\ pc[r] = "list networks"
  /\ \E ans \in Answers :
       /\ BareCall(ans)
       /\ Goto(r, IF ans # "ok" THEN "rollback"
                  ELSE IF network THEN "inspect image" ELSE "create network")
  /\ Fixed /\ UNCHANGED <<meta, engineVars, logged>>

\* ...and creates the network it did not see; the engine checks for duplicates.
CreateNetwork(r) ==
  /\ pc[r] = "create network"
  /\ \E ans \in Answers :
       /\ BareCall(ans)
       /\ network' = (network \/ ans # "refused")
       /\ Goto(r, IF ans = "ok" /\ ~network THEN "inspect image" ELSE "rollback")
  /\ Fixed /\ UNCHANGED <<meta, container, repo, home, image, logged>>

InspectImage(r) ==
  /\ pc[r] = "inspect image"
  /\ \E ans \in Answers :
       /\ BareCall(ans)
       /\ IF ans # "ok" THEN Goto(r, "rollback") /\ UNCHANGED logged
          ELSE IF image THEN Goto(r, "create container") /\ UNCHANGED logged
          ELSE Goto(r, "build image") /\ Emit(r, {"image.build"})
  /\ Fixed /\ UNCHANGED <<meta, engineVars>>

BuildImage(r) ==
  /\ pc[r] = "build image"
  /\ \E ans \in Answers :
       /\ CtxCall(r, ans)
       /\ image' = (image \/ ans # "refused")
       /\ Goto(r, IF ans = "ok" THEN "create container" ELSE "rollback")
  /\ Fixed /\ UNCHANGED <<meta, container, repo, home, network, logged>>

\* Creating the container creates the volumes it mounts.
CreateContainer(r) ==
  /\ pc[r] = "create container"
  /\ \E ans \in Answers :
       /\ CtxCall(r, ans)
       /\ IF ans = "refused" THEN UNCHANGED <<container, repo, home>>
          ELSE /\ container' = [container EXCEPT ![on[r]] = "stopped"]
               /\ repo' = repo \union {on[r]}
               /\ home' = home \union {on[r]}
       /\ Goto(r, IF ans = "ok" THEN "run" ELSE "rollback")
  /\ Fixed /\ UNCHANGED <<meta, network, image, logged>>

\* The engine's answer to a start: no container, or one that is being removed, no
\* start; of a container that runs already the client library may make an error.
StartAnswer(r, ok) ==
  LET p == on[r]
  IN  \E ans \in Answers :
        /\ CtxCall(r, ans)
        /\ container' = IF ans = "refused" \/ container[p] # "stopped" THEN container
                        ELSE [container EXCEPT ![p] = "running"]
        /\ \/ ok /\ ans = "ok" /\ container[p] \in {"stopped", "running"}
           \/ ~ok /\ (ans # "ok" \/ container[p] # "stopped")

\* Run starts the container it created; a blank project is then ready.
RunStart(r) ==
  /\ pc[r] = "run"
  /\ \/ StartAnswer(r, TRUE) /\ op[r] = "clone" /\ Goto(r, "clone") /\ UNCHANGED logged
     \/ StartAnswer(r, TRUE) /\ op[r] = "blank" /\ Return(r, "ok") /\ Emit(r, {"ready"})
     \/ StartAnswer(r, FALSE) /\ Goto(r, "clean up") /\ UNCHANGED logged
  /\ Fixed /\ UNCHANGED <<meta, repo, home, network, image>>

\* The engine takes on the forced removal of r's container, running or not, and r
\* waits for it; there is none, which is fine; or r gets an error: of the call, or
\* because the container is being removed already (409).
RemoveContainer(r, outcome) ==
  LET p == on[r]
  IN  \/ /\ outcome = "wait" /\ container[p] \in {"stopped", "running"} /\ CtxCall(r, "ok")
         /\ container' = [container EXCEPT ![p] = "removing"]
      \/ /\ outcome = "ok" /\ container[p] = "missing" /\ CtxCall(r, "ok")
         /\ UNCHANGED container
      \/ /\ outcome = "error"
         /\ CtxCall(r, "refused") \/ (container[p] = "removing" /\ CtxCall(r, "ok"))
         /\ UNCHANGED container

\* The removal that r waits for is over, or r loses the connection that waits.
RemovalAnswer(r, ok) ==
  \/ ok /\ container[on[r]] = "missing" /\ UNCHANGED faults
  \/ ~ok /\ CtxCall(r, "refused")

\* Run removes a container that would not start, with the same context, and
\* ignores how that ends.
CleanUp(r) ==
  /\ pc[r] = "clean up"
  /\ \/ RemoveContainer(r, "wait") /\ Goto(r, "await clean up")
     \/ RemoveContainer(r, "ok") /\ Goto(r, "rollback")
     \/ RemoveContainer(r, "error") /\ Goto(r, "rollback")
  /\ Fixed /\ UNCHANGED <<meta, repo, home, network, image, logged>>

CleanUpEnds(r) ==
  /\ pc[r] = "await clean up"
  /\ \E ok \in BOOLEAN : RemovalAnswer(r, ok)
  /\ Goto(r, "rollback")
  /\ Fixed /\ UNCHANGED <<meta, engineVars, logged>>

\* The store's RemoveAll, and whether it succeeds; one that fails may have removed
\* project.json.
StoreDelete(p, ok) ==
  \/ ok /\ meta' = meta \ {p} /\ UNCHANGED faults
  \/ ~ok /\ DiskFails /\ meta' \in {meta, meta \ {p}} /\ Fault("refused")

\* Slip: Create gives up and keeps the metadata.
RollbackKeepsMetadata(r) ==
  /\ pc[r] = "rollback"
  /\ Return(r, "error")
  /\ Fixed /\ UNCHANGED <<meta, faults, engineVars, logged>>

\* Create gives up: the metadata goes, an error of that is ignored.
Rollback(r) ==
  /\ pc[r] = "rollback"
  /\ \E ok \in BOOLEAN : StoreDelete(on[r], ok)
  /\ Return(r, "error")
  /\ Fixed /\ UNCHANGED <<engineVars, logged>>

\* git clone in the container.  A failure keeps the sandbox.
Clone(r) ==
  /\ pc[r] = "clone"
  /\ \/ /\ container[on[r]] = "running" /\ CtxCall(r, "ok")
        /\ Return(r, "ok") /\ Emit(r, {"clone", "ready"})
     \/ /\ UNCHANGED faults        \* exit code, cancelled context, no container
        /\ Return(r, "error") /\ Emit(r, {"error"})
  /\ Fixed /\ UNCHANGED <<meta, engineVars>>

-----------------------------------------------------------------------------
(* Start, Stop, Restart                                                     *)

\* What the engine makes of a stop: a container that runs stops.
HaltContainer(p, ans) ==
  container' = IF ans = "refused" \/ container[p] # "running" THEN container
               ELSE [container EXCEPT ![p] = "stopped"]

\* Stop: a container that does not run is fine.  The client library's error for
\* a missing container is passed on unmapped, so Stop does not tolerate it; of one
\* that is being removed the engine says either.
StopContainer(r) ==
  /\ pc[r] = "stop"
  /\ \E ans \in Answers :
       /\ CtxCall(r, ans)
       /\ HaltContainer(on[r], ans)
       /\ \/ /\ ans # "ok" \/ container[on[r]] \in {"missing", "removing"}
             /\ Return(r, "error") /\ UNCHANGED logged
          \/ /\ ans = "ok" /\ container[on[r]] # "missing"
             /\ Emit(r, {"stop"})
             /\ IF op[r] = "stop" THEN Return(r, "ok") ELSE Goto(r, "get")
  /\ Fixed /\ UNCHANGED <<meta, repo, home, network, image>>

\* Restart goes on with Start, which reads project.json again.
GetAgain(r) ==
  /\ pc[r] = "get"
  /\ IF on[r] \in meta THEN Goto(r, "start") ELSE Return(r, "notfound")
  /\ Fixed /\ UNCHANGED <<meta, engineVars, logged, faults>>

StartContainer(r) ==
  /\ pc[r] = "start"
  /\ \/ StartAnswer(r, TRUE) /\ Return(r, "ok") /\ Emit(r, {"start"})
     \/ StartAnswer(r, FALSE) /\ Return(r, "error") /\ UNCHANGED logged
  /\ Fixed /\ UNCHANGED <<meta, repo, home, network, image>>

-----------------------------------------------------------------------------
(* Delete                                                                   *)

\* The delete r is about to make the call named step.
Turn(r, step) ==
  /\ pc[r] = "delete"
  /\ step \in todo[r]
  /\ todo[r] \intersect Earlier(step) = {}
  /\ todo' = [todo EXCEPT ![r] = @ \ {step}]
  /\ UNCHANGED <<used, op, on, gone, logged, network, image, crashes, history>>

\* Only the first error is kept.
Note(r, ok) == failed' = IF ok THEN failed ELSE failed \union {r}

\* The container is stopped first; how that ends is ignored.
DeleteStop(r) ==
  /\ Turn(r, "stop")
  /\ \E ans \in Answers :
       CtxCall(r, ans) /\ HaltContainer(on[r], ans)
  /\ UNCHANGED <<pc, result, meta, repo, home, failed>>

DeleteContainer(r) ==
  /\ Turn(r, "remove")
  /\ \/ RemoveContainer(r, "wait") /\ Goto(r, "await removal") /\ UNCHANGED failed
     \/ RemoveContainer(r, "ok") /\ UNCHANGED <<pc, result, failed>>
     \/ RemoveContainer(r, "error") /\ Note(r, FALSE) /\ UNCHANGED <<pc, result>>
  /\ UNCHANGED <<meta, repo, home>>

RemovalReturns(r) ==
  /\ pc[r] = "await removal"
  /\ \E ok \in BOOLEAN : RemovalAnswer(r, ok) /\ Note(r, ok)
  /\ Goto(r, "delete")
  /\ UNCHANGED <<storeVars, engineVars, op, on, todo, gone, logged, crashes, history>>

\* What is left of a set of volumes when p's is removed: the engine refuses while
\* a container uses it, one that is being removed included.
RemoveVolume(volumes, p, ans) ==
  IF ans = "refused" \/ container[p] # "missing" THEN volumes ELSE volumes \ {p}

\* A volume that is gone already is fine, one that is in use is an error.
DeleteHome(r) ==
  /\ Turn(r, "home")
  /\ \E ans \in Answers :
       /\ CtxCall(r, ans)
       /\ home' = RemoveVolume(home, on[r], ans)
       /\ Note(r, ans = "ok" /\ (on[r] \in home => container[on[r]] = "missing"))
  /\ UNCHANGED <<pc, result, meta, container, repo>>

DeleteRepo(r) ==
  /\ Turn(r, "repo")
  /\ \E ans \in Answers :
       /\ CtxCall(r, ans)
       /\ repo' = RemoveVolume(repo, on[r], ans)
       /\ Note(r, ans = "ok" /\ (on[r] \in repo => container[on[r]] = "missing"))
  /\ UNCHANGED <<pc, result, meta, container, home>>

\* The metadata goes last, whatever failed before.
DeleteMetadata(r) ==
  /\ Turn(r, "meta")
  /\ \E ok \in BOOLEAN : StoreDelete(on[r], ok) /\ Note(r, ok)
  /\ UNCHANGED <<pc, result, container, repo, home>>

\* Slip: a delete that failed somewhere never answers.
DeleteReturnsOnSuccess(r) ==
  /\ pc[r] = "delete" /\ todo[r] = {} /\ r \notin failed
  /\ Return(r, "ok") /\ Emit(r, {"delete"})
  /\ Fixed /\ UNCHANGED <<meta, engineVars, faults>>

\* Delete answers with its first error, or logs the delete.
DeleteReturns(r) ==
  /\ pc[r] = "delete" /\ todo[r] = {}
  /\ IF r \in failed THEN Return(r, "error") /\ UNCHANGED logged
                     ELSE Return(r, "ok") /\ Emit(r, {"delete"})
  /\ Fixed /\ UNCHANGED <<meta, engineVars, faults>>

-----------------------------------------------------------------------------
(* The environment                                                          *)

\* The client of r disconnects: net/http cancels the request's context.
ClientGone(r) ==
  /\ InFlight(r) /\ r \notin gone /\ Cardinality(gone) < MaxGone
  /\ gone' = gone \union {r}
  /\ UNCHANGED <<storeVars, engineVars, op, on, pc, todo, failed, result, logged,
                 faults, crashes, history>>

\* The server dies and is started again: the requests under way are lost.
Crash ==
  /\ crashes < MaxCrashes
  /\ \E r \in Requests : InFlight(r)
  /\ crashes' = crashes + 1
  /\ pc' = [r \in Requests |-> IF InFlight(r) THEN "done" ELSE pc[r]]
  /\ result' = [r \in Requests |-> IF InFlight(r) THEN "crashed" ELSE result[r]]
  /\ UNCHANGED <<storeVars, engineVars, op, on, todo, failed, gone, logged, faults, history>>

\* A container exits by itself (its main process ends, the host reboots); a create
\* notices that when it clones.
ContainerExits(p) ==
  /\ container[p] = "running"
  /\ container' = [container EXCEPT ![p] = "stopped"]
  /\ disturbed' = disturbed \union {r \in Working(p) : op[r] \notin CreateOps}
  /\ UNCHANGED <<storeVars, repo, home, network, image, reqVars, faults, crashes, before>>

\* The engine ends a removal it has taken on, whether or not somebody waits.
RemovalEnds(p) ==
  /\ container[p] = "removing"
  /\ container' = [container EXCEPT ![p] = "missing"]
  /\ UNCHANGED <<storeVars, repo, home, network, image, reqVars, faults, crashes, history>>

-----------------------------------------------------------------------------
Init ==
  /\ meta = {} /\ used = {}
  /\ container = [p \in Projects |-> "missing"]
  /\ repo = {} /\ home = {}
  /\ network \in BOOLEAN /\ image \in BOOLEAN
  /\ op = [r \in Requests |-> "none"]
  /\ on = [r \in Requests |-> NoProject]
  /\ pc = [r \in Requests |-> "new"]
  /\ todo = [r \in Requests |-> {}]
  /\ failed = {} /\ gone = {}
  /\ result = [r \in Requests |-> "none"]
  /\ logged = [r \in Requests |-> {}]
  /\ faults = 0 /\ crashes = 0
  /\ before = [r \in Requests |-> Nothing]
  /\ disturbed = {}

\* What the server does for request r once it has accepted it.
Serve(r) ==
  \/ ListNetworks(r) \/ CreateNetwork(r) \/ InspectImage(r) \/ BuildImage(r)
  \/ CreateContainer(r) \/ RunStart(r) \/ CleanUp(r) \/ CleanUpEnds(r) \/ Rollback(r)
  \/ Clone(r) \/ StopContainer(r) \/ GetAgain(r) \/ StartContainer(r)
  \/ DeleteStop(r) \/ DeleteContainer(r) \/ RemovalReturns(r) \/ DeleteHome(r)
  \/ DeleteRepo(r) \/ DeleteMetadata(r) \/ DeleteReturns(r)

Request(r) ==
  \/ RefuseRequest(r)
  \/ \E o \in Ops, p \in Projects :
       AcceptCreate(r, o, p) \/ NoSuchProject(r, o, p) \/ AcceptOp(r, o, p)

Next ==
  \/ \E r \in Requests : Request(r) \/ Serve(r) \/ ClientGone(r)
  \/ Crash
  \/ \E p \in Projects : ContainerExits(p) \/ RemovalEnds(p)

Spec == Init /\ [][Next]_vars

\* The engine and the disk answer every call, the scheduler runs every handler, and
\* the engine ends the removals it begins.
FairSpec ==
  /\ Spec
  /\ \A r \in Requests : WF_vars(Serve(r))
  /\ \A p \in Projects : WF_vars(RemovalEnds(p))
=============================================================================
