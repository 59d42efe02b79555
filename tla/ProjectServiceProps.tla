------------------------ MODULE ProjectServiceProps -------------------------
(* What the project control plane promises, one operation at a time and when *)
(* operations, failures and crashes interleave.                             *)
EXTENDS ProjectService

Labels == {"new", "list networks", "create network", "inspect image", "build image",
           "create container", "run", "clean up", "await clean up", "rollback", "clone",
           "start", "stop", "get", "delete", "await removal", "done"}
Results == {"none", "ok", "error", "notfound", "invalid", "crashed"}
EventTypes == {"create", "image.build", "clone", "ready", "error", "start", "stop", "delete"}

\* The variables keep their types.
TypeOK ==
  /\ meta \subseteq Projects /\ used \subseteq Projects
  /\ container \in [Projects -> {"missing", "stopped", "running", "removing"}]
  /\ repo \subseteq Projects /\ home \subseteq Projects
  /\ network \in BOOLEAN /\ image \in BOOLEAN
  /\ op \in [Requests -> CreateOps \union RunOps \union Scopes \union {"none"}]
  /\ on \in [Requests -> Projects \union {NoProject}]
  /\ pc \in [Requests -> Labels]
  /\ todo \in [Requests -> SUBSET {"stop", "remove", "home", "repo", "meta"}]
  /\ failed \subseteq Requests /\ gone \subseteq Requests
  /\ result \in [Requests -> Results]
  /\ logged \in [Requests -> SUBSET EventTypes]
  /\ faults \in 0..MaxFaults /\ crashes \in 0..MaxCrashes
  /\ disturbed \subseteq Requests
  /\ \A r \in Requests : InFlight(r) => on[r] \in Projects

-----------------------------------------------------------------------------
(* The sequential specification: what an operation makes of its project.    *)

Effect(o, s) ==
  CASE o \in CreateOps         -> [meta |-> TRUE, ctr |-> "running", repo |-> TRUE, home |-> TRUE]
    [] o \in {"start", "restart"} -> [s EXCEPT !.ctr = "running"]
    [] o = "stop"              -> [s EXCEPT !.ctr = "stopped"]
    [] o = "container"         -> [s EXCEPT !.ctr = "missing", !.home = FALSE]
    [] o = "repo"              -> [s EXCEPT !.ctr = "missing", !.repo = FALSE]
    [] o = "metadata"          -> [s EXCEPT !.meta = FALSE]
    [] o = "all"               -> Nothing
    [] OTHER                   -> s

\* The event that records a success.
Success(o) == CASE o \in CreateOps -> "ready" [] o \in {"start", "restart"} -> "start"
                [] o = "stop" -> "stop" [] OTHER -> "delete"

\* Two states of a project agree.
Alike(s, t) ==
  s.ctr = t.ctr /\ (s.meta <=> t.meta) /\ (s.repo <=> t.repo) /\ (s.home <=> t.home)

\* An operation that answers ok and had the project for itself did exactly what
\* its name says: the project, in the store and on the engine, is its sequential
\* effect on what the request found ("Delete removes exactly the requested
\* scope"), and the success event is in the history, which failures never get.
SequentialEffect ==
  [][\A r \in Requests :
       InFlight(r) /\ pc'[r] = "done" =>
         /\ result'[r] = "ok" /\ r \notin disturbed =>
              Alike(Snapshot(on[r])', Effect(op[r], before[r]))
         /\ result'[r] # "crashed" =>
              (result'[r] = "ok" <=> Success(op[r]) \in logged'[r])]_vars

\* Half-done, failed or abandoned, an operation that has its project for itself
\* touches nothing its effect does not touch; a container may be stopped on the
\* way to being restarted or removed, and is removed for a while before it is gone.
WithinScope ==
  \A r \in Requests :
    InFlight(r) /\ r \notin disturbed /\ op[r] \notin CreateOps =>
      LET s == Snapshot(on[r])  b == before[r]  e == Effect(op[r], b)
      IN  /\ (s.meta <=> b.meta) \/ (s.meta <=> e.meta)
          /\ (s.repo <=> b.repo) \/ (s.repo <=> e.repo)
          /\ (s.home <=> b.home) \/ (s.home <=> e.home)
          /\ \/ s.ctr \in {b.ctr, e.ctr}
             \/ s.ctr = "stopped" /\ (e.ctr # b.ctr \/ op[r] = "restart")
             \/ s.ctr = "removing" /\ e.ctr = "missing" /\ b.ctr # "missing"

-----------------------------------------------------------------------------
(* Whatever overlaps                                                        *)

\* The repo volume is the user's work: whatever requests overlap, fail or crash,
\* it disappears only under a delete that named the repo or everything of that
\* very project ("stop never touches the repo volume").
RepoKept ==
  [][\A p \in repo \ repo' :
       \E r \in Requests : InFlight(r) /\ on[r] = p /\ op[r] \in {"repo", "all"}]_vars

\* The same of the home volume, which goes with the container.
HomeKept ==
  [][\A p \in home \ home' :
       \E r \in Requests : InFlight(r) /\ on[r] = p /\ op[r] \in {"container", "all"}]_vars

\* A request on p came while p's create was under way.
Overtaken(p) == \E c \in disturbed : on[c] = p /\ op[c] \in CreateOps

\* A request after which the engine may keep something of a project that is not in
\* the store: the client asked for that, Delete answered it with an error, or it is a
\* create that was overtaken.
MayLeave(r) ==
  \/ op[r] = "metadata"
  \/ op[r] = "all" /\ r \in failed
  \/ op[r] \in CreateOps /\ r \in disturbed

\* When nobody works on it, what the engine keeps of a project belongs to a
\* project the API still knows: project.json is written first and removed last.
\* The exceptions all show in an answer, or in a create that was overtaken.
NoOrphans ==
  \A p \in Projects \ meta :
    Working(p) = {} /\ (\A r \in Requests : on[r] = p => ~MayLeave(r)) => NoSandbox(p)

\* The delete q found p in the store, and its call to remove p's container is made.
Removed(q, p) ==
  /\ on[q] = p /\ before[q].meta
  /\ op[q] \in {"container", "repo", "all"} /\ "remove" \notin todo[q]

\* Deletes that overlap other deletes, starts, stops and restarts fail one another,
\* the engine takes on one removal of a container at a time, but never all: for each
\* that failed there is one, of the same project, that did not, and whose removal of
\* the container goes through.  A delete that has its project for itself succeeds.
DeletesPrevail ==
  \A r \in failed :
    /\ r \in disturbed
    /\ Overtaken(on[r]) \/ \E q \in Requests \ failed : Removed(q, on[r])

\* A project whose create failed is not in the list, unless its clone failed:
\* then the sandbox is kept for repair.
FailedCreateForgotten ==
  \A r \in Requests :
    op[r] \in CreateOps /\ result[r] = "error" /\ "error" \notin logged[r]
      => on[r] \notin meta

\* Why NoOrphans holds where nothing fails: NothingLeft is NoOrphans without the
\* wait for the requests under way; the rest is what each of them relies on.
NothingLeft ==
  \A p \in Projects \ meta :
    (\A r \in Requests : on[r] = p => ~MayLeave(r)) => NoSandbox(p)

Quiet == faults = 0 /\ gone = {}

\* A create that nobody overtook has its project for itself, and has not touched the
\* engine before it creates the container, which nobody else starts.
Alone(r) ==
  /\ Working(on[r]) = {r} /\ on[r] \in meta
  /\ pc[r] \notin {"clean up", "await clean up"}
  /\ pc[r] \in {"list networks", "create network", "inspect image", "build image",
                "create container", "rollback"}
       => NoSandbox(on[r])
  /\ pc[r] = "run" => container[on[r]] = "stopped"

CreateAlone ==
  \A r \in Requests \ disturbed : InFlight(r) /\ op[r] \in CreateOps => Alone(r)

\* What a delete has removed stays removed while it goes on.
DeleteProgress ==
  \A r \in Requests \ failed :
    pc[r] \in {"delete", "await removal"} /\ op[r] # "metadata" /\ ~Overtaken(on[r]) =>
      /\ pc[r] = "delete" /\ "remove" \notin todo[r] => container[on[r]] = "missing"
      /\ "home" \in Takes(op[r]) \ todo[r] => on[r] \notin home
      /\ "repo" \in Takes(op[r]) \ todo[r] => on[r] \notin repo

\* A delete fails at its removal of the container at the earliest, and a container
\* is being removed for a delete that has not failed, which awaits that if it is alone.
RemovalOwned ==
  /\ \A r \in failed : on[r] \in Projects /\ "remove" \notin todo[r]
  /\ \A r \in Requests \ disturbed :
       InFlight(r) /\ container[on[r]] = "removing" => pc[r] = "await removal"
  /\ \A p \in Projects :
       container[p] = "removing" /\ ~Overtaken(p) =>
         \E q \in Requests \ failed : Removed(q, p)

\* What every behaviour keeps: the ids and the calls fit the operations.
Consistent ==
  /\ meta \subseteq used
  /\ \A p \in Projects \ used : NoSandbox(p)
  /\ \A r \in Requests : pc[r] # "new" /\ on[r] \in Projects => on[r] \in used
  /\ \A r \in Requests :
       /\ InFlight(r) => on[r] \in Projects /\ op[r] # "none"
       /\ pc[r] \in {"delete", "await removal"} <=> InFlight(r) /\ op[r] \in Scopes
       /\ pc[r] \in {"start", "stop", "get"} <=> InFlight(r) /\ op[r] \in RunOps
       /\ pc[r] \in {"delete", "await removal"} => todo[r] \subseteq Takes(op[r])
       /\ pc[r] = "new" => on[r] = NoProject

\* Every request that was accepted is answered, or dies with the server.
RequestsReturn == \A r \in Requests : InFlight(r) ~> pc[r] = "done"

-----------------------------------------------------------------------------
(* What the documents and tests say, and the code does not do               *)

\* Stopping a project whose container is gone succeeds, for a client that waits and
\* has the project for itself.
StopIsIdempotent ==
  \A r \in Requests :
    op[r] = "stop" /\ r \notin gone \union disturbed => result[r] # "error"

\* A create that failed before its clone left no container behind: Run cleans up
\* after a start that failed.
FailedCreateLeavesNoContainer ==
  \A r \in Requests :
    op[r] \in CreateOps /\ result[r] = "error" /\ "error" \notin logged[r]
      => container[on[r]] = "missing"
=============================================================================
