------------------------------ MODULE Sessions ------------------------------
(***************************************************************************)
(* A terminal and the session it is about: a tab of the web client ensures  *)
(* its session (POST .../sessions), then dials the terminal (Terminal),     *)
(* while the container and its sessions come and go.                        *)
(*                                                                         *)
(* A tmux command runs by Docker.Exec, three calls of the engine: the exec  *)
(* is created, started, and inspected for the exit code.  Whatever fails in *)
(* between, the command may have done its work.                             *)
(***************************************************************************)
EXTENDS Terminal, FiniteSets

CONSTANTS
  Name,        \* the session the tab is about (ValidName allows it)
  Longer,      \* other names, which begin with Name
  NoSession,
  MaxEnsures,  \* bound: ensure requests of the tab
  MaxFaults    \* bound: engine calls that fail

ASSUME SessionsAssumption ==
  /\ Name \notin Longer /\ NoSession \notin Longer \union {Name}
  /\ MaxEnsures \in Nat /\ MaxFaults \in Nat

VARIABLES
  known,      \* project.json is there
  container,  \* "missing", "stopped", "running"
  sessions,   \* the sessions that live in it
  ensure,     \* where the ensure request is, or the status it was answered with
  look,       \* where the pre-flight of the terminal is, or the status it was refused with
  exit,       \* what the tmux command of the request did, until it is answered: "none",
              \* "made", "found", "missed"
  joined,     \* the session the terminal's attach is in
  ensures,
  faults,
  credits,    \* history: how often 201 was answered of the session that lives (and the
              \* event session.create appended), until the tab dials
  sure,       \* history: it lives ever since the tmux command of an ensure made or found it,
              \* or that of the pre-flight found it
  calm        \* history: since the request began no call has failed, and the project
              \* and its running container were there; until the terminal is open

project  == <<known, container, sessions>>
requests == <<ensure, look, exit, joined, ensures>>
history  == <<credits, sure, calm>>
tab      == <<browser, inbox, typed>>
allVars  == <<vars, project, requests, faults, history>>

Names == Longer \union {Name}

\* The session that tmux means by -t Name: that of the name or, if there is none,
\* the only one whose name begins like this.
Target ==
  IF Name \in sessions THEN Name
  ELSE IF Cardinality(sessions) = 1 THEN CHOOSE s \in sessions : TRUE ELSE NoSession

\* An engine call fails on its own account.  A tmux command that ends with an exit code
\* nobody expects counts as one: the request answers 500 either way.
Fails == faults < MaxFaults /\ faults' = faults + 1 /\ calm' = FALSE
Works == UNCHANGED <<faults, calm>>

\* A call of the engine on the container needs it to run.
CallFails == Fails \/ (container # "running" /\ Works)
CallWorks == container = "running" /\ Works

-----------------------------------------------------------------------------
(* The container and its sessions: other requests, other clients, the user. *)

SessionAppears(s) ==
  /\ container = "running" /\ s \notin sessions
  /\ sessions' = sessions \union {s}
  /\ UNCHANGED <<vars, known, container, requests, faults, history>>

\* What is remembered of the session ends with it.
Ends == credits' = 0 /\ sure' = FALSE

SessionEnds(s) ==
  /\ s \in sessions /\ sessions' = sessions \ {s}
  /\ IF s = Name THEN Ends ELSE UNCHANGED <<credits, sure>>
  /\ UNCHANGED <<vars, known, container, requests, faults, calm>>

ContainerEnds ==
  /\ \/ container = "running" /\ container' = "stopped"
     \/ container # "missing" /\ container' = "missing"
  /\ sessions' = {} /\ Ends /\ calm' = FALSE
  /\ UNCHANGED <<vars, known, requests, faults>>

ContainerStarts ==
  /\ container = "stopped" /\ container' = "running"
  /\ UNCHANGED <<vars, known, sessions, requests, faults, history>>

\* Nobody asks for the project once the tab has been let in.
ProjectForgotten ==
  /\ known /\ look \in {"none", "get"}
  /\ known' = FALSE /\ calm' = FALSE
  /\ UNCHANGED <<vars, container, sessions, requests, faults, credits, sure>>

-----------------------------------------------------------------------------
(* The ensure request: Projects.Get, tmux new-session, the answer.          *)

\* A call of the ensure request changes nothing but where it is.
EnsureCall(next) ==
  /\ ensure' = next
  /\ UNCHANGED <<vars, project, look, joined, ensures, credits>>

Answered == {"none", "200", "201", "404", "500"}

\* The tab is opened, or opened again.
EnsureBegins ==
  /\ ensure \in Answered /\ look = "none" /\ ensures < MaxEnsures
  /\ ensure' = "get" /\ ensures' = ensures + 1
  /\ calm' = (known /\ container = "running")
  /\ UNCHANGED <<vars, project, look, exit, joined, faults, credits, sure>>

\* The state of the container does not matter here.
EnsureGet ==
  /\ ensure = "get" /\ UNCHANGED <<exit, sure>>
  /\ \/ known /\ Works /\ EnsureCall("create")
     \/ known /\ Fails /\ EnsureCall("500")
     \/ ~known /\ Works /\ EnsureCall("404")

EnsureExec ==
  /\ ensure = "create" /\ UNCHANGED <<exit, sure>>
  /\ \/ CallWorks /\ EnsureCall("start")
     \/ CallFails /\ EnsureCall("500")

\* tmux makes the session unless there is one of that very name.
NewSession ==
  /\ sessions' = sessions \union {Name} /\ sure' = TRUE

\* The command runs; the call that waits for it may fail all the same.
EnsureRuns ==
  /\ ensure = "start" /\ container = "running" /\ NewSession
  /\ \/ Works /\ ensure' = "inspect" /\ exit' = IF Name \in sessions THEN "found" ELSE "made"
     \/ Fails /\ ensure' = "500" /\ exit' = exit
  /\ UNCHANGED <<vars, known, container, look, joined, ensures, credits>>

\* The command does not get to run.
EnsureStartFails ==
  /\ ensure = "start" /\ CallFails /\ EnsureCall("500")
  /\ UNCHANGED <<exit, sure>>

\* Slip: the answer does not tell a session that was made from one that was found.
AnswerCreated ==
  /\ ensure = "inspect"
  /\ \/ Works /\ ensure' = "201" /\ credits' = IF sure THEN credits + 1 ELSE credits
     \/ CallFails /\ ensure' = "500" /\ credits' = credits
  /\ exit' = "none"
  /\ UNCHANGED <<vars, project, look, joined, ensures, sure>>

\* The exit code decides: 201, or 200 when the session is a duplicate, and the
\* session.create event with it.  The engine may have forgotten the exec of a container
\* that does not run any more.
EnsureAnswers ==
  /\ ensure = "inspect"
  /\ \/ exit = "made" /\ Works /\ ensure' = "201" /\ credits' = IF sure THEN credits + 1 ELSE credits
     \/ exit = "found" /\ Works /\ ensure' = "200" /\ credits' = credits
     \/ CallFails /\ ensure' = "500" /\ credits' = credits
  /\ exit' = "none"
  /\ UNCHANGED <<vars, project, look, joined, ensures, sure>>

-----------------------------------------------------------------------------
(* The pre-flight: Projects.Get, tmux has-session, the upgrade.             *)

LookCall(next) ==
  /\ look' = next
  /\ UNCHANGED <<vars, project, ensure, joined, ensures, credits>>

\* The handler answers with a status instead of the upgrade.
Refuse(status) ==
  /\ Preflight /\ main' = "refused" /\ look' = status
  /\ UNCHANGED <<project, ensure, joined, ensures, credits>>

\* The tab dials once its session is ensured; a client may also do without.
Dial ==
  /\ look = "none" /\ ensure \in {"none", "200", "201"}
  /\ look' = "get" /\ ensures' = 0 /\ credits' = 0
  /\ calm' = (known /\ container = "running")
  /\ UNCHANGED <<vars, project, ensure, exit, joined, faults, sure>>

LookGet ==
  /\ look = "get" /\ UNCHANGED <<exit, sure>>
  /\ \/ known /\ Fails /\ Refuse("500")
     \/ ~known /\ Works /\ Refuse("404")
     \/ known /\ container = "missing" /\ Works /\ Refuse("404")
     \/ known /\ container = "stopped" /\ Works /\ Refuse("409")
     \/ known /\ container = "running" /\ Works /\ LookCall("create")

LookExec ==
  /\ look = "create" /\ UNCHANGED <<exit, sure>>
  /\ \/ CallWorks /\ LookCall("start")
     \/ CallFails /\ Refuse("500")

\* has-session reports what tmux means by the name; only a session of that very name
\* is sure to be the one that is attached to.
LookRuns ==
  /\ look = "start"
  /\ \/ /\ CallWorks /\ LookCall("inspect") /\ sure' = (Name \in sessions)
        /\ exit' = IF Target # NoSession THEN "found" ELSE "missed"
     \/ CallFails /\ Refuse("500") /\ UNCHANGED <<exit, sure>>

LookAnswers ==
  /\ look = "inspect" /\ exit' = "none" /\ sure' = sure
  /\ \/ exit = "found" /\ Works /\ LookCall("upgrade")
     \/ exit = "missed" /\ Works /\ Refuse("404")
     \/ CallFails /\ Refuse("500")

\* The answer is the upgrade, which fails when the browser has gone.
Upgrade ==
  /\ look = "upgrade" /\ Preflight
  /\ look' = IF main' = "refused" THEN "failed" ELSE "open"
  /\ calm' = FALSE
  /\ UNCHANGED <<project, ensure, exit, joined, ensures, faults, credits, sure>>

-----------------------------------------------------------------------------
(* The terminal                                                             *)

\* The exec of tmux attach is made.  It needs the container to run.
AttachHere ==
  /\ Attach
  /\ \/ main' = "select" /\ CallWorks
     \/ main' = "failing" /\ CallFails
  /\ UNCHANGED <<project, requests, credits, sure>>

\* Slip: the attach does not name its session.
JoinAny ==
  /\ attach = "running" /\ joined = NoSession
  /\ container = "running" /\ joined' \in sessions
  /\ UNCHANGED <<vars, project, ensure, look, exit, ensures, faults, history>>

\* tmux attaches to the session it finds by then.
Join ==
  /\ attach = "running" /\ joined = NoSession
  /\ container = "running" /\ Target # NoSession
  /\ joined' = Target
  /\ UNCHANGED <<vars, project, ensure, look, exit, ensures, faults, history>>

Apart == UNCHANGED <<project, requests, faults, history>>

\* The rest of the terminal is as in Terminal; a tab that has not dialled has no socket.
Bridge ==
  /\ \/ BrowserSends \/ AttachEnds \/ OutputComes \/ Client \/ Reader \/ Forward
     \/ SelectClosed \/ SelectDone \/ ExitLocks \/ ExitWritten \/ Return
     \/ BrowserGoes /\ look # "none"
  /\ Apart

-----------------------------------------------------------------------------

SessionsInit ==
  /\ Init
  /\ known = TRUE /\ container = "running" /\ sessions \in SUBSET Longer
  /\ ensure = "none" /\ look = "none" /\ exit = "none" /\ joined = NoSession
  /\ ensures = 0 /\ faults = 0 /\ credits = 0 /\ sure = FALSE /\ calm = TRUE

Ensure == EnsureGet \/ EnsureExec \/ EnsureRuns \/ EnsureStartFails \/ EnsureAnswers
Look == LookGet \/ LookExec \/ LookRuns \/ LookAnswers \/ Upgrade \/ AttachHere

SessionsNext ==
  \/ \E s \in Names : SessionAppears(s) \/ SessionEnds(s)
  \/ ContainerEnds \/ ContainerStarts \/ ProjectForgotten
  \/ EnsureBegins \/ Ensure \/ Dial \/ Look \/ Join \/ Bridge

SessionsSpec == SessionsInit /\ [][SessionsNext]_allVars

\* As in Terminal, and the requests go on: the engine answers every call.
FairSessions ==
  /\ SessionsSpec /\ WF_allVars(Ensure) /\ WF_allVars(Look)
  /\ WF_allVars((SelectClosed \/ SelectDone \/ ExitWritten \/ Return) /\ Apart)
  /\ WF_allVars(Reader /\ Apart) /\ WF_allVars(Forward /\ Apart)
  /\ WF_allVars(StdinTakes /\ Apart) /\ WF_allVars(StdinEnds /\ Apart)
  /\ WF_allVars(AttachDropped /\ Apart) /\ WF_allVars(OutputWritten /\ Apart)
  /\ SF_allVars(OutputLocks /\ Apart) /\ SF_allVars(ExitLocks /\ Apart)

-----------------------------------------------------------------------------
(* Properties                                                               *)

\* The variables keep their types; nothing lives in a container that does not run.
SessionsTypeOK ==
  /\ TypeOK
  /\ known \in BOOLEAN /\ container \in {"missing", "stopped", "running"}
  /\ sessions \subseteq (IF container = "running" THEN Names ELSE {})
  /\ ensure \in Answered \union {"get", "create", "start", "inspect"}
  /\ look \in {"none", "get", "create", "start", "inspect", "upgrade", "open", "failed",
               "404", "409", "500"}
  /\ exit \in {"none", "made", "found", "missed"} /\ joined \in Names \union {NoSession}
  /\ ensures \in 0..MaxEnsures /\ faults \in 0..MaxFaults
  /\ credits \in Nat /\ sure \in BOOLEAN /\ calm \in BOOLEAN
  /\ sure => Name \in sessions
  /\ look \in {"none", "get", "create", "start", "inspect", "upgrade"} <=> main = "preflight"

\* A tab whose ensure was answered 200 or 201 gets its terminal ("both mean we may
\* attach"), unless the session has ended, a call failed, or the container or the
\* project has gone meanwhile.  And the terminal, of a client that dials without an
\* ensure as well, is in the session of that very name if the ensure or the pre-flight
\* came upon it and it has not ended since, whatever other names begin with it.
EnsuredOpens ==
  sure =>
    /\ ensure \in {"200", "201"} /\ calm => look \notin {"404", "409", "500"}
    /\ joined \in {Name, NoSession}

\* However often it is asked, over answers that were lost, one ensure at most is told
\* that it made the session that lives; and one that finds the project, its container
\* running and the engine answering is never refused.
EnsureSettles ==
  /\ credits <= 1
  /\ ensure \in {"404", "500"} => ~calm
=============================================================================
