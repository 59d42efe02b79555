# A TLA+ verification of side-project-saviour

side-project-saviour is a self-hosted server (Go, `server/`) with a web client
(`web/`): one user logs in with a mailed PIN, creates *projects*, each a Docker
container with a repo volume and a home volume, and opens terminals on tmux
sessions in them. This directory models its server, checks the models with TLC
and proves theorems about them with TLAPS.

    tlc -workers 2 -config Service_concurrent.cfg MCProjectService
    tlapm ProjectServiceProofs.tla

`PROJECT.json` lists the runs, the mutants that show a property can fail, the
source lines each definition stands for, the hazards, the findings and the
theorems.

## 1. Inventory

| Part | State it keeps | Operations | Interacts with |
|---|---|---|---|
| Project control plane, `internal/project/service.go`, routes in `internal/httpapi` | none of its own: the store and the engine | Create, Get, List, Start, Stop, Restart, Delete(scope) | store, Docker wrapper, event log; one goroutine per HTTP request, no lock |
| Docker wrapper, `internal/docker` | none: the engine's containers, volumes, network, images | EnsureNetwork, Create, Start, Run, Stop, Remove, RemoveVolume, Inspect(Image), Build, Exec, Attach, ResizeTTY, Logs, Ports, file copy | the engine, over a socket, most calls under the request's context |
| Project store, `internal/project/project.go` | `projects/<id>/project.json` | Create, Get, Update, Delete, List | the file system (temp file and rename) |
| Event log, `internal/events` | `events.log`, the id counter | Open, Append, Read; `GET /api/events` | every handler appends and drops the error; clients page with a cursor |
| Authentication, `internal/auth` | the PIN, its attempts and expiry, the request times, the signing secret's file | RequestPIN, Verify, tokens, RequireAuth, LoadOrCreateSecret | mailer, clock, all routes |
| Terminal bridge, `internal/httpapi/terminal.go` | per socket: a pipe, a write mutex, two goroutines, two channels | pre-flight, attach, pump, resize, shutdown | tmux through a Docker exec, the browser |
| tmux sessions, `internal/session` | none: the container's tmux server | List, Exists, Create, Attach, Resize | Docker exec |
| Container status, `internal/weathervane` | none | Inspect as missing, running or anything else | the engine, the control plane, the pre-flight |
| Harness registry, `internal/harness` | `harnesses/*.json` | SeedBuiltins, List | file system, the user's own edits |
| Configuration and bootstrap, `internal/config`, `internal/data` | configuration, directories | Load, Validate, Bootstrap | environment, `.env`, `../.env` |
| Server main, `cmd/server` | the port, the open log | start-up step by step, boot events, shutdown | all of the above; other processes on the same data directory |
| Web client, `web/src` | project list, current view, terminal | refresh, open, delete, reconnect | the HTTP API, the socket |

What is hard in it:

* **Interleaving.** Every request runs by itself; requests for the same project
  share the store and the engine and nothing serializes them.
* **Partial failure.** Create and Delete are chains of up to seven calls, each
  of which may fail, or be done and not confirmed; errors are dropped in several
  places (clean-up, rollback, the stop inside Delete, every event append).
* **Cancellation.** Most engine calls run under the request's context and fail
  once the client is gone, the clean-up after a failure included.
* **Crashes.** The server may die anywhere; disk and engine survive, nothing is
  resumed. A write of the event log may be torn.
* **Goroutines.** The terminal joins four goroutines, a pipe without buffer, a
  socket and a stream; it must end when either side does.
* **Time.** PIN expiry, the rolling window of requests, attempts.
* **Start-up.** Nothing locks the data directory: a second server seeds plugins and
  appends to the log before it is refused the port. A start may die anywhere, and
  the user edits the same files.

What makes each part correct: the properties below; what is left out, and why, is in
section 4.

## 2. Modules

### EventLog, EventFeed (EventLogProofs, MCEventLog)

Models `events.go` and `handleEvents`. A line is the event it decodes to: its
`id` and `n`, the serial number of the `Append` call (type, time and data tell
events apart and are abstracted to it); a line that does not decode is
`Garbage`. The file is `lines` (terminated by a newline) followed by `tail`.
`AppendEvent`, `AppendFails`, `CrashInAppend`, `Stop` and `Open` are the log,
`Poll` is one `GET /api/events`. `Append` holds the mutex from the counter to the
write, so it is one action. A failing or crashing write may leave nothing, a
fragment, or the whole record without its newline.

`EventFeed` is what the log promises, without lines, counter, process or writes: a new
event is newer than all there are (`Publish`), nothing but the newest ever goes again
and only while its append is unacknowledged (`Lose`), and a page is what comes after
the cursor, up to its last event, without a gap (`Deliver`). The mapping takes the feed
to the events that a read of the whole file would return, and "may still go" to a record
that lacks its newline: the next append runs into it. Failures, crashes and
restarts are stutters of it.

* `events_pages`: ids increase strictly along the file, new events get the
  largest ids, each torn write costs at most one acknowledged event; and while no
  write was torn, ids identify events for every client and a client that pages
  with its cursor, whatever its limits, misses nothing. `ImplementsEventFeed`: with
  torn writes and all, the file behaves like the feed; a torn write can so cost the
  append that follows it, but no event that another event has followed.
* `events_lost_ack` (finding): an append after a torn write is acknowledged and
  never read. If it was the last one, a restart hands its id out again, which is
  why the last two properties are conditional.

Bounds: 5 appends (enough for a torn write, an append onto it, a restart, and
two more; the properties of the proofs need none), two clients, limits 0, 1
and one above the cap; the cap and default are 3 and 2 instead of 1000 and 100,
as a page only has to be smaller and larger than what there is.

### ProjectService, ProjectServiceProps (ProjectServiceProofs, MCProjectService)

Models `service.go` with the engine and store calls it makes. A request `r` has
an operation `op[r]`, a project `on[r]` and the call it is about to make,
`pc[r]`; each call is one action, named after it. The engine is `container`
(missing, stopped, running per project), `repo`, `home`, `network`, `image`; the
store is `meta`, the set of projects that have a `project.json`. A call ends
"ok", "refused" (an error, nothing done) or "lost" (done, but reported as an
error: the connection broke, or the context was cancelled meanwhile). Calls that
take the request's context are refused once the client is gone; those that do
not (`ListNetworks`, `CreateNetwork`, `InspectImage`, `project.json`) go on.
A delete makes the calls of `Takes(scope)` in the order `Earlier` gives.

A forced removal takes its time: the engine takes it on (`RemoveContainer`), the
container is "removing" until `RemovalEnds`, and the caller waits (`CleanUpEnds`,
`RemovalReturns`), dies, or gives up. Meanwhile the engine answers a second removal
409, which `Docker.Remove` does not tolerate (`docker.go:152`), refuses to start the
container, and refuses to remove its volumes, which are in use.

`ProjectServiceProps` states what the control plane promises; `Effect` is the
sequential specification of each operation.

* `service_concurrent`: three requests of every kind on two projects, a crash,
  containers that exit, no failing calls. `SequentialEffect`: an operation that
  answered ok and had its project for itself did exactly what its name says, and
  the event log says so if and only if it answered ok. `NoOrphans`: when nobody
  works on a project that is not in the store, the engine has nothing of it, but for
  three exceptions: the client dropped the metadata alone, a delete of everything was
  answered with an error, or the create was overtaken by another request.
  `DeletesPrevail`: deletes that overlap may fail one another, but for each that failed
  another one of the project did not, and takes the container away; a delete that has
  its project for itself never fails. Creates that were overtaken are excepted.
* `service_faults`: one project, every kind of request, any overlap, one failing
  call (disk included). `WithinScope`: failed or half-done, an operation touches
  nothing outside its effect. `RepoKept`, `HomeKept`: a volume goes only under a
  delete that names it.
* `service_answers`: two requests on two projects, clients that leave, a failing
  call, a crash. `FailedCreateForgotten`: a create that failed before its clone is
  not in the list. `RequestsReturn`: under weak fairness of every request's calls,
  every accepted request ends. The code justifies it: each call ends when the
  engine answers or the context is cancelled, the disk answers, the engine ends the
  removals it begins, and the scheduler runs every goroutine; there is no lock and no
  loop.
* Findings: `service_stop_missing` (stop of a project whose container is gone
  answers 500; start does as well), `service_orphan_gone` (a client that leaves while
  its container starts leaves the container behind). What `NoOrphans` and
  `DeletesPrevail` have to except is visible in the model, and no run of its own: a
  delete of everything that overlaps a delete of the container fails at its removal
  (409), its volumes are refused, and it drops the metadata all the same, so that no
  request reaches the repo volume any more ("Confirm delete scopes don't leak",
  `docs/plan.md:195`, is an item still to be done); a delete that overtakes its create
  leaves what the create makes afterwards; and with failing calls a delete of
  everything drops the metadata whatever failed before. Two first creates may both
  list no network; the one that
  comes second to create it fails (`docker.go:85`, `:96`), and `SequentialEffect` and
  `FailedCreateForgotten` say that it fails cleanly: without its event, and forgotten.

Bounds: three requests (a create and two operations that overlap on it, or on
each other), two projects (to see that one project's operations leave the other
alone, and creates that race for the network and the image), one failure, one
departed client, one crash. Requests and projects are interchangeable:
`SYMMETRY` permutes them in the runs without liveness. `CHECK_DEADLOCK FALSE`:
the requests of an instance run out.

Abstractions: ids are drawn fresh (four random bytes; a collision overwrites a
project and is not modelled). Appending to the event log is merged with the call
before it, and only the types of a request's events are kept. A start of a
container that runs already may succeed or fail (the client library decides). A
removal that was taken on always ends, and is not itself what fails. An
anonymous volume goes with its container and is not modelled.

### Auth, Selection (AuthProofs, SelectionProofs)

Models `auth.go`: the one configured user's PIN (`record`, a `pinRecord` or
`NoRecord`), the request times that count (`requests`), the signing secret
(`secret`) and its file (`file`), under a clock `now` that `Tick` moves. Each exit
of `RequestPIN` and `Verify` is an action. `RequestPIN` holds the mutex while the
mail is sent, so it is `SendPIN`, which takes the mutex (`sending`), and
`MailAnswered`; meanwhile nobody enters. `Boot` is `LoadOrCreateSecret`; `Down` is
the end of the process, which forgets everything but the file. `served`, `tries`
and `latest` are histories of one process.

`Selection` is the loop that appends some elements of a slice to another, which
`RequestPIN` (the requests that still count) and `appendDotEnv` (the lines that are
added) share.

* `auth`: `PinsAreLimited` and `GuessesAreLimited` bound what one process serves
  and compares in any window, expiry, replacement and failed draws included;
  `LoginsAreEarned` says a login takes the PIN drawn last, alive, not guessed wrong
  too often, once; `RefusalsAreDue` that a refusal is backed by as many served
  requests, and a lock by as many wrong guesses of that PIN; `SessionsSurvive` that
  no restart ends a session while the file could be read.

Bounds: 2 requests and 2 attempts instead of 5, a window of 3 ticks, a PIN of 2
(shorter than the window, as in the code), a token of 3, five instants, two starts,
one of which may fail to read the file. Two PINs are a right and a wrong one, and
a fresh PIN may equal an earlier one. Clock steps backwards are not modelled
(Go's durations are monotonic). A request for an address that is not configured
changes nothing and is left out. `CHECK_DEADLOCK FALSE`: time and starts run out.

### Terminal (TerminalProofs)

Models `handleTerminal` and `runTerminal`: `main` is where the handler is, `reader`
the goroutine that reads the socket, `forward` the one that feeds `done`; `stdin`,
`output` and `attach` are the goroutines of the docker client (external), which
read the pipe, write through the bridge, and report the end. The pipe has no
buffer: the reader stays at "write" until `StdinTakes`. `inbox` holds the frames
that arrived and were not read. A frame is a numbered input, or `Other` (a resize
or junk). The pre-flight checks are one choice between refusal and upgrade.

* `OneWriter`, `PipeOutlivesReader`, `InputInOrder`; `BrowserGoneReturns` (the handler
  returns once the browser is gone, unless the attach ends by itself meanwhile) and
  `NothingStays` (a handler that returned leaves no goroutine behind) are checked
  behind the pre-flight, by the run `sessions` below.
* `terminal_session_end` (finding): when the session ends while the browser types,
  the reader is stuck on the pipe and the handler waits for it for ever. Closing
  the socket does not help a reader that is not reading the socket.

Fairness: every goroutine of the server that can go on does, strong fairness for
the two that compete for the mutex (Go's mutex does not starve); a stream that is
dropped ends; a browser that is there reads. Not assumed: that the browser sends,
stays or leaves, or that the session ends. Bounds of `terminal_session_end`: three
frames (one passed on, one taken after the end, one that blocks) and no output, which
has no part in it.
`CHECK_DEADLOCK FALSE`: a handler that returned is at its end.

Assumed of the docker client, whose source is not in the repository: it reads the
pipe one input at a time and may take one more after the exec ended; it may report
the end while it still writes output, which is what the mutex is for; it drops an
exec whose context is cancelled, as the comment at `terminal.go:98` says.

### Sessions (SessionsProofs)

Composes `Terminal` with what is before and around it: `handleCreateSession`
(`ensure`), the calls of the terminal's pre-flight (`look`), the container, and the
tmux sessions in it, which other clients, the user and the container's end make
come and go. `Docker.Exec` is three engine calls (create, start, inspect), each of
which may fail, or find the container gone; a command whose stream fails has run all
the same. `new-session` makes the session or finds it; `has-session -t` and
`attach -t` take the session of the name or else the only one whose name begins with
it (`Target`, tmux's rule). A tmux command that ends with an exit code
nobody expects is one of the failing calls, as the request answers 500 either way.
`LookGet` to `LookAnswers` and `Upgrade` take the place of `Terminal`'s one choice
`Preflight`, `AttachHere` is `Attach` with the container it
needs, `Join` is the moment tmux has found its session.

* `sessions`: the properties of the terminal, behind its pre-flight; `EnsuredOpens`: a
  tab whose ensure was answered 200 or 201 gets its terminal, unless the session has
  ended, a call failed, or the container or the project has gone meanwhile, and every
  terminal, dialled without an ensure too, is in the session of that very name if the
  ensure or the pre-flight came upon it and it still lives; `EnsureSettles`: over
  retries and lost answers one ensure at most is told that it made the session that
  lives, and none is refused without a reason.

Every step of `Sessions` is written as a step of `Terminal` or as none; what is proved
of a terminal is carried over by that (`TerminalBehind`), and is no result of its own.

Not covered is a client that dials while there is no session of the name: it may be let
into one whose name only begins with it, although `docs/plan.md:145`
asks for "Strict attach only: 404 when project, container, or session does not
exist". This rests on tmux, which is not in the repository, and is no finding of a run.

Bounds: two frames (one passed on, one taken after the end; two inputs to be in order)
and one piece of output (to meet the exit frame at the mutex), one longer name next to the name, two ensures (an answer
that is lost and its retry), one failing call. Values that nothing reads any more
are reset (`ensures` and `credits` when the tab dials, `calm` at the upgrade, `exit`
when answered). Fairness: as in `Terminal`, and the two requests go on, which the
engine's answering every call justifies. `CHECK_DEADLOCK FALSE`: a terminal that
returned is at its end.

### Config, Startup (StartupProofs, MCStartup)

`Config` is `config.Load` on a sequence of lines: `AppendDotEnv` layers `./.env`,
then `../.env`, under the environment, `Loads` refuses an unreadable file, an unknown
variable with a known prefix and an invalid value, `Settings` is what comes out. A
value is empty, one of two valid ones, or one that validation refuses; the lines of
a file are any sequence of such pairs, and a line without a key has `NoKey`. (The
comment at `config.go:16` counts the `SMTP_*` group among the required variables; the
code gives defaults to some of them and asks for none, and the model follows the code.)

`Startup` is `main.go`: processes on one data directory, each at its `stage`, from
`Load` over `Bootstrap`, `OpenLog`, `SeedBuiltins` (`Look`, `CreateFile` and
`FillFile`: Stat and the two steps of WriteFile), the ping, and the two boot events
to `Listen`, then `Serve`, `Signal` and `Drained`. A process may die at any stage,
its memory and port with it, and be started again; the user edits and deletes
plugins. An append may find the disk full, which is dropped.

* `startup`: `LoadedAsMeant` compares `Load` with a declarative reading of "Real
  environment variables always win": the first source that has the variable decides,
  in it the last line. `EditsKept`: a plugin that was there when a process began is
  never written by it. `BuiltinsWhole`: who listens has whole builtins, except those
  the user has touched, whose write was cut short (which no later start repairs), or
  is under way. `IdsIncreaseAlone`: ids increase over all starts as long as nobody
  appends while another process has the log open; a second server that will be
  refused the port does append before it is, and then ids may be given twice.
  `StartsAndStops`: every start ends in serving, in the end of the process, or in
  waiting for an engine that took the connection and does not answer (the ping has no
  timeout); every shutdown ends.

Fairness: `main` goes on where it can (each call returns, except a hung ping, whose
answer is not assumed). Bounds: two processes, three starts (one that is killed, one
that overlaps, one after), two builtins of which the user touches one, ids up to
two before requests stop logging. The first start sees every combination of sources
in `MCSources`, the others one that loads and one that does not: configuration is
read once and touches nothing else. `CHECK_DEADLOCK FALSE`: the starts run out.

### FileStore, AtomicStore (FileStoreProofs)

`FileStore` models `project.go`: the directories (`dir`), each project's
`project.json` and `project.json.tmp` (missing, partly or wholly written), and the
calls of Create, Delete and List as steps on them, each of which may fail, with a
crash between any two. `AtomicStore` is the interface: `meta`, the set of projects,
changes at one instant, and a list answers something between what was there
throughout and what was there at some time. The mapping takes `meta` to the projects
with a `project.json`: a create takes effect at its rename, a delete at its unlink.
`ProjectService` uses the store in this form.

* `store`: `NeverHalf` (no read meets a file in the middle of its writing) and
  `ImplementsAtomicStore`.

Bounds: two projects, one reader, two deletes (of the same or of different
projects), any number of failures and crashes. The process dies, not the machine:
the code does not sync the file before the rename, and what a power failure leaves
is not modelled. `Update` has no caller and is left out; it would share the
temporary's name between writers. Ids are drawn for one create each.

## 3. What is proved

All theorems hold for every number of requests, projects, clients, appends,
frames, limits, failures and crashes, under the `ASSUME`s of the modules.

* `EventLogProofs`: `TypeCorrect`; `IdsAlwaysIncrease`, `NewEventsAlwaysNewer`,
  `LossAlwaysBounded` (which includes that without torn writes every acknowledged
  event stays readable). The inductive invariant adds to `IdsIncrease` that, while
  the log is open, the counter is at least the id of every readable line; `Open`
  re-establishes it from the last one, which is the largest because ids increase.
  `NothingEverSkipped` and `IdsAlwaysIdentify`, from `PagesInv` (while nothing was
  torn, what was seen is in the file and a cursor is 0 or the id of an event of the
  file) and two lemmas: events stay (`EventsStay`), and a page is what is fresh up to
  its last event, a limit cutting off the end only (`PageIsPrefix`). `FeedImplemented`, the
  refinement, step by step: a whole line publishes its event or, on top of a torn one,
  loses the newest (`LineFeeds`), a prefix publishes, loses or changes nothing
  (`PrefixFeeds`), a poll delivers (`PollFeeds`, which rests on `PageIsPrefix`).
* `ProjectServiceProofs`: `TypeCorrect`; `RepoAlwaysKept` and `HomeAlwaysKept`,
  from the invariant `Consistent` (a request's call fits its operation, a delete
  only has calls of its scope left) and the lemma `ServeShape` (a request's step
  touches its own project only). `AlwaysWithinScope` and `OneAtATime`
  (`SequentialEffect`), from `Undisturbed`: a request that had its project for itself
  still has it, has changed of it at most what its operation may (`OnTheWay`), and
  has made of it what its past calls were for (`DoneSoFar`); and from `Unlogged` (no
  success is logged before the answer). `FailedCreatesForgotten` assumes that the
  disk removes what it is asked to (`~DiskFails`), without which a rollback cannot.
  `NothingOrphaned` and `DeletesAlwaysPrevail`, that is `NoOrphans` and `DeletesPrevail`
  where engine, disk and clients do not fail (`Calm`: no fault, no client that leaves;
  overlaps and crashes are allowed, and so are the errors that come of overlaps).
  `NoOrphans` speaks of quiet projects only and is not inductive; the invariant is
  `OrphanInv`. `NothingLeft` drops the quiet. It needs `CreateAlone` (a create nobody
  overtook has its project for itself, keeps it in the store, and has touched nothing
  before it creates the container) and `DeleteProgress` (what a delete that has not
  failed has removed stays removed while it goes on: nobody but a create adds to a
  project). `RemovalOwned` says who is to blame for a removal under way: a delete
  that has not failed, or a create that was overtaken; so a 409 has a delete behind it
  that prevails, a failed delete has got as far as its removal, and one that is alone
  never meets a removal but the one it awaits.
  `RequestsRunOut` is the safety half of `RequestsReturn`: whatever
  others do, the calls a request may still make (`Coming`) stay or become fewer, never
  others, and a delete that has calls left has one whose turn it is; so a request ends
  after finitely many calls, if each is answered.
* `SelectionProofs`: what the loop of `Selection` returns for every sequence: elements
  of it (`SelectedTyped`), namely those at the indices, all of them and in their order
  (`SelectedEnumerates`), the end of the sequence where the indices are the last ones
  (`SelectedEnd`). `Selecting` is a recursive function; that a function with its
  equation exists, and what follows from the equation, is shown by induction over a set
  (`UpTo`: the least counterexample of a well-founded order), as the prover takes no
  induction over a formula.
* `AuthProofs`: `TypeCorrect`; `LoginsAlwaysEarned`, from `Faithful` (the record in
  memory is what became of the PIN drawn last), and `SessionsAlwaysSurvive`, from
  `Signed` (while the file was always read, every token and the running process have
  its content). `PinsAlwaysLimited`, from `Counted`: the requests in memory are the end
  of what was served, and what was dropped is out of the window. `GuessesAlwaysLimited`,
  from `Guessed`: every guess can be given the number of requests served before it
  (`Tagging`), so that between a guess and the one `MaxAttempts` after it a request was
  served, and the guesses since the last request are among those the PIN in memory has
  had; too many guesses in a window would be too many requests in it.
  `RefusalsAlwaysDue`, from `Faithful` and `Counted`.
* `TerminalProofs`: `OneWriterAlways`, from `Locked` (the mutex is held exactly
  while a frame is written), and `PipeAlwaysOutlives`, from `Order` (only a
  returning handler closes the pipe). `TypeCorrect`, and `InputAlwaysInOrder`, from
  `Numbered`: the inputs under way are numbered upwards, after those the session got.
* `SessionsProofs`: `WritersBehindPreflight` and `InputBehindPreflight` carry the
  terminal's theorems over. `EnsuredAlwaysOpens` and `EnsureAlwaysSettles`, from `IInv`: the ensure
  request, the pre-flight and the terminal follow each other (`Sequence`), the
  histories are true (`Remembered`), at most one 201 is or will be given
  (`Credited`), and refusals have their reason, the pre-flight's finding included
  (`Reasoned`). `SessionsTypeCorrect`.
* `StartupProofs`: `TypeCorrect`; `UserKeepsPlugins`, from `Kept` (what a process found
  is there, and is not what it writes); `ServesWholeBuiltins`, from `Whole` (what
  nobody touched is missing, whole or being written, and behind SeedBuiltins not
  missing); `IdsIncrease`, from `Increasing` (alone, the counter of who has the log
  open is not behind its ids). `LoadsAsMeant`, from `Configured` (who is past its
  configuration was given what decided it) and the lemma `LoadsMeant`: for every
  environment and every two files `Load` decides as the declarative reading does,
  because what `appendDotEnv` adds is exactly what the environment does not have, in
  the order of the file (`AppendDotEnvKeeps`, `AppendDotEnvTakes`), so that the last
  line of a variable is that of the first source that has it.
* `FileStoreProofs`: `TypeCorrect`, `NeverAnyHalf`, and the refinement `StoreIsAtomic`, from `Files`
  (what is in place is whole, has a directory, and its create is done) and `Lists`
  (a list has found only what was there and passed over nothing that always was).

The assumptions say what a constant is (limits that are positive numbers, variables
that are not both known and unknown, environments and files that are sequences of
lines); each of them is evaluated by a run.

Only model-checked is liveness under fairness, which is out of the prover's reach:
`RequestsReturn` (but for its safety half), `BrowserGoneReturns`, `NothingStays` and
`StartsAndStops`. Every invariant, every action property and every refinement of the
passing runs is a theorem.

## 4. Not modelled

The order in which the modules were written is that of their weight: the event log
and the control plane, logins, the terminal, the store, sessions around the terminal,
start-up. What is left out, and why:

* **The web client.** React components with state of their own and no protocol beyond
  the calls they make; what the server sees of them is modelled: a tab that ensures
  its session, dials, types and goes (`Sessions`), clients that page (`EventLog`).
* **Operations without a caller or without state**: `Update` of the store; `Logs`,
  `Ports` and the file copies of the Docker wrapper; `List` of sessions and harnesses
  and `ResizeTTY`, which change nothing a model holds.
* **The store's steps under the control plane.** `ProjectService` uses the store as
  `AtomicStore`, which `FileStore` is proved to implement; their product is not run.
* **Two servers and one signing secret.** `Auth` has one process at a time; two that
  start together on a fresh directory may each write a secret (listed as a hazard). A
  secret given by the configuration is never written and is left out.
* **Clock steps and power failures.** Durations are monotonic in Go; the code does not
  sync, and what the machine's failure leaves on disk is the file system's affair.
* **Collisions of project ids**, four random bytes for a handful of projects.
* **Generated mocks, the UI kit**: generated code and presentation.
