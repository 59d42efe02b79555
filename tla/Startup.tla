------------------------------ MODULE Startup ------------------------------
(***************************************************************************)
(* The life of a server process (server/cmd/server/main.go) on its data     *)
(* directory: configuration, directories, event log, builtin harness        *)
(* plugins (server/internal/harness), Docker, the boot events, the port,    *)
(* and the shutdown.                                                        *)
(*                                                                         *)
(* A process may die anywhere and be started again, and nothing keeps two   *)
(* of them off one data directory: only the port has one owner, and it is   *)
(* taken last.  The user edits and deletes plugins as he likes.             *)
(***************************************************************************)
EXTENDS Config

CONSTANTS
  Processes,  \* server processes
  Builtins,   \* how many plugins are built in (4 in the code)
  Sources,    \* the environments and files a process may find
  Usual,      \* bound: those that the starts after the first MaxOdd find
  MaxOdd,
  NoOne,      \* owns the port when no process does
  Edited,     \* bound: the builtins the user has a hand in
  MaxBoots,   \* bound: starts in a behaviour
  MaxEvents   \* bound: the id from which on no request logs an event

ASSUME StartupAssumption ==
  /\ Builtins \in Nat \ {0} /\ NoOne \notin Processes
  /\ Usual \subseteq Sources /\ Edited \subseteq 1..Builtins
  /\ MaxOdd \in Nat /\ MaxBoots \in Nat /\ MaxEvents \in Nat

ASSUME SourcesAssumption ==
  \A s \in Sources :
    s.env \in Seq(Lines) /\ s.dot.lines \in Seq(Lines) /\ s.parent.lines \in Seq(Lines)

VARIABLES
  stage,    \* per process: where main is
  given,    \* the sources the process that is loading its configuration was given
  tree,     \* the directories of the data directory that exist
  plugin,   \* per builtin, its file: "none", "part", "builtin" or "user"
  at,       \* per process: the builtin SeedBuiltins is at
  written,  \* per process: the builtins it has written
  log,      \* the ids in events.log
  last,     \* per process: Log.id
  port,     \* who listens
  boots,
  excused,  \* history: builtins whose write was cut short, or that the user has touched
  there,    \* history, per process: builtins that were there ever since it began, until it has seeded
  alone     \* history: nobody appended while another process had the log open

files   == <<tree, plugin, log>>
history == <<excused, there, alone>>
vars == <<stage, given, tree, plugin, at, written, log, last, port, boots,
          excused, there, alone>>

Dirs == {"data", "projects", "harnesses", "ssh"}
Plugins == 1..Builtins

\* Loading has just come to its end.
Configuring == {"bootstrap", "refused"}

\* Between OpenLog and the end of the process its log is open.
HasLog == {"seed", "write", "writing", "ping", "hung", "boot", "announce", "listen",
           "serving", "draining"}
Booting == {"bootstrap", "open"} \union (HasLog \ {"serving", "draining"})

Goto(p, s) == stage' = [stage EXCEPT ![p] = s]

\* Nobody is loading.
NothingGiven == [env |-> <<>>, dot |-> File(<<>>), parent |-> File(<<>>)]

-----------------------------------------------------------------------------
(* Configuration, directories, event log                                    *)

\* A process is started.  Its configuration is its own affair, so it is enough to
\* see one process at it.
Load(p) ==
  /\ stage[p] = "off" /\ boots < MaxBoots
  /\ \A q \in Processes : stage[q] \notin Configuring
  /\ boots' = boots + 1
  /\ \E s \in IF boots < MaxOdd THEN Sources ELSE Usual :
       /\ given' = s
       /\ Goto(p, IF Loads(s) THEN "bootstrap" ELSE "refused")
  /\ there' = [there EXCEPT ![p] = {b \in Plugins : plugin[b] # "none"}]
  /\ UNCHANGED <<files, at, written, last, port, excused, alone>>

\* Directories that are there stay as they are.
Bootstrap(p) ==
  /\ stage[p] = "bootstrap"
  /\ tree' = Dirs /\ given' = NothingGiven
  /\ Goto(p, "open")
  /\ UNCHANGED <<plugin, at, written, log, last, port, boots, history>>

\* Slip: the counter begins anew.
OpenAfresh(p) ==
  /\ stage[p] = "open"
  /\ last' = [last EXCEPT ![p] = 0]
  /\ Goto(p, "seed")
  /\ UNCHANGED <<given, files, at, written, port, boots, history>>

\* The counter continues from the last line.
OpenLog(p) ==
  /\ stage[p] = "open"
  /\ last' = [last EXCEPT ![p] = IF log = <<>> THEN 0 ELSE log[Len(log)]]
  /\ Goto(p, "seed")
  /\ UNCHANGED <<given, files, at, written, port, boots, history>>

-----------------------------------------------------------------------------
(* SeedBuiltins: for each builtin os.Stat, and os.WriteFile if it is missing *)

NextPlugin(p) == at' = [at EXCEPT ![p] = @ + 1]

\* Slip: the builtin is written whatever is there.
LookAway(p) ==
  /\ stage[p] = "seed" /\ at[p] \in Plugins
  /\ Goto(p, "write") /\ at' = at
  /\ UNCHANGED <<given, files, written, last, port, boots, history>>

\* Stat: a file that is there is left alone, whatever it is.
Look(p) ==
  /\ stage[p] = "seed" /\ at[p] \in Plugins
  /\ IF plugin[at[p]] = "none" THEN Goto(p, "write") /\ at' = at
                               ELSE NextPlugin(p) /\ stage' = stage
  /\ UNCHANGED <<given, files, written, last, port, boots, history>>

\* WriteFile creates the file, or empties the one that has appeared meanwhile...
CreateFile(p) ==
  /\ stage[p] = "write"
  /\ plugin' = [plugin EXCEPT ![at[p]] = "part"]
  /\ Goto(p, "writing")
  /\ UNCHANGED <<given, tree, at, written, log, last, port, boots, history>>

\* Slip: a write that stops halfway passes for done.
FillHalf(p) ==
  /\ stage[p] = "writing"
  /\ written' = [written EXCEPT ![p] = @ \union {at[p]}]
  /\ NextPlugin(p) /\ Goto(p, "seed")
  /\ UNCHANGED <<given, files, last, port, boots, history>>

\* ...and fills it.
FillFile(p) ==
  /\ stage[p] = "writing"
  /\ plugin' = [plugin EXCEPT ![at[p]] = "builtin"]
  /\ written' = [written EXCEPT ![p] = @ \union {at[p]}]
  /\ NextPlugin(p) /\ Goto(p, "seed")
  /\ UNCHANGED <<given, tree, log, last, port, boots, history>>

\* All are there; newAuthService (see Auth) and docker.New follow.
SeedingEnds(p) ==
  /\ stage[p] = "seed" /\ at[p] = Builtins + 1
  /\ Goto(p, "ping") /\ at' = [at EXCEPT ![p] = 1]
  /\ there' = [there EXCEPT ![p] = {}]
  /\ UNCHANGED <<given, files, written, last, port, boots, excused, alone>>

-----------------------------------------------------------------------------
(* The services, the boot events, the port                                  *)

\* The engine answers, or is down, which is only a warning...
Ping(p) ==
  /\ stage[p] = "ping"
  /\ Goto(p, "boot")
  /\ UNCHANGED <<given, files, at, written, last, port, boots, history>>

\* ...or it takes the connection and does not answer: the ping has no timeout.
Hang(p) ==
  /\ stage[p] = "ping"
  /\ Goto(p, "hung")
  /\ UNCHANGED <<given, files, at, written, last, port, boots, history>>

Answer(p) ==
  /\ stage[p] = "hung"
  /\ Goto(p, "boot")
  /\ UNCHANGED <<given, files, at, written, last, port, boots, history>>

\* One event: its id is taken, and its line written unless the disk is full.
AppendEvent(p) ==
  /\ last' = [last EXCEPT ![p] = @ + 1]
  /\ log' \in {log, Append(log, last[p] + 1)}
  /\ alone' = (alone /\ \A q \in Processes \ {p} : stage[q] \notin HasLog)

AppendBoot(p) ==
  /\ stage[p] = "boot"
  /\ AppendEvent(p)
  /\ Goto(p, "announce")
  /\ UNCHANGED <<given, tree, plugin, at, written, port, boots, excused, there>>

\* What was seeded is an event too, if there was anything.
AppendSeeded(p) ==
  /\ stage[p] = "announce"
  /\ IF written[p] = {} THEN UNCHANGED <<log, last, alone>> ELSE AppendEvent(p)
  /\ Goto(p, "listen") /\ written' = [written EXCEPT ![p] = {}]
  /\ UNCHANGED <<given, tree, plugin, at, port, boots, excused, there>>

Listen(p) ==
  /\ stage[p] = "listen" /\ port = NoOne
  /\ port' = p
  /\ Goto(p, "serving")
  /\ UNCHANGED <<given, files, at, written, last, boots, history>>

-----------------------------------------------------------------------------
(* Requests, shutdown, death                                                *)

\* A request is served, under shutdown too, and logs something.
Serve(p) ==
  /\ stage[p] \in {"serving", "draining"} /\ last[p] < MaxEvents
  /\ AppendEvent(p)
  /\ UNCHANGED <<stage, given, tree, plugin, at, written, port, boots, excused, there>>

\* Slip: the listener stays open under shutdown.
SignalOpen(p) ==
  /\ stage[p] \in {"listen", "serving"}
  /\ Goto(p, "draining")
  /\ UNCHANGED <<given, files, at, written, last, port, boots, history>>

\* SIGTERM: nobody listens any more, requests under way are waited for.
Signal(p) ==
  /\ stage[p] \in {"listen", "serving"}
  /\ Goto(p, "draining")
  /\ port' = IF port = p THEN NoOne ELSE port
  /\ UNCHANGED <<given, files, at, written, last, boots, history>>

\* The process is over with its memory, and what it was writing is half-written.
Over(p) ==
  /\ Goto(p, "off")
  /\ port' = IF port = p THEN NoOne ELSE port
  /\ excused' = IF stage[p] = "writing" THEN excused \union {at[p]} ELSE excused
  /\ given' = IF stage[p] \in Configuring THEN NothingGiven ELSE given
  /\ at' = [at EXCEPT ![p] = 1] /\ written' = [written EXCEPT ![p] = {}]
  /\ last' = [last EXCEPT ![p] = 0] /\ there' = [there EXCEPT ![p] = {}]
  /\ UNCHANGED <<files, boots, alone>>

\* Slip: shutdown waits for the last request, however long.
DrainedIdle(p) == stage[p] = "draining" /\ last[p] >= MaxEvents /\ Over(p)

\* The requests are done, or ten seconds are over.
Drained(p) == stage[p] = "draining" /\ Over(p)

\* The configuration is refused, or the port is taken.
Exit(p) ==
  /\ \/ stage[p] = "refused"
     \/ stage[p] = "listen" /\ port # NoOne
  /\ Over(p)

\* Any other error on the way makes main exit; or the process is killed.
Die(p) == stage[p] # "off" /\ Over(p)

-----------------------------------------------------------------------------
(* The user                                                                 *)

Writing(b) == \E p \in Processes : stage[p] = "writing" /\ at[p] = b

UserEdits(b) ==
  /\ ~Writing(b)
  /\ plugin' = [plugin EXCEPT ![b] = "user"]
  /\ excused' = excused \union {b}
  /\ UNCHANGED <<stage, given, tree, at, written, log, last, port, boots, there, alone>>

UserDeletes(b) ==
  /\ ~Writing(b) /\ plugin[b] # "none"
  /\ plugin' = [plugin EXCEPT ![b] = "none"]
  /\ excused' = excused \union {b}
  /\ there' = [p \in Processes |-> there[p] \ {b}]
  /\ UNCHANGED <<stage, given, tree, at, written, log, last, port, boots, alone>>

-----------------------------------------------------------------------------
Init ==
  /\ stage = [p \in Processes |-> "off"]
  /\ given = NothingGiven
  /\ tree = {} /\ plugin = [b \in Plugins |-> "none"] /\ log = <<>>
  /\ at = [p \in Processes |-> 1] /\ written = [p \in Processes |-> {}]
  /\ last = [p \in Processes |-> 0]
  /\ port = NoOne /\ boots = 0
  /\ excused = {} /\ there = [p \in Processes |-> {}] /\ alone = TRUE

Seed(p) == Look(p) \/ CreateFile(p) \/ FillFile(p) \/ SeedingEnds(p)

\* What main does by itself once it was started.
Main(p) ==
  \/ Bootstrap(p) \/ OpenLog(p) \/ Seed(p) \/ Ping(p)
  \/ AppendBoot(p) \/ AppendSeeded(p) \/ Listen(p) \/ Exit(p) \/ Drained(p)

Next ==
  \/ \E p \in Processes : Load(p) \/ Main(p) \/ Serve(p) \/ Signal(p) \/ Die(p) \/ Hang(p) \/ Answer(p)
  \/ \E b \in Edited : UserEdits(b) \/ UserDeletes(b)

Spec == Init /\ [][Next]_vars

\* main goes on where it can.
FairSpec == Spec /\ \A p \in Processes : WF_vars(Main(p))

-----------------------------------------------------------------------------
(* Properties                                                               *)

Stages == {"off", "bootstrap", "refused", "open"} \union HasLog

\* The variables keep their types; the directories are there from Bootstrap on, and
\* only the owner of the port serves.
TypeOK ==
  /\ stage \in [Processes -> Stages] /\ given \in Sources \union {NothingGiven}
  /\ tree \subseteq Dirs /\ plugin \in [Plugins -> {"none", "part", "builtin", "user"}]
  /\ at \in [Processes -> 1..(Builtins + 1)] /\ written \in [Processes -> SUBSET Plugins]
  /\ log \in Seq(Nat) /\ last \in [Processes -> Nat]
  /\ port \in Processes \union {NoOne} /\ boots \in Nat
  /\ excused \subseteq Plugins /\ alone \in BOOLEAN
  /\ there \in [Processes -> SUBSET Plugins]
  /\ \A p \in Processes :
       /\ stage[p] \in {"write", "writing"} => at[p] \in Plugins
       /\ stage[p] \in {"open"} \union HasLog => tree = Dirs
       /\ stage[p] = "serving" <=> port = p

\* The value that is meant by an environment and two files: the first of the three
\* that has the variable decides, the environment before ./.env before ../.env
\* ("Real environment variables always win"), and in it the last line, an empty
\* value too.
Meant(s, k) ==
  LET sources == <<s.env, s.dot.lines, s.parent.lines>>
      having  == {i \in 1..3 : k \in KeysOf(sources[i])}
      lines   == sources[CHOOSE i \in having : \A j \in having : i <= j]
  IN  IF having = {} THEN "empty"
      ELSE lines[CHOOSE i \in DOMAIN lines :
                   lines[i].key = k /\ \A j \in DOMAIN lines : lines[j].key = k => j <= i].value

\* A process gets past its configuration exactly if both files can be read, no typo is
\* anywhere in them, not even hidden behind the environment, and the values that are
\* meant are valid; it has then the values that are meant (config.Load).
LoadedAsMeant ==
  \A p \in Processes :
    stage[p] \in Configuring =>
      /\ stage[p] = "bootstrap" <=>
           /\ given.dot.readable /\ given.parent.readable
           /\ Typos \intersect UNION {KeysOf(given.env), KeysOf(given.dot.lines),
                                      KeysOf(given.parent.lines)} = {}
           /\ \A k \in Keys : Meant(given, k) # "bad"
           /\ \A k \in Required : Meant(given, k) # "empty"
      /\ stage[p] = "bootstrap" => \A k \in Keys : Settings(given)[k] = Meant(given, k)

\* A plugin that was there when a process began, and that the user has not deleted
\* since, is never written by it ("the user may have edited them").
EditsKept ==
  [][\A p \in Processes, b \in Plugins :
       plugin'[b] # plugin[b] /\ stage'[p] # stage[p] => b \notin there[p]]_vars

\* When a server listens, every builtin is a whole file, however many starts failed or
\* died before and whoever else is starting, unless the user has had a hand in it, a
\* write of it was cut short, or is under way.
BuiltinsWhole ==
  \A p \in Processes : stage[p] \in {"serving", "draining"} =>
    \A b \in Plugins \ excused : plugin[b] = "builtin" \/ Writing(b)

\* As long as nobody appends while another process has the log open, the ids increase
\* along the log, over all the starts, deaths and events that a full disk swallowed.
IdsIncreaseAlone ==
  alone => \A i, j \in DOMAIN log : i < j => log[i] < log[j]

\* A start comes to its end: the server serves, whether the engine is there or not, or
\* the process is over, or it waits for an engine that does not answer.  And a
\* shutdown comes to its end.
StartsAndStops ==
  \A p \in Processes :
    /\ stage[p] \in Booting ~>
         stage[p] \in {"serving", "draining", "off", "hung"}
    /\ stage[p] = "draining" ~> stage[p] = "off"
=============================================================================
