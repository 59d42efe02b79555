---------------------------- MODULE StartupProofs ----------------------------
(***************************************************************************)
(* What starts and deaths leave of the plugins and of the event log, for    *)
(* any number of processes, builtins, starts and events.                    *)
(***************************************************************************)
EXTENDS Startup, SelectionProofs

\* Nothing runs and nothing is there at first.
LEMMA TypeInit == Init => TypeOK
  BY StartupAssumption
     DEF Init, TypeOK, Stages, HasLog, Plugins, Dirs, NothingGiven, File

\* The steps that only move a process on.
LEMMA TypeMoves ==
  ASSUME TypeOK, NEW p \in Processes,
         Ping(p) \/ Hang(p) \/ Answer(p) \/ Look(p) \/ SeedingEnds(p) \/ OpenLog(p) \/ Bootstrap(p)
  PROVE  TypeOK'
<1> USE StartupAssumption DEF TypeOK, Stages, HasLog, Plugins, Dirs, files, history, Goto
<1>1. CASE Ping(p) \/ Hang(p) \/ Answer(p)
  BY <1>1, ZenonT(40) DEF Ping, Hang, Answer
<1>2. CASE Look(p)
  <2>1. CASE plugin[at[p]] = "none"
    BY <1>2, <2>1, ZenonT(40) DEF Look
  <2>2. CASE plugin[at[p]] # "none"
    <3>1. at[p] \in Plugins /\ at' = [at EXCEPT ![p] = @ + 1] /\ stage' = stage
      BY <1>2, <2>2 DEF Look, NextPlugin
    <3>2. at' \in [Processes -> 1..(Builtins + 1)]
      BY <3>1
    <3>3. UNCHANGED <<given, tree, plugin, written, log, last, port, boots, excused, there, alone>>
      BY <1>2 DEF Look
    <3>4. stage[p] = "seed"
      BY <1>2 DEF Look
    <3>5. \A q \in Processes : q # p => at'[q] = at[q]
      BY <3>1
    <3> QED BY <3>1, <3>2, <3>3, <3>4, <3>5
  <2> QED BY <2>1, <2>2
<1>3. CASE SeedingEnds(p)
  BY <1>3 DEF SeedingEnds
<1>4. CASE OpenLog(p)
  <2>1. log # <<>> => log[Len(log)] \in Nat
    OBVIOUS
  <2>2. last' \in [Processes -> Nat]
    BY <1>4, <2>1 DEF OpenLog
  <2>3. stage' = [stage EXCEPT ![p] = "seed"] /\ stage[p] = "open"
    BY <1>4 DEF OpenLog
  <2>4. UNCHANGED <<given, tree, plugin, log, at, written, port, boots, excused, there, alone>>
    BY <1>4 DEF OpenLog
  <2>5. tree = Dirs
    BY <2>3
  <2> QED BY <2>2, <2>3, <2>4, <2>5
<1>5. CASE Bootstrap(p)
  BY <1>5 DEF Bootstrap
<1> QED BY <1>1, <1>2, <1>3, <1>4, <1>5

\* Loading and writing.
LEMMA TypeWrites ==
  ASSUME TypeOK, NEW p \in Processes, Load(p) \/ CreateFile(p) \/ FillFile(p)
  PROVE  TypeOK'
<1> USE StartupAssumption DEF TypeOK, Stages, HasLog, Plugins, Dirs, files, history, Goto
<1>1. CASE Load(p)
  BY <1>1 DEF Load, Configuring
<1>2. CASE CreateFile(p)
  BY <1>2 DEF CreateFile
<1>3. CASE FillFile(p)
  BY <1>3 DEF FillFile, NextPlugin
<1> QED BY <1>1, <1>2, <1>3

\* An event keeps the log, the counter and the history in their types.
LEMMA AppendTyped ==
  ASSUME TypeOK, NEW p \in Processes, AppendEvent(p)
  PROVE  /\ log' \in Seq(Nat) /\ last' \in [Processes -> Nat] /\ alone' \in BOOLEAN
         /\ last'[p] = last[p] + 1 /\ \A q \in Processes \ {p} : last'[q] = last[q]
<1>1. log \in Seq(Nat) /\ last \in [Processes -> Nat] /\ alone \in BOOLEAN
  BY DEF TypeOK
<1>2. Append(log, last[p] + 1) \in Seq(Nat)
  BY <1>1
<1>3. log' \in Seq(Nat)
  BY <1>1, <1>2 DEF AppendEvent
<1>4. last' = [last EXCEPT ![p] = last[p] + 1]
  BY DEF AppendEvent
<1>5. alone' \in BOOLEAN
  BY DEF AppendEvent
<1> QED BY <1>1, <1>3, <1>4, <1>5

\* The event log and the port.
LEMMA TypeServes ==
  ASSUME TypeOK, NEW p \in Processes,
         AppendBoot(p) \/ AppendSeeded(p) \/ Serve(p) \/ Listen(p) \/ Signal(p)
  PROVE  TypeOK'
<1> USE StartupAssumption DEF TypeOK, Stages, HasLog, Plugins, Dirs, files, history, Goto
<1>1. CASE AppendBoot(p)
  BY <1>1, AppendTyped DEF AppendBoot
<1>2. CASE AppendSeeded(p)
  <2>1. log' \in Seq(Nat) /\ last' \in [Processes -> Nat] /\ alone' \in BOOLEAN
    BY <1>2, AppendTyped DEF AppendSeeded
  <2> QED BY <1>2, <2>1 DEF AppendSeeded
<1>3. CASE Serve(p)
  BY <1>3, AppendTyped DEF Serve
<1>4. CASE Listen(p)
  BY <1>4 DEF Listen
<1>5. CASE Signal(p)
  BY <1>5 DEF Signal
<1> QED BY <1>1, <1>2, <1>3, <1>4, <1>5

\* The end of a process, and the user.
LEMMA TypeEnds ==
  ASSUME TypeOK
  PROVE  /\ \A p \in Processes : Over(p) => TypeOK'
         /\ \A b \in Plugins : UserEdits(b) \/ UserDeletes(b) => TypeOK'
<1> USE StartupAssumption DEF TypeOK, Stages, HasLog, Plugins, Dirs, files, history, Goto
<1>1. ASSUME NEW p \in Processes, Over(p) PROVE TypeOK'
  <2>1. /\ stage' = [stage EXCEPT ![p] = "off"] /\ port' = IF port = p THEN NoOne ELSE port
        /\ at' = [at EXCEPT ![p] = 1] /\ written' = [written EXCEPT ![p] = {}]
        /\ last' = [last EXCEPT ![p] = 0] /\ there' = [there EXCEPT ![p] = {}]
        /\ UNCHANGED <<tree, plugin, log, boots, alone>>
    BY <1>1 DEF Over
  <2>2. given' \in Sources \union {NothingGiven}
    BY <1>1 DEF Over
  <2>3. excused' \subseteq Plugins
    BY <1>1 DEF Over
  <2>4. at' \in [Processes -> 1..(Builtins + 1)]
    BY <2>1
  <2>5. \A q \in Processes :
          /\ stage'[q] = IF q = p THEN "off" ELSE stage[q]
          /\ at'[q] = IF q = p THEN 1 ELSE at[q]
    BY <2>1
  <2>6. stage'[p] = "serving" <=> port' = p
    BY <2>1, <2>5
  <2>7. \A q \in Processes \ {p} : stage'[q] = "serving" <=> port' = q
    BY <2>1, <2>5
  <2> QED BY <2>1, <2>2, <2>3, <2>4, <2>5, <2>6, <2>7
<1>2. ASSUME NEW b \in Plugins, UserEdits(b) PROVE TypeOK'
  BY <1>2 DEF UserEdits
<1>3. ASSUME NEW b \in Plugins, UserDeletes(b) PROVE TypeOK'
  BY <1>3 DEF UserDeletes
<1> QED BY <1>1, <1>2, <1>3

\* A step is one of these.
LEMMA Steps ==
  ASSUME Next
  PROVE  \/ \E p \in Processes :
              \/ Ping(p) \/ Hang(p) \/ Answer(p) \/ Look(p) \/ SeedingEnds(p) \/ OpenLog(p) \/ Bootstrap(p)
              \/ Load(p) \/ CreateFile(p) \/ FillFile(p)
              \/ AppendBoot(p) \/ AppendSeeded(p) \/ Serve(p) \/ Listen(p) \/ Signal(p)
              \/ Over(p)
         \/ \E b \in Plugins : UserEdits(b) \/ UserDeletes(b)
<1>1. ASSUME NEW p \in Processes, Exit(p) \/ Drained(p) \/ Die(p) PROVE Over(p)
  BY <1>1 DEF Exit, Drained, Die
<1> QED BY <1>1, StartupAssumption DEF Next, Main, Seed, Plugins

\* The types hold throughout.
LEMMA TypeStep == TypeOK /\ [Next]_vars => TypeOK'
<1>1. ASSUME TypeOK, Next PROVE TypeOK'
  BY <1>1, Steps, TypeMoves, TypeWrites, TypeServes, TypeEnds
<1>2. ASSUME TypeOK, UNCHANGED vars PROVE TypeOK'
  BY <1>2 DEF vars, TypeOK
<1> QED BY <1>1, <1>2

\* Whatever dies, whoever starts beside it: only who listens owns the port, and who has
\* come past Bootstrap has its directories.
THEOREM TypeCorrect == Spec => []TypeOK
  BY TypeInit, TypeStep, PTL DEF Spec

-----------------------------------------------------------------------------
\* What a process found is there as long as it counts, and it writes something else.
Kept ==
  \A p \in Processes :
    /\ \A b \in there[p] : plugin[b] # "none"
    /\ stage[p] \in {"write", "writing"} => at[p] \notin there[p]

\* Nobody has begun.
LEMMA KeptInit == Init => Kept
  BY DEF Init, Kept

\* Only a deletion takes a plugin away, and it clears the history; Look sends to a write
\* only where nothing is.
LEMMA KeptStep == TypeOK /\ Kept /\ [Next]_vars => Kept'
<1> USE DEF Kept, Goto, files, history
<1>1. ASSUME TypeOK, Kept, NEW p \in Processes, Load(p) PROVE Kept'
  BY <1>1 DEF Load, TypeOK
<1>2. ASSUME TypeOK, Kept, NEW p \in Processes,
             Ping(p) \/ Hang(p) \/ Answer(p) \/ OpenLog(p) \/ Bootstrap(p) \/ Listen(p) \/ Signal(p)
      PROVE  Kept'
  <2>1. UNCHANGED <<plugin, at, there>> /\ stage' \in [Processes -> Stages]
        /\ \A q \in Processes : stage'[q] \in {"write", "writing"} => stage'[q] = stage[q]
    BY <1>2 DEF Ping, Hang, Answer, OpenLog, Bootstrap, Listen, Signal, TypeOK, Stages, HasLog
  <2> QED BY <2>1, <1>2
<1>3. ASSUME TypeOK, Kept, NEW p \in Processes, AppendBoot(p) \/ AppendSeeded(p) \/ Serve(p)
      PROVE  Kept'
  <2>1. UNCHANGED <<plugin, at, there>>
        /\ \A q \in Processes : stage'[q] \in {"write", "writing"} => stage'[q] = stage[q]
    BY <1>3 DEF AppendBoot, AppendSeeded, Serve, TypeOK
  <2> QED BY <2>1, <1>3
<1>4. ASSUME TypeOK, Kept, NEW p \in Processes, Look(p) PROVE Kept'
  <2>1. CASE plugin[at[p]] = "none"
    BY <1>4, <2>1 DEF Look, TypeOK
  <2>2. CASE plugin[at[p]] # "none"
    <3>1. stage' = stage /\ stage[p] = "seed" /\ UNCHANGED <<plugin, there>>
          /\ \A q \in Processes : q # p => at'[q] = at[q]
      BY <1>4, <2>2 DEF Look, NextPlugin, TypeOK
    <3> QED BY <1>4, <3>1
  <2> QED BY <2>1, <2>2
<1>5. ASSUME TypeOK, Kept, NEW p \in Processes, SeedingEnds(p) PROVE Kept'
  BY <1>5 DEF SeedingEnds, TypeOK
<1>6. ASSUME TypeOK, Kept, NEW p \in Processes, CreateFile(p) PROVE Kept'
  BY <1>6 DEF CreateFile, TypeOK
<1>7. ASSUME TypeOK, Kept, NEW p \in Processes, FillFile(p) PROVE Kept'
  BY <1>7 DEF FillFile, NextPlugin, TypeOK
<1>8. ASSUME TypeOK, Kept, NEW p \in Processes, Over(p) PROVE Kept'
  BY <1>8 DEF Over, TypeOK
<1>9. ASSUME TypeOK, Kept, NEW b \in Plugins, UserEdits(b) PROVE Kept'
  BY <1>9 DEF UserEdits, TypeOK
<1>10. ASSUME TypeOK, Kept, NEW b \in Plugins, UserDeletes(b) PROVE Kept'
  BY <1>10 DEF UserDeletes, TypeOK
<1>11. ASSUME Kept, UNCHANGED vars PROVE Kept'
  BY <1>11 DEF vars
<1>12. ASSUME TypeOK, Kept, Next PROVE Kept'
  BY <1>12, Steps, <1>1, <1>2, <1>3, <1>4, <1>5, <1>6, <1>7, <1>8, <1>9, <1>10
<1> QED BY <1>11, <1>12

\* A plugin that changes while a process moves is the one that process is writing.
LEMMA EditsKeptStep ==
  ASSUME TypeOK, Kept, [Next]_vars,
         NEW q \in Processes, NEW b \in Plugins, plugin'[b] # plugin[b], stage'[q] # stage[q]
  PROVE  b \notin there[q]
<1> USE DEF Goto, files, history
<1>1. ASSUME NEW p \in Processes, CreateFile(p) \/ FillFile(p) PROVE b \notin there[q]
  <2>1. stage[p] \in {"write", "writing"} /\ b = at[p]
    BY <1>1 DEF CreateFile, FillFile, TypeOK
  <2>2. q = p
    BY <1>1 DEF CreateFile, FillFile, TypeOK
  <2> QED BY <2>1, <2>2 DEF Kept
<1>2. ASSUME NEW p \in Processes,
             \/ Ping(p) \/ Hang(p) \/ Answer(p) \/ Look(p) \/ SeedingEnds(p) \/ OpenLog(p) \/ Bootstrap(p)
             \/ Load(p) \/ AppendBoot(p) \/ AppendSeeded(p) \/ Serve(p) \/ Listen(p) \/ Signal(p)
             \/ Over(p)
      PROVE  plugin' = plugin
  BY <1>2 DEF Ping, Hang, Answer, Look, SeedingEnds, OpenLog, Bootstrap, Load,
              AppendBoot, AppendSeeded, Serve, Listen, Signal, Over
<1>3. ASSUME NEW c \in Plugins, UserEdits(c) \/ UserDeletes(c) PROVE stage' = stage
  BY <1>3 DEF UserEdits, UserDeletes
<1>4. CASE Next
  BY <1>4, Steps, <1>1, <1>2, <1>3
<1> QED BY <1>4 DEF vars

\* SeedBuiltins never writes over a plugin that was there when the process began, however
\* many processes seed at once, die in it and start again.
THEOREM UserKeepsPlugins == Spec => EditsKept
<1>1. TypeOK /\ Kept /\ [Next]_vars =>
        [\A p \in Processes, b \in Plugins :
           plugin'[b] # plugin[b] /\ stage'[p] # stage[p] => b \notin there[p]]_vars
  BY EditsKeptStep
<1> QED BY <1>1, TypeInit, TypeStep, KeptInit, KeptStep, PTL DEF Spec, EditsKept

-----------------------------------------------------------------------------
\* SeedBuiltins of p has b behind it.
Past(p, b) ==
  \/ stage[p] \in HasLog \ {"seed", "write", "writing"}
  \/ stage[p] \in {"seed", "write", "writing"} /\ b < at[p]

\* What nobody has touched is missing, whole or being written; behind SeedBuiltins
\* nothing is missing.
Whole ==
  /\ \A b \in Plugins \ excused : plugin[b] \in {"none", "builtin"} \/ Writing(b)
  /\ \A p \in Processes : stage[p] \notin {"seed", "write", "writing"} => at[p] = 1
  /\ \A p \in Processes, b \in Plugins \ excused : Past(p, b) => plugin[b] # "none"

\* Everything is missing.
LEMMA WholeInit == Init => Whole
  BY DEF Init, Whole, Past, HasLog, Plugins

\* The steps that do not write.
LEMMA WholeMoves ==
  ASSUME TypeOK, Whole, NEW p \in Processes,
         \/ Ping(p) \/ Hang(p) \/ Answer(p) \/ OpenLog(p) \/ Bootstrap(p) \/ Load(p)
         \/ AppendBoot(p) \/ AppendSeeded(p) \/ Serve(p) \/ Listen(p) \/ Signal(p)
  PROVE  Whole'
<1>1. UNCHANGED <<plugin, at, excused>>
  BY DEF Ping, Hang, Answer, OpenLog, Bootstrap, Load, AppendBoot, AppendSeeded, Serve,
         Listen, Signal, files, history
<1>2. \A q \in Processes \ {p} : stage'[q] = stage[q]
  BY DEF Ping, Hang, Answer, OpenLog, Bootstrap, Load, AppendBoot, AppendSeeded, Serve,
         Listen, Signal, Goto, TypeOK
<1>3. \/ stage'[p] = stage[p]
      \/ /\ stage[p] \notin {"seed", "write", "writing"} /\ stage'[p] \notin {"write", "writing"}
         /\ stage'[p] \in HasLog \ {"seed"} => stage[p] \in HasLog
  BY DEF Ping, Hang, Answer, OpenLog, Bootstrap, Load, AppendBoot, AppendSeeded, Serve,
         Listen, Signal, Goto, TypeOK, HasLog
<1>4. \A b \in Plugins : Writing(b) => Writing(b)'
  BY <1>1, <1>2, <1>3 DEF Writing
<1>5. \A q \in Processes, b \in Plugins : Past(q, b)' => Past(q, b)
  <2>1. ASSUME NEW q \in Processes \ {p}, NEW b \in Plugins PROVE Past(q, b)' => Past(q, b)
    BY <1>1, <1>2 DEF Past
  <2>2. ASSUME NEW b \in Plugins PROVE Past(p, b)' => Past(p, b)
    <3>1. CASE stage'[p] = stage[p]
      BY <1>1, <3>1 DEF Past
    <3>2. CASE stage'[p] # stage[p]
      <4>1. at'[p] = 1 /\ ~(b < 1)
        BY <1>1, <1>3, <3>2, StartupAssumption DEF Whole, Plugins
      <4> QED BY <1>3, <3>2, <4>1 DEF Past
    <3> QED BY <3>1, <3>2
  <2> QED BY <2>1, <2>2
<1>6. \A q \in Processes : stage'[q] \notin {"seed", "write", "writing"} => at'[q] = 1
  BY <1>1, <1>2, <1>3 DEF Whole
<1> QED BY <1>1, <1>4, <1>5, <1>6 DEF Whole

\* SeedBuiltins, Stat by Stat and write by write.
LEMMA WholeSeeds ==
  ASSUME TypeOK, Whole, NEW p \in Processes,
         Look(p) \/ CreateFile(p) \/ FillFile(p) \/ SeedingEnds(p)
  PROVE  Whole'
<1> USE StartupAssumption DEF Goto, files, history
<1>0. /\ stage \in [Processes -> Stages] /\ at \in [Processes -> 1..(Builtins + 1)]
      /\ plugin \in [Plugins -> {"none", "part", "builtin", "user"}]
  BY DEF TypeOK
<1>1. CASE Look(p)
  <2>1. CASE plugin[at[p]] = "none"
    <3>1. /\ UNCHANGED <<plugin, at, excused>> /\ stage[p] = "seed" /\ stage'[p] = "write"
          /\ \A q \in Processes \ {p} : stage'[q] = stage[q]
      BY <1>0, <1>1, <2>1 DEF Look
    <3>2. \A b \in Plugins : Writing(b) => Writing(b)'
      BY <3>1 DEF Writing
    <3>3. \A q \in Processes, b \in Plugins : Past(q, b)' => Past(q, b)
      BY <3>1 DEF Past, HasLog
    <3> QED BY <3>1, <3>2, <3>3 DEF Whole
  <2>2. CASE plugin[at[p]] # "none"
    <3>1. /\ UNCHANGED <<plugin, stage, excused>> /\ stage[p] = "seed" /\ at[p] \in Plugins
          /\ at'[p] = at[p] + 1 /\ \A q \in Processes \ {p} : at'[q] = at[q]
      BY <1>0, <1>1, <2>2 DEF Look, NextPlugin
    <3>2. \A b \in Plugins : Writing(b) => Writing(b)'
      BY <3>1 DEF Writing
    <3>3. \A q \in Processes, b \in Plugins : Past(q, b)' => Past(q, b) \/ b = at[p]
      BY <1>0, <3>1 DEF Past, Plugins
    <3>4. \A q \in Processes : stage'[q] \notin {"seed", "write", "writing"} => at'[q] = 1
      BY <3>1 DEF Whole
    <3> QED BY <2>2, <3>1, <3>2, <3>3, <3>4 DEF Whole
  <2> QED BY <2>1, <2>2
<1>2. CASE CreateFile(p)
  <2>1. /\ plugin' = [plugin EXCEPT ![at[p]] = "part"] /\ UNCHANGED <<at, excused>>
        /\ stage[p] = "write" /\ stage'[p] = "writing"
        /\ \A q \in Processes \ {p} : stage'[q] = stage[q]
    BY <1>0, <1>2 DEF CreateFile
  <2>2. \A b \in Plugins : Writing(b) => Writing(b)'
    BY <2>1 DEF Writing
  <2>3. \A b \in Plugins : b = at[p] => Writing(b)'
    BY <2>1 DEF Writing
  <2>4. \A q \in Processes, b \in Plugins : Past(q, b)' => Past(q, b)
    BY <2>1 DEF Past, HasLog
  <2>5. \A b \in Plugins : plugin'[b] = IF b = at[p] THEN "part" ELSE plugin[b]
    BY <1>0, <2>1
  <2>6. \A b \in Plugins \ excused' : plugin'[b] \in {"none", "builtin"} \/ Writing(b)'
    <3> TAKE b \in Plugins \ excused'
    <3>1. CASE b = at[p]
      BY <2>3, <3>1
    <3>2. CASE b # at[p]
      BY <2>1, <2>2, <2>5, <3>2 DEF Whole
    <3> QED BY <3>1, <3>2
  <2>7. \A q \in Processes : stage'[q] \notin {"seed", "write", "writing"} => at'[q] = 1
    BY <2>1 DEF Whole
  <2>8. \A q \in Processes, b \in Plugins \ excused' : Past(q, b)' => plugin'[b] # "none"
    BY <2>1, <2>4, <2>5 DEF Whole
  <2> QED BY <2>6, <2>7, <2>8 DEF Whole
<1>3. CASE FillFile(p)
  <2>1. /\ plugin' = [plugin EXCEPT ![at[p]] = "builtin"] /\ UNCHANGED excused
        /\ stage[p] = "writing" /\ stage'[p] = "seed" /\ at'[p] = at[p] + 1
        /\ \A q \in Processes \ {p} : stage'[q] = stage[q] /\ at'[q] = at[q]
    BY <1>0, <1>3 DEF FillFile, NextPlugin
  <2>2. \A b \in Plugins : Writing(b) => Writing(b)' \/ b = at[p]
    BY <2>1 DEF Writing
  <2>3. \A q \in Processes, b \in Plugins : Past(q, b)' => Past(q, b) \/ b = at[p]
    BY <1>0, <2>1 DEF Past, HasLog, Plugins
  <2>4. \A b \in Plugins : plugin'[b] = IF b = at[p] THEN "builtin" ELSE plugin[b]
    BY <1>0, <2>1
  <2>5. \A b \in Plugins \ excused' : plugin'[b] \in {"none", "builtin"} \/ Writing(b)'
    BY <2>1, <2>2, <2>4 DEF Whole
  <2>6. \A q \in Processes : stage'[q] \notin {"seed", "write", "writing"} => at'[q] = 1
    BY <2>1 DEF Whole
  <2>7. \A q \in Processes, b \in Plugins \ excused' : Past(q, b)' => plugin'[b] # "none"
    BY <2>1, <2>3, <2>4 DEF Whole
  <2> QED BY <2>5, <2>6, <2>7 DEF Whole
<1>4. CASE SeedingEnds(p)
  <2>1. /\ UNCHANGED <<plugin, excused>> /\ stage[p] = "seed" /\ at[p] = Builtins + 1
        /\ stage'[p] = "ping" /\ at'[p] = 1
        /\ \A q \in Processes \ {p} : stage'[q] = stage[q] /\ at'[q] = at[q]
    BY <1>0, <1>4 DEF SeedingEnds
  <2>2. \A b \in Plugins : Writing(b) => Writing(b)'
    BY <2>1 DEF Writing
  <2>3. \A q \in Processes, b \in Plugins : Past(q, b)' => Past(q, b)
    BY <1>0, <2>1 DEF Past, Plugins
  <2>4. \A q \in Processes : stage'[q] \notin {"seed", "write", "writing"} => at'[q] = 1
    BY <2>1 DEF Whole
  <2> QED BY <2>1, <2>2, <2>3, <2>4 DEF Whole
<1> QED BY <1>1, <1>2, <1>3, <1>4

\* The end of a process, which excuses what it was writing, and the user.
LEMMA WholeEnds ==
  ASSUME TypeOK, Whole
  PROVE  /\ \A p \in Processes : Over(p) => Whole'
         /\ \A b \in Plugins : UserEdits(b) \/ UserDeletes(b) => Whole'
<1>0. /\ stage \in [Processes -> Stages] /\ at \in [Processes -> 1..(Builtins + 1)]
      /\ plugin \in [Plugins -> {"none", "part", "builtin", "user"}]
  BY DEF TypeOK
<1>1. ASSUME NEW p \in Processes, Over(p) PROVE Whole'
  <2>1. /\ plugin' = plugin /\ stage'[p] = "off" /\ at'[p] = 1
        /\ \A q \in Processes \ {p} : stage'[q] = stage[q] /\ at'[q] = at[q]
        /\ excused' = IF stage[p] = "writing" THEN excused \union {at[p]} ELSE excused
    BY <1>0, <1>1 DEF Over, Goto, files
  <2>2. \A b \in Plugins \ excused' : Writing(b) => Writing(b)'
    BY <2>1 DEF Writing
  <2>3. \A q \in Processes, b \in Plugins : Past(q, b)' => Past(q, b)
    BY <2>1 DEF Past, HasLog
  <2>4. \A q \in Processes : stage'[q] \notin {"seed", "write", "writing"} => at'[q] = 1
    BY <2>1 DEF Whole
  <2>5. excused \subseteq excused'
    BY <2>1
  <2> QED BY <2>1, <2>2, <2>3, <2>4, <2>5 DEF Whole
<1>2. ASSUME NEW b \in Plugins, UserEdits(b) \/ UserDeletes(b) PROVE Whole'
  <2>1. /\ UNCHANGED <<stage, at>> /\ excused' = excused \union {b}
        /\ \A c \in Plugins \ {b} : plugin'[c] = plugin[c]
    BY <1>0, <1>2 DEF UserEdits, UserDeletes
  <2>2. \A c \in Plugins : Writing(c) => Writing(c)'
    BY <2>1 DEF Writing
  <2>3. \A q \in Processes, c \in Plugins : Past(q, c)' => Past(q, c)
    BY <2>1 DEF Past
  <2> QED BY <2>1, <2>2, <2>3 DEF Whole
<1> QED BY <1>1, <1>2

\* Every step keeps Whole.
LEMMA WholeStep == TypeOK /\ Whole /\ [Next]_vars => Whole'
<1>1. ASSUME TypeOK, Whole, Next PROVE Whole'
  BY <1>1, Steps, WholeMoves, WholeSeeds, WholeEnds
<1>2. ASSUME Whole, UNCHANGED vars PROVE Whole'
  BY <1>2 DEF vars, Whole, Past, Writing
<1> QED BY <1>1, <1>2

\* Who serves has whole builtins: no start that failed or died, and no other process that
\* seeds, leaves a torn one, but for the write a death cut short and the user's own hand.
THEOREM ServesWholeBuiltins == Spec => []BuiltinsWhole
<1>1. Whole => BuiltinsWhole
  BY DEF Whole, BuiltinsWhole, Past, HasLog
<1> QED BY <1>1, TypeInit, TypeStep, WholeInit, WholeStep, PTL DEF Spec

-----------------------------------------------------------------------------
\* Alone, the ids increase, and the counter of who has the log open is not behind them.
Increasing ==
  alone =>
    /\ \A i, j \in DOMAIN log : i < j => log[i] < log[j]
    /\ \A p \in Processes : stage[p] \in HasLog => \A i \in DOMAIN log : log[i] <= last[p]

\* The log is empty.
LEMMA IncreasingInit == Init => Increasing
  BY DEF Init, Increasing

\* An event of the only process that has the log open.
LEMMA IncreasingAppend ==
  ASSUME TypeOK, Increasing, NEW p \in Processes, AppendEvent(p), stage[p] \in HasLog,
         \A q \in Processes \ {p} : stage'[q] = stage[q]
  PROVE  Increasing'
<1> SUFFICES ASSUME alone' PROVE Increasing'
  BY DEF Increasing
<1>1. /\ alone /\ \A q \in Processes \ {p} : stage'[q] \notin HasLog
  BY DEF AppendEvent
<1>2. last'[p] = last[p] + 1 /\ last[p] \in Nat /\ log \in Seq(Nat)
  BY AppendTyped DEF TypeOK
<1>3. /\ \A i, j \in DOMAIN log : i < j => log[i] < log[j]
      /\ \A i \in DOMAIN log : log[i] <= last[p]
  BY <1>1 DEF Increasing
<1>4. CASE log' = log
  <2>1. \A i \in DOMAIN log' : log'[i] <= last'[p]
    BY <1>2, <1>3, <1>4
  <2> QED BY <1>1, <1>3, <1>4, <2>1 DEF Increasing
<1>5. CASE log' = Append(log, last[p] + 1)
  <2>1. \A i \in DOMAIN log' : IF i \in DOMAIN log THEN log'[i] = log[i]
                                                   ELSE i = Len(log) + 1 /\ log'[i] = last[p] + 1
    BY <1>2, <1>5
  <2>2. \A i \in DOMAIN log' : log'[i] <= last'[p]
    BY <1>2, <1>3, <2>1
  <2>3. \A i, j \in DOMAIN log' : i < j => log'[i] < log'[j]
    BY <1>2, <1>3, <1>5, <2>1
  <2> QED BY <1>1, <2>2, <2>3 DEF Increasing
<1> QED BY <1>4, <1>5 DEF AppendEvent

\* OpenLog takes the counter from the last line, which is the highest.
LEMMA IncreasingOpen ==
  ASSUME TypeOK, Increasing, NEW p \in Processes, OpenLog(p)
  PROVE  Increasing'
<1>1. /\ UNCHANGED <<log, alone>> /\ log \in Seq(Nat)
      /\ \A q \in Processes \ {p} : stage'[q] = stage[q] /\ last'[q] = last[q]
      /\ last'[p] = IF log = <<>> THEN 0 ELSE log[Len(log)]
  BY DEF OpenLog, Goto, files, history, TypeOK
<1> SUFFICES ASSUME alone PROVE Increasing'
  BY <1>1 DEF Increasing
<1>2. \A i \in DOMAIN log : log[i] <= last'[p]
  <2> TAKE i \in DOMAIN log
  <2>1. log # <<>> /\ Len(log) \in DOMAIN log /\ i <= Len(log) /\ i \in Nat /\ Len(log) \in Nat
    BY <1>1
  <2>2. i = Len(log) \/ log[i] < log[Len(log)]
    BY <2>1 DEF Increasing
  <2>3. log[i] \in Nat /\ log[Len(log)] \in Nat
    BY <1>1, <2>1
  <2> QED BY <1>1, <2>1, <2>2, <2>3
<1> QED BY <1>1, <1>2 DEF Increasing

\* Every step keeps Increasing.
LEMMA IncreasingStep == TypeOK /\ Increasing /\ [Next]_vars => Increasing'
<1> SUFFICES ASSUME TypeOK, Increasing, [Next]_vars PROVE Increasing'
  OBVIOUS
<1> USE DEF Goto, files, history
<1>1. ASSUME NEW p \in Processes,
             \/ Ping(p) \/ Hang(p) \/ Answer(p) \/ Look(p) \/ SeedingEnds(p) \/ Bootstrap(p)
             \/ Load(p) \/ CreateFile(p) \/ FillFile(p) \/ Listen(p) \/ Signal(p)
      PROVE  Increasing'
  <2>1. UNCHANGED <<log, last, alone>>
    BY <1>1 DEF Ping, Hang, Answer, Look, SeedingEnds, Bootstrap, Load, CreateFile, FillFile,
                Listen, Signal
  <2>2. \A q \in Processes : stage'[q] \in HasLog => stage[q] \in HasLog
    BY <1>1 DEF Ping, Hang, Answer, Look, SeedingEnds, Bootstrap, Load, CreateFile, FillFile,
                Listen, Signal, TypeOK, HasLog
  <2> QED BY <2>1, <2>2 DEF Increasing
<1>2. ASSUME NEW p \in Processes, AppendBoot(p) \/ AppendSeeded(p) \/ Serve(p)
      PROVE  Increasing'
  <2>1. stage[p] \in HasLog /\ \A q \in Processes \ {p} : stage'[q] = stage[q]
    BY <1>2 DEF AppendBoot, AppendSeeded, Serve, TypeOK, HasLog
  <2>2. CASE AppendEvent(p)
    BY <2>1, <2>2, IncreasingAppend
  <2>3. CASE ~AppendEvent(p)
    <3>1. UNCHANGED <<log, last, alone>> /\ stage'[p] = "listen"
      BY <1>2, <2>3 DEF AppendBoot, AppendSeeded, Serve, TypeOK
    <3> QED BY <2>1, <3>1 DEF Increasing
  <2> QED BY <2>2, <2>3
<1>3. ASSUME NEW p \in Processes, OpenLog(p) PROVE Increasing'
  BY <1>3, IncreasingOpen
<1>4. ASSUME NEW p \in Processes, Over(p) PROVE Increasing'
  <2>1. /\ UNCHANGED <<log, alone>> /\ stage'[p] = "off"
        /\ \A q \in Processes \ {p} : stage'[q] = stage[q] /\ last'[q] = last[q]
    BY <1>4 DEF Over, TypeOK
  <2> QED BY <2>1 DEF Increasing, HasLog
<1>5. ASSUME NEW b \in Plugins, UserEdits(b) \/ UserDeletes(b) PROVE Increasing'
  BY <1>5 DEF UserEdits, UserDeletes, Increasing
<1>6. CASE Next
  BY <1>6, Steps, <1>1, <1>2, <1>3, <1>4, <1>5
<1> QED BY <1>6 DEF vars, Increasing

\* Over any number of starts, deaths and lost lines, ids never go back or repeat in the
\* log, as long as no process appends while another one has it open.
THEOREM IdsIncrease == Spec => []IdsIncreaseAlone
<1>1. Increasing => IdsIncreaseAlone
  BY DEF Increasing, IdsIncreaseAlone
<1> QED BY <1>1, TypeInit, TypeStep, IncreasingInit, IncreasingStep, PTL DEF Spec

-----------------------------------------------------------------------------
\* Of indices there is a last one.
LEMMA Largest ==
  ASSUME NEW n \in Nat, NEW T, T \subseteq 1..n, T # {}
  PROVE  \E x \in T : \A y \in T : y <= x
<1> DEFINE Good == {m \in 0..n : \/ \A y \in T : y > m
                                 \/ \E x \in T : \A y \in T : y <= m => y <= x}
<1>1. 0 \in Good
  OBVIOUS
<1>2. ASSUME NEW m \in 1..n, m - 1 \in Good PROVE m \in Good
  <2>1. CASE m \in T
    BY <2>1
  <2>2. CASE m \notin T
    <3>1. \A y \in T : y <= m <=> y <= m - 1
      BY <2>2
    <3>2. \A y \in T : y > m <=> y > m - 1
      BY <2>2
    <3> QED BY <1>2, <3>1, <3>2
  <2> QED BY <2>1, <2>2
<1>3. n \in 0..n /\ n \in Nat
  OBVIOUS
<1> HIDE DEF Good
<1>4. n \in Good
  BY <1>1, <1>2, <1>3, UpTo
<1>5. \A y \in T : y \in Nat /\ y <= n
  OBVIOUS
<1>6. PICK y \in T : TRUE
  OBVIOUS
<1>7. ~(y > n)
  BY <1>5
<1>8. PICK x \in T : \A z \in T : z <= n => z <= x
  BY <1>4, <1>7 DEF Good
<1> QED BY <1>5, <1>8

\* The last line with a variable says its value.
LEMMA LookupLast ==
  ASSUME NEW S, NEW env \in Seq(S), NEW k, NEW i \in 1..Len(env), env[i].key = k,
         \A j \in 1..Len(env) : env[j].key = k => j <= i
  PROVE  k \in KeysOf(env) /\ Lookup(env, k) = env[i].value
<1> DEFINE having == {j \in DOMAIN env : env[j].key = k}
<1>1. DOMAIN env = 1..Len(env) /\ Len(env) \in Nat
  OBVIOUS
<1>2. i \in having /\ \A j \in having : i >= j /\ j \in Nat
  BY <1>1
<1>3. ASSUME NEW x \in having, \A y \in having : x >= y PROVE x = i
  BY <1>2, <1>3
<1> HIDE DEF having
<1>4. Max(having) = i
  BY <1>2, <1>3 DEF Max
<1>5. Lookup(env, k) = IF having = {} THEN "empty" ELSE env[Max(having)].value
  BY DEF Lookup, having
<1> QED BY <1>1, <1>2, <1>4, <1>5 DEF KeysOf

\* What is there has a last line, what is not there is empty.
LEMMA LastLine ==
  ASSUME NEW S, NEW env \in Seq(S), NEW k
  PROVE  /\ k \in KeysOf(env) =>
              \E i \in 1..Len(env) : /\ env[i].key = k
                                     /\ \A j \in 1..Len(env) : env[j].key = k => j <= i
         /\ k \notin KeysOf(env) => Lookup(env, k) = "empty"
<1> DEFINE having == {j \in 1..Len(env) : env[j].key = k}
<1>1. DOMAIN env = 1..Len(env) /\ Len(env) \in Nat
  OBVIOUS
<1>2. k \in KeysOf(env) <=> having # {}
  BY <1>1 DEF KeysOf
<1>3. ASSUME having # {} PROVE \E i \in having : \A j \in having : j <= i
  <2>1. having \subseteq 1..Len(env)
    OBVIOUS
  <2> HIDE DEF having
  <2> QED BY <1>1, <1>3, <2>1, Largest
<1>4. having = {} => Lookup(env, k) = "empty"
  BY <1>1 DEF Lookup
<1> QED BY <1>2, <1>3, <1>4

\* The lines of the file with a variable that the environment does not have.
Free(env, file) == {i \in Given(file) : file.lines[i].key \notin KeysOf(env)}

\* out is the environment with m lines of the file behind it, those that f says: all that
\* are free, in their order.
Appended(out, env, file, f, m) ==
  /\ m \in Nat /\ Len(out) = Len(env) + m
  /\ \A i \in 1..Len(env) : out[i] = env[i]
  /\ f \in [1..m -> 1..Len(file.lines)]
  /\ \A j \in 1..m : out[Len(env) + j] = file.lines[f[j]] /\ f[j] \in Free(env, file)
  /\ \A j, k \in 1..m : j < k => f[j] < f[k]
  /\ \A i \in Free(env, file) : \E j \in 1..m : f[j] = i

\* That is what appendDotEnv does.
LEMMA AppendDotEnvIs ==
  ASSUME NEW S, NEW env \in Seq(S), NEW file, file.lines \in Seq(S)
  PROVE  /\ AppendDotEnv(env, file) \in Seq(S)
         /\ \E f, m : Appended(AppendDotEnv(env, file), env, file, f, m)
<1> DEFINE lines == file.lines
           free  == Free(env, file)
           new   == Selected(lines, free)
           out   == AppendDotEnv(env, file)
<1>1. free \subseteq 1..Len(lines)
  BY DEF Free, Given
<1>2. out = env \o new
  BY DEF AppendDotEnv, Free
<1> HIDE DEF free, lines, out
<1>3. lines \in Seq(S)
  BY DEF lines
<1>4. new \in Seq(S)
  BY <1>3, SelectedTyped
<1>5. PICK f : Enumerates(f, new, lines, Len(lines), free)
  BY <1>3, SelectedEnumerates
<1> HIDE DEF new
<1>6. /\ out \in Seq(S) /\ Len(out) = Len(env) + Len(new) /\ Len(new) \in Nat
      /\ \A i \in 1..Len(env) : out[i] = env[i]
      /\ \A j \in 1..Len(new) : out[Len(env) + j] = new[j]
  BY <1>2, <1>4
<1>7. /\ f \in [1..Len(new) -> 1..Len(lines)]
      /\ \A j \in 1..Len(new) : new[j] = lines[f[j]] /\ f[j] \in free
      /\ \A j, k \in 1..Len(new) : j < k => f[j] < f[k]
      /\ \A i \in free : \E j \in 1..Len(new) : f[j] = i
  BY <1>1, <1>5 DEF Enumerates
<1>8. \A j \in 1..Len(new) : out[Len(env) + j] = lines[f[j]]
  BY <1>6, <1>7
<1>9. Appended(out, env, file, f, Len(new))
  BY <1>6, <1>7, <1>8 DEF Appended, lines, free
<1> QED BY <1>6, <1>9 DEF out

\* A line of out is one of the environment or one of the file.
LEMMA AppendedLines ==
  ASSUME NEW S, NEW env \in Seq(S), NEW file, NEW out, NEW f, NEW m,
         Appended(out, env, file, f, m)
  PROVE  /\ \A i \in 1..Len(out) : i \in 1..Len(env) \/ \E j \in 1..m : i = Len(env) + j
         /\ \A j \in 1..m : Len(env) + j \in 1..Len(out)
         /\ \A i \in 1..Len(env) : i \in 1..Len(out)
<1> DEFINE n == Len(env)
<1>1. m \in Nat /\ n \in Nat /\ Len(out) = n + m
  BY DEF Appended
<1> HIDE DEF n
<1>2. ASSUME NEW i \in 1..Len(out), i \notin 1..n PROVE \E j \in 1..m : i = n + j
  <2>1. i - n \in 1..m /\ i = n + (i - n)
    BY <1>1, <1>2
  <2> QED BY <2>1
<1> QED BY <1>1, <1>2 DEF n

\* Its variables are those of both.
LEMMA AppendDotEnvKeys ==
  ASSUME NEW S, NEW env \in Seq(S), NEW file, file.lines \in Seq(S), NEW k, k # NoKey
  PROVE  k \in KeysOf(AppendDotEnv(env, file)) <=> k \in KeysOf(env) \/ k \in KeysOf(file.lines)
<1> DEFINE out == AppendDotEnv(env, file)
           n   == Len(env)
<1>1. PICK f, m : Appended(out, env, file, f, m)
  BY AppendDotEnvIs
<1>2. /\ DOMAIN out = 1..Len(out) /\ DOMAIN env = 1..n /\ DOMAIN file.lines = 1..Len(file.lines)
  BY AppendDotEnvIs
<1> HIDE DEF out
<1>3. /\ \A i \in 1..Len(out) : i \in 1..n \/ \E j \in 1..m : i = n + j
      /\ \A j \in 1..m : n + j \in 1..Len(out)
      /\ \A i \in 1..n : i \in 1..Len(out)
  BY <1>1, AppendedLines
<1>4. /\ \A i \in 1..n : out[i] = env[i]
      /\ f \in [1..m -> 1..Len(file.lines)]
      /\ \A j \in 1..m : out[n + j] = file.lines[f[j]]
      /\ \A i \in Free(env, file) : \E j \in 1..m : f[j] = i
  BY <1>1 DEF Appended
<1> HIDE DEF n
<1>5. ASSUME k \in KeysOf(out) PROVE k \in KeysOf(env) \/ k \in KeysOf(file.lines)
  <2>1. PICK i \in 1..Len(out) : out[i].key = k
    BY <1>2, <1>5 DEF KeysOf
  <2>2. CASE i \in 1..n
    BY <1>2, <1>4, <2>1, <2>2 DEF KeysOf
  <2>3. CASE \E j \in 1..m : i = n + j
    BY <1>2, <1>4, <2>1, <2>3 DEF KeysOf
  <2> QED BY <1>3, <2>2, <2>3
<1>6. ASSUME k \in KeysOf(env) PROVE k \in KeysOf(out)
  BY <1>2, <1>3, <1>4, <1>6 DEF KeysOf
<1>7. ASSUME k \in KeysOf(file.lines), k \notin KeysOf(env) PROVE k \in KeysOf(out)
  <2>1. PICK i \in 1..Len(file.lines) : file.lines[i].key = k
    BY <1>2, <1>7 DEF KeysOf
  <2>2. i \in Free(env, file)
    BY <1>2, <1>7, <2>1 DEF Free, Given
  <2>3. PICK j \in 1..m : f[j] = i
    BY <1>4, <2>2
  <2>4. out[n + j].key = k /\ n + j \in DOMAIN out
    BY <1>2, <1>3, <1>4, <2>1, <2>3
  <2> QED BY <2>4 DEF KeysOf
<1> QED BY <1>5, <1>6, <1>7 DEF out

\* A variable the environment has keeps its value.
LEMMA AppendDotEnvKeeps ==
  ASSUME NEW S, NEW env \in Seq(S), NEW file, file.lines \in Seq(S), NEW k \in KeysOf(env)
  PROVE  Lookup(AppendDotEnv(env, file), k) = Lookup(env, k)
<1> DEFINE out == AppendDotEnv(env, file)
           n   == Len(env)
<1>1. PICK f, m : Appended(out, env, file, f, m)
  BY AppendDotEnvIs
<1>2. out \in Seq(S)
  BY AppendDotEnvIs
<1> HIDE DEF out
<1>3. /\ \A j \in 1..Len(out) : j \in 1..n \/ \E l \in 1..m : j = n + l
      /\ \A j \in 1..n : j \in 1..Len(out)
  BY <1>1, AppendedLines
<1>4. /\ \A j \in 1..n : out[j] = env[j]
      /\ \A l \in 1..m : out[n + l].key # k
  <2>1. /\ \A j \in 1..n : out[j] = env[j]
        /\ \A l \in 1..m : out[n + l] = file.lines[f[l]] /\ f[l] \in Free(env, file)
    BY <1>1 DEF Appended
  <2>2. \A l \in Free(env, file) : file.lines[l].key # k
    BY DEF Free
  <2> QED BY <2>1, <2>2
<1>5. PICK i \in 1..n : env[i].key = k /\ \A j \in 1..n : env[j].key = k => j <= i
  BY LastLine
<1>6. Lookup(env, k) = env[i].value
  BY <1>5, LookupLast
<1> HIDE DEF n
<1>7. \A j \in 1..Len(out) : out[j].key = k => j <= i
  BY <1>3, <1>4, <1>5
<1>8. i \in 1..Len(out) /\ out[i] = env[i]
  BY <1>3, <1>4
<1>9. Lookup(out, k) = out[i].value
  BY <1>2, <1>5, <1>7, <1>8, LookupLast
<1> QED BY <1>6, <1>8, <1>9 DEF out

\* Any other has that of the file.
LEMMA AppendDotEnvTakes ==
  ASSUME NEW S, NEW env \in Seq(S), NEW file, file.lines \in Seq(S), NEW k, k # NoKey,
         k \notin KeysOf(env)
  PROVE  Lookup(AppendDotEnv(env, file), k) = Lookup(file.lines, k)
<1> DEFINE out == AppendDotEnv(env, file)
           n   == Len(env)
<1>1. PICK f, m : Appended(out, env, file, f, m)
  BY AppendDotEnvIs
<1>2. /\ out \in Seq(S) /\ DOMAIN env = 1..n /\ n \in Nat
      /\ DOMAIN file.lines = 1..Len(file.lines)
  BY AppendDotEnvIs
<1>3. k \in KeysOf(out) <=> k \in KeysOf(file.lines)
  BY AppendDotEnvKeys
<1> HIDE DEF out
<1>4. /\ \A l \in 1..Len(out) : l \in 1..n \/ \E j \in 1..m : l = n + j
      /\ \A j \in 1..m : n + j \in 1..Len(out)
  BY <1>1, AppendedLines
<1>5. /\ m \in Nat /\ \A j \in 1..n : out[j] = env[j]
      /\ f \in [1..m -> 1..Len(file.lines)]
      /\ \A j \in 1..m : out[n + j] = file.lines[f[j]]
      /\ \A j, l \in 1..m : j < l => f[j] < f[l]
      /\ \A i \in Free(env, file) : \E j \in 1..m : f[j] = i
  BY <1>1 DEF Appended
<1> HIDE DEF n
<1>6. CASE k \in KeysOf(file.lines)
  <2>1. PICK i \in 1..Len(file.lines) :
          /\ file.lines[i].key = k
          /\ \A j \in 1..Len(file.lines) : file.lines[j].key = k => j <= i
    BY <1>6, LastLine
  <2>2. Lookup(file.lines, k) = file.lines[i].value
    BY <2>1, LookupLast
  <2>3. i \in Free(env, file)
    BY <1>2, <2>1 DEF Free, Given
  <2>4. PICK j \in 1..m : f[j] = i
    BY <1>5, <2>3
  <2>5. out[n + j] = file.lines[i] /\ n + j \in 1..Len(out)
    BY <1>4, <1>5, <2>4
  <2>6. ASSUME NEW l \in 1..Len(out), out[l].key = k PROVE l <= n + j
    <3>1. l \notin 1..n
      BY <1>2, <1>5, <2>6 DEF KeysOf
    <3>2. PICK h \in 1..m : l = n + h
      BY <1>4, <3>1
    <3>3. f[h] \in 1..Len(file.lines) /\ file.lines[f[h]].key = k
      BY <1>5, <2>6, <3>2
    <3>4. f[h] <= f[j] /\ f[h] \in Nat /\ f[j] \in Nat
      BY <2>1, <2>4, <3>3
    <3>5. ~(j < h)
      BY <1>5, <3>4
    <3> QED BY <1>2, <1>5, <3>2, <3>5
  <2>7. Lookup(out, k) = out[n + j].value
    <3> DEFINE e == n + j
    <3>1. e \in 1..Len(out) /\ out[e].key = k /\ \A l \in 1..Len(out) : out[l].key = k => l <= e
      BY <2>1, <2>5, <2>6
    <3> HIDE DEF e
    <3>2. Lookup(out, k) = out[e].value
      BY <1>2, <3>1, LookupLast
    <3> QED BY <3>2 DEF e
  <2> QED BY <2>2, <2>5, <2>7 DEF out
<1>7. CASE k \notin KeysOf(file.lines)
  BY <1>2, <1>3, <1>7, LastLine DEF out
<1> QED BY <1>6, <1>7

\* Three layers.
LEMMA LayeredIs ==
  ASSUME NEW S, NEW s, s.env \in Seq(S), s.dot.lines \in Seq(S), s.parent.lines \in Seq(S),
         NEW k, k # NoKey
  PROVE  /\ k \in KeysOf(Layered(s)) <=>
              k \in KeysOf(s.env) \/ k \in KeysOf(s.dot.lines) \/ k \in KeysOf(s.parent.lines)
         /\ Lookup(Layered(s), k) =
              IF k \in KeysOf(s.env) THEN Lookup(s.env, k)
              ELSE IF k \in KeysOf(s.dot.lines) THEN Lookup(s.dot.lines, k)
              ELSE Lookup(s.parent.lines, k)
<1> DEFINE one == AppendDotEnv(s.env, s.dot)
           two == AppendDotEnv(one, s.parent)
<1>1. one \in Seq(S)
  BY AppendDotEnvIs
<1>2. k \in KeysOf(one) <=> k \in KeysOf(s.env) \/ k \in KeysOf(s.dot.lines)
  BY AppendDotEnvKeys
<1>3. k \in KeysOf(s.env) => Lookup(one, k) = Lookup(s.env, k)
  BY AppendDotEnvKeeps
<1>4. k \notin KeysOf(s.env) => Lookup(one, k) = Lookup(s.dot.lines, k)
  BY AppendDotEnvTakes
<1>5. Layered(s) = two
  BY DEF Layered
<1> HIDE DEF one
<1>6. k \in KeysOf(two) <=> k \in KeysOf(one) \/ k \in KeysOf(s.parent.lines)
  BY <1>1, AppendDotEnvKeys
<1>7. k \in KeysOf(one) => Lookup(two, k) = Lookup(one, k)
  BY <1>1, AppendDotEnvKeeps
<1>8. k \notin KeysOf(one) => Lookup(two, k) = Lookup(s.parent.lines, k)
  BY <1>1, AppendDotEnvTakes
<1> HIDE DEF two
<1> QED BY <1>2, <1>3, <1>4, <1>5, <1>6, <1>7, <1>8

\* The value that is meant, source by source.
LEMMA MeantIs ==
  ASSUME NEW S, NEW s, s.env \in Seq(S), s.dot.lines \in Seq(S), s.parent.lines \in Seq(S),
         NEW k
  PROVE  Meant(s, k) = IF k \in KeysOf(s.env) THEN Lookup(s.env, k)
                       ELSE IF k \in KeysOf(s.dot.lines) THEN Lookup(s.dot.lines, k)
                       ELSE Lookup(s.parent.lines, k)
<1> DEFINE sources == <<s.env, s.dot.lines, s.parent.lines>>
           having  == {i \in 1..3 : k \in KeysOf(sources[i])}
           lines   == sources[CHOOSE i \in having : \A j \in having : i <= j]
           LastOf(l) == l[CHOOSE i \in DOMAIN l : l[i].key = k /\ \A j \in DOMAIN l : l[j].key = k => j <= i].value
<1>1. /\ Meant(s, k) = IF having = {} THEN "empty" ELSE LastOf(lines)
  BY DEF Meant
<1>2. ASSUME NEW l \in Seq(S), k \in KeysOf(l) PROVE LastOf(l) = Lookup(l, k)
  <2>1. DOMAIN l = 1..Len(l) /\ Len(l) \in Nat
    OBVIOUS
  <2>2. PICK i \in 1..Len(l) : l[i].key = k /\ \A j \in 1..Len(l) : l[j].key = k => j <= i
    BY <1>2, LastLine
  <2>3. (CHOOSE x \in DOMAIN l : l[x].key = k /\ \A j \in DOMAIN l : l[j].key = k => j <= x) = i
    BY <2>1, <2>2
  <2>4. Lookup(l, k) = l[i].value
    BY <2>2, LookupLast
  <2> QED BY <2>3, <2>4
<1> HIDE DEF LastOf
<1>3. sources[1] = s.env /\ sources[2] = s.dot.lines /\ sources[3] = s.parent.lines
  OBVIOUS
<1> HIDE DEF sources
<1>4. ASSUME NEW i \in having, \A j \in having : i <= j PROVE lines = sources[i]
  <2>1. having \subseteq 1..3
    OBVIOUS
  <2> HIDE DEF having
  <2>2. ASSUME NEW x \in having, \A j \in having : x <= j PROVE x = i
    BY <1>4, <2>1, <2>2
  <2>3. (CHOOSE x \in having : \A j \in having : x <= j) = i
    BY <1>4, <2>2
  <2> QED BY <2>3 DEF lines
<1> HIDE DEF lines
<1>5. CASE k \in KeysOf(s.env)
  <2>1. 1 \in having /\ \A j \in having : 1 <= j
    BY <1>3, <1>5
  <2> HIDE DEF having
  <2>2. lines = s.env
    BY <1>3, <1>4, <2>1
  <2> QED BY <1>1, <1>2, <1>5, <2>1, <2>2
<1>6. CASE k \notin KeysOf(s.env) /\ k \in KeysOf(s.dot.lines)
  <2>1. 2 \in having /\ \A j \in having : 2 <= j
    BY <1>3, <1>6
  <2> HIDE DEF having
  <2>2. lines = s.dot.lines
    BY <1>3, <1>4, <2>1
  <2> QED BY <1>1, <1>2, <1>6, <2>1, <2>2
<1>7. CASE k \notin KeysOf(s.env) /\ k \notin KeysOf(s.dot.lines) /\ k \in KeysOf(s.parent.lines)
  <2>1. 3 \in having /\ \A j \in having : 3 <= j
    BY <1>3, <1>7
  <2> HIDE DEF having
  <2>2. lines = s.parent.lines
    BY <1>3, <1>4, <2>1
  <2> QED BY <1>1, <1>2, <1>7, <2>1, <2>2
<1>8. CASE k \notin KeysOf(s.env) /\ k \notin KeysOf(s.dot.lines) /\ k \notin KeysOf(s.parent.lines)
  <2>1. having = {}
    BY <1>3, <1>8
  <2> QED BY <1>1, <1>8, <2>1, LastLine
<1> QED BY <1>5, <1>6, <1>7, <1>8

\* What is loaded is what is meant, for any environment and any two files.
LEMMA LoadsMeant ==
  ASSUME NEW s \in Sources
  PROVE  /\ Loads(s) <=>
              /\ s.dot.readable /\ s.parent.readable
              /\ Typos \intersect UNION {KeysOf(s.env), KeysOf(s.dot.lines),
                                         KeysOf(s.parent.lines)} = {}
              /\ \A k \in Keys : Meant(s, k) # "bad"
              /\ \A k \in Required : Meant(s, k) # "empty"
         /\ \A k \in Keys : Settings(s)[k] = Meant(s, k)
<1>1. s.env \in Seq(Lines) /\ s.dot.lines \in Seq(Lines) /\ s.parent.lines \in Seq(Lines)
  BY SourcesAssumption
<1>2. \A k \in Keys \union Typos : k # NoKey
  BY KeysAssumption
<1>3. ASSUME NEW k \in Keys PROVE Lookup(Layered(s), k) = Meant(s, k)
  <2>1. k # NoKey
    BY <1>2
  <2> QED BY <1>1, <2>1, LayeredIs, MeantIs
<1>4. ASSUME NEW k \in Typos
      PROVE  k \in KeysOf(Layered(s)) <=>
               k \in UNION {KeysOf(s.env), KeysOf(s.dot.lines), KeysOf(s.parent.lines)}
  <2>1. k # NoKey
    BY <1>2
  <2>2. k \in KeysOf(Layered(s)) <=>
          k \in KeysOf(s.env) \/ k \in KeysOf(s.dot.lines) \/ k \in KeysOf(s.parent.lines)
    BY <1>1, <2>1, LayeredIs
  <2> QED BY <2>2
<1>5. KeysOf(Layered(s)) \intersect Typos = {} <=>
        Typos \intersect UNION {KeysOf(s.env), KeysOf(s.dot.lines), KeysOf(s.parent.lines)} = {}
  BY <1>4
<1>6. Valid(Layered(s)) <=> /\ \A k \in Keys : Meant(s, k) # "bad"
                            /\ \A k \in Required : Meant(s, k) # "empty"
  BY <1>3, KeysAssumption DEF Valid
<1> QED BY <1>3, <1>5, <1>6 DEF Loads, Settings

-----------------------------------------------------------------------------
\* Who is past its configuration or refused was given what decided it, and nobody else
\* is loading meanwhile.
Configured ==
  /\ \A p \in Processes : stage[p] \in Configuring =>
       given \in Sources /\ (stage[p] = "bootstrap" <=> Loads(given))
  /\ \A p, q \in Processes : stage[p] \in Configuring /\ stage[q] \in Configuring => p = q

\* Nobody has loaded.
LEMMA ConfiguredInit == Init => Configured
  BY DEF Init, Configured, Configuring

\* Every step keeps Configured.
LEMMA ConfiguredStep == TypeOK /\ Configured /\ [Next]_vars => Configured'
<1> SUFFICES ASSUME TypeOK, Configured, [Next]_vars PROVE Configured'
  OBVIOUS
<1> USE DEF Goto, files, history
<1>1. stage \in [Processes -> Stages]
  BY DEF TypeOK
<1>2. ASSUME NEW p \in Processes, Load(p) PROVE Configured'
  <2>1. PICK s \in Sources :
          /\ given' = s
          /\ stage' = [stage EXCEPT ![p] = IF Loads(s) THEN "bootstrap" ELSE "refused"]
    BY <1>2, StartupAssumption DEF Load
  <2>2. /\ stage'[p] \in Configuring /\ (stage'[p] = "bootstrap" <=> Loads(s))
        /\ \A q \in Processes \ {p} : stage'[q] \notin Configuring
    BY <1>1, <1>2, <2>1 DEF Load, Configuring
  <2> QED BY <2>1, <2>2 DEF Configured
<1>3. ASSUME NEW p \in Processes, Bootstrap(p) \/ Over(p) PROVE Configured'
  <2>1. /\ stage'[p] \notin Configuring /\ \A q \in Processes \ {p} : stage'[q] = stage[q]
        /\ stage[p] \notin Configuring => given' = given
    BY <1>1, <1>3 DEF Bootstrap, Over, Configuring
  <2> QED BY <2>1 DEF Configured
<1>4. ASSUME NEW p \in Processes,
             \/ Ping(p) \/ Hang(p) \/ Answer(p) \/ Look(p) \/ SeedingEnds(p) \/ OpenLog(p)
             \/ CreateFile(p) \/ FillFile(p)
             \/ AppendBoot(p) \/ AppendSeeded(p) \/ Serve(p) \/ Listen(p) \/ Signal(p)
      PROVE  Configured'
  <2>1. given' = given /\ \A q \in Processes : stage'[q] = stage[q] \/ stage'[q] \notin Configuring
    BY <1>1, <1>4 DEF Ping, Hang, Answer, Look, SeedingEnds, OpenLog, CreateFile, FillFile,
                      AppendBoot, AppendSeeded, Serve, Listen, Signal, Configuring
  <2> QED BY <2>1 DEF Configured
<1>5. ASSUME NEW b \in Plugins, UserEdits(b) \/ UserDeletes(b) PROVE Configured'
  BY <1>5 DEF UserEdits, UserDeletes, Configured
<1>6. CASE Next
  BY <1>6, Steps, <1>2, <1>3, <1>4, <1>5
<1> QED BY <1>6 DEF vars, Configured

\* Whatever the environment and the two files say, a process gets past its configuration
\* exactly if what is meant by them is complete and valid, and it has then what is meant.
THEOREM LoadsAsMeant == Spec => []LoadedAsMeant
<1>1. Configured => LoadedAsMeant
  BY LoadsMeant DEF Configured, LoadedAsMeant
<1> QED BY <1>1, TypeInit, TypeStep, ConfiguredInit, ConfiguredStep, PTL DEF Spec
=============================================================================
