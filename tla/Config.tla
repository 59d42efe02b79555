------------------------------- MODULE Config -------------------------------
(***************************************************************************)
(* What config.Load makes of the environment, ./.env and ../.env            *)
(* (server/internal/config): the files are layered under the environment,   *)
(* a variable nobody knows is refused, and so is a value that is not valid. *)
(*                                                                         *)
(* A variable is an entry, a value one of: empty, two that are valid, one   *)
(* that Validate or Atoi refuses.  A file is its lines in order.            *)
(***************************************************************************)
EXTENDS Selection, FiniteSetsExt

CONSTANTS
  Keys,      \* the known variables: envKeys
  Required,  \* those that must not be empty
  Typos,     \* variables with the prefix SPS_ or SMTP_ that are not known
  Others     \* any other variable

\* A line without a key: blank, a comment, or with nothing before its "=".
NoKey == "no key"

ASSUME KeysAssumption ==
  /\ Required \subseteq Keys
  /\ Keys \intersect Typos = {} /\ Keys \intersect Others = {} /\ Typos \intersect Others = {}
  /\ NoKey \notin Keys \union Typos \union Others

Lines == [key : Keys \union Typos \union Others \union {NoKey},
          value : {"empty", "good", "other", "bad"}]

\* A file that is not there has no lines; one that cannot be read stops Load.
File(lines) == [readable |-> TRUE, lines |-> lines]
Unreadable  == [readable |-> FALSE, lines |-> <<>>]

KeysOf(env) == {env[i].key : i \in DOMAIN env}

\* The lines of the file that have a key.
Given(file) == {i \in DOMAIN file.lines : file.lines[i].key # NoKey}

\* Slip: what a file says comes on top.
AppendAll(env, file) == env \o Selected(file.lines, Given(file))

\* The variables of a file that are not in the environment yet are added to it.
AppendDotEnv(env, file) ==
  env \o Selected(file.lines, {i \in Given(file) : file.lines[i].key \notin KeysOf(env)})

\* The environment that load is given.
Layered(s) == AppendDotEnv(AppendDotEnv(s.env, s.dot), s.parent)

\* Of a variable that is given several times the last one counts.
Lookup(env, k) ==
  LET given == {i \in DOMAIN env : env[i].key = k}
  IN  IF given = {} THEN "empty" ELSE env[Max(given)].value

\* Validate; an empty value stands for the default, which is valid.
Valid(env) ==
  /\ \A k \in Keys : Lookup(env, k) # "bad"
  /\ \A k \in Required : Lookup(env, k) # "empty"

\* Load succeeds.
Loads(s) ==
  /\ s.dot.readable /\ s.parent.readable
  /\ KeysOf(Layered(s)) \intersect Typos = {}
  /\ Valid(Layered(s))

Settings(s) == [k \in Keys |-> Lookup(Layered(s), k)]
=============================================================================
