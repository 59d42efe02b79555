----------------------------- MODULE AtomicStore -----------------------------
(***************************************************************************)
(* What project.Store promises to the control plane: a set of projects that *)
(* are created and deleted at one instant, and lists that agree with it.    *)
(* A list takes time: it has every project that was there throughout, and   *)
(* none that was never there meanwhile.                                     *)
(***************************************************************************)

CONSTANTS
  Ids,     \* projects
  Readers  \* calls of List

VARIABLES
  meta,     \* the projects of the store
  reading,  \* the readers that are listing
  always,   \* per reader: the projects that were there since it began
  ever,     \* per reader: the projects that were there at some time since
  listed    \* per reader: its last answer

astore == <<meta, reading, always, ever, listed>>

Init ==
  /\ meta = {} /\ reading = {}
  /\ always = [r \in Readers |-> {}] /\ ever = [r \in Readers |-> {}]
  /\ listed = [r \in Readers |-> {}]

Create(id) ==
  /\ meta' = meta \union {id}
  /\ ever' = [r \in Readers |-> ever[r] \union {id}]
  /\ UNCHANGED <<reading, always, listed>>

Delete(id) ==
  /\ meta' = meta \ {id}
  /\ always' = [r \in Readers |-> always[r] \ {id}]
  /\ UNCHANGED <<reading, ever, listed>>

BeginList(r) ==
  /\ r \notin reading
  /\ reading' = reading \union {r}
  /\ always' = [always EXCEPT ![r] = meta] /\ ever' = [ever EXCEPT ![r] = meta]
  /\ UNCHANGED <<meta, listed>>

EndList(r) ==
  /\ r \in reading
  /\ reading' = reading \ {r}
  /\ \E answer \in SUBSET Ids :
       /\ always[r] \subseteq answer /\ answer \subseteq ever[r]
       /\ listed' = [listed EXCEPT ![r] = answer]
  /\ UNCHANGED <<meta, always, ever>>

\* The disk cannot be read: there is no answer.
FailList(r) ==
  /\ r \in reading
  /\ reading' = reading \ {r}
  /\ UNCHANGED <<meta, always, ever, listed>>

\* The server dies: nobody is listing any more, the projects stay.
Restart ==
  /\ reading' = {}
  /\ UNCHANGED <<meta, always, ever, listed>>

Next ==
  \/ \E id \in Ids : Create(id) \/ Delete(id)
  \/ \E r \in Readers : BeginList(r) \/ EndList(r) \/ FailList(r)
  \/ Restart

Spec == Init /\ [][Next]_astore
=============================================================================
