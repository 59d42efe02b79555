----------------------------- MODULE EventFeed -----------------------------
(***************************************************************************)
(* What the event log promises to whoever reads it: a set of events with    *)
(* ids.  A new event is newer than all there are; nothing but the newest    *)
(* ever goes again, and only if it was loose, its append not acknowledged;  *)
(* a page is what comes next after the reader's cursor, without a gap.      *)
(***************************************************************************)
EXTENDS Integers

CONSTANT Clients

VARIABLES
  feed,    \* the events that can be read
  loose,   \* the newest of them may still go
  cursor,  \* per client: the id it reads on from
  seen     \* per client: what it was given

afeed == <<feed, loose, cursor, seen>>

Newest(e) == e \in feed /\ \A f \in feed : f.id <= e.id

Init ==
  /\ feed = {} /\ loose = FALSE
  /\ cursor = [c \in Clients |-> 0] /\ seen = [c \in Clients |-> {}]

\* As long as the newest event is loose, no other comes.
Publish ==
  /\ ~loose /\ loose' \in BOOLEAN
  /\ \E e \in feed' :
       /\ \A f \in feed : f.id < e.id
       /\ feed' = feed \union {e}
  /\ UNCHANGED <<cursor, seen>>

Lose ==
  /\ loose /\ loose' = FALSE
  /\ \E e \in feed : Newest(e) /\ feed' = feed \ {e}
  /\ UNCHANGED <<cursor, seen>>

Deliver(c) ==
  \E last \in feed :
    /\ last.id > cursor[c]
    /\ seen' = [seen EXCEPT ![c] =
                  @ \union {e \in feed : cursor[c] < e.id /\ e.id <= last.id}]
    /\ cursor' = [cursor EXCEPT ![c] = last.id]
    /\ UNCHANGED <<feed, loose>>

Next == Publish \/ Lose \/ \E c \in Clients : Deliver(c)

Spec == Init /\ [][Next]_afeed
=============================================================================
