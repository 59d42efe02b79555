----------------------------- MODULE MCEventLog -----------------------------
(* Small instance of the event log: the clients are interchangeable.        *)
EXTENDS EventLog, TLC

Symmetry == Permutations(Clients)
=============================================================================
