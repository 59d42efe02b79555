-------------------------- MODULE MCProjectService --------------------------
(* Small instances of the project control plane.                            *)
EXTENDS ProjectServiceProps, TLC

\* Requests are interchangeable, and so are the ids newID draws.
Symmetry == Permutations(Requests) \union Permutations(Projects)

AllOps == CreateOps \union RunOps \union Scopes
=============================================================================
