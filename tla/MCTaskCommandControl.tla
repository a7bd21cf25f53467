------------------------- MODULE MCTaskCommandControl -------------------------
(* Small instances of TaskCommandControl for TLC. *)
EXTENDS TaskCommandControl

\* Clients and actions are only compared for equality.
Symmetry == Permutations(Clients) \cup Permutations(Actions) \cup Permutations(RequestIds)
=============================================================================
