------------------------- MODULE MCTaskCommandLeases -------------------------
(* Small instances of TaskCommandLeases for TLC. *)
EXTENDS TaskCommandLeases, TLC

\* Clients, tasks and actions are only compared for equality.
Symmetry == Permutations(Clients) \cup Permutations(Tasks) \cup Permutations(Actions)
           
=============================================================================
