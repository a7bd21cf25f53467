----------------------- MODULE MCTaskCommandProjection -----------------------
(* Small instances of TaskCommandProjection for TLC. *)
EXTENDS TaskCommandProjection

\* Tasks and actions are only compared for equality.
Symmetry == Permutations(Tasks) \cup Permutations(Actions)
=============================================================================
