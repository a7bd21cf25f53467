------------------------- MODULE MCTaskCommandHold -------------------------
(* Model values for TLC: one renderer and a peer, a session and a command. *)
EXTENDS TaskCommandHold

CONSTANTS thisTask, thisClient, peerClient, thisOwner, someAction, typing, merging, nothing

=============================================================================
