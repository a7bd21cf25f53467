------------------------------ MODULE LeaseFence ------------------------------
(***************************************************************************)
(* What the lease table promises the code that checks a lease right before *)
(* a side effect: per task, at most one grant is in force, every grant has *)
(* an epoch of its own, larger than all earlier ones, and a grant that has *)
(* ended never comes back.  Expiry, renewal, lazy deletion and the         *)
(* versions broadcast to clients are below this level.                     *)
(***************************************************************************)
EXTENDS Naturals

CONSTANTS Tasks, Clients, Owners, None

VARIABLES
    epoch,  \* the number of grants made for each task so far
    grant   \* the grant in force for each task, or None

vars == <<epoch, grant>>

Grant(t, c, o) == [clientId |-> c, ownerId |-> o, epoch |-> epoch[t] + 1]

Init ==
    /\ epoch = [t \in Tasks |-> 0]
    /\ grant = [t \in Tasks |-> None]

\* A new grant, whatever was in force before.
Issue(t, c, o) ==
    /\ epoch' = [epoch EXCEPT ![t] = @ + 1]
    /\ grant' = [grant EXCEPT ![t] = Grant(t, c, o)]

\* The grants of some tasks end: released, revoked, or out of time.
End(ended) ==
    /\ grant' = [t \in Tasks |-> IF t \in ended THEN None ELSE grant[t]]
    /\ UNCHANGED epoch

Next ==
    \/ \E t \in Tasks, c \in Clients, o \in Owners : Issue(t, c, o)
    \/ \E ended \in SUBSET Tasks : End(ended)

Spec == Init /\ [][Next]_vars
=============================================================================
