-------------------------- MODULE TaskCommandLeases --------------------------
(***************************************************************************)
(* The lease table under every caller it has: lease requests of renderers  *)
(* and of coordinator automation, admission reads, the prune timer, client *)
(* departure, final task cleanup, and time.  One action per exported       *)
(* function that can change the table.                                     *)
(***************************************************************************)
EXTENDS TaskCommandLeaseStore

CONSTANTS MaxGeneration  \* bound on the grants per task

ASSUME BoundAssumption == MaxGeneration \in Nat

VARIABLES
    store,      \* the table
    issued,     \* history: the identity of every grant ever returned to a caller
    published   \* history: every controller snapshot ever returned or emitted

vars == <<store, issued, published>>

Identity == [taskId : Tasks, clientId : Clients, ownerId : Owners, leaseGeneration : Nat]

Generations == {None} \cup 0..MaxGeneration

Init ==
    /\ store = EmptyStore
    /\ issued = {}
    /\ published = {}

AcquireTaskCommandLease(t, c, o, a, takeover) ==
    LET result == Acquire(store, t, c, o, a, takeover)
    IN  /\ store.generation[t] < MaxGeneration
        /\ store' = result.store
        /\ issued' = IF result.acquired
                     THEN issued \cup {[taskId |-> t, clientId |-> c, ownerId |-> o,
                                        leaseGeneration |-> result.leaseGeneration]}
                     ELSE issued
        /\ published' = published \cup {result.snapshot}

RenewTaskCommandLease(t, c, o, g) ==
    LET result == Renew(store, t, c, o, g)
    IN  /\ store' = result.store
        /\ published' = published \cup {result.snapshot}
        /\ UNCHANGED issued

ReleaseTaskCommandLease(t, c, o, g) ==
    LET result == Release(store, t, c, o, g)
    IN  /\ store' = result.store
        /\ published' = published \cup {result.snapshot}
        /\ UNCHANGED issued

ClearTaskCommandLeaseForTask(t) ==
    LET result == ClearForTask(store, t)
    IN  /\ store' = result.store
        /\ published' = published \cup {result.snapshot}
        /\ UNCHANGED issued

\* getTaskCommandControllerSnapshot and the admission checks: all one lazy read.
ReadTaskCommandLease(t) ==
    /\ store' = Active(store, t)
    /\ published' = published \cup {Snapshot(Active(store, t), t)}
    /\ UNCHANGED issued

PruneExpiredTaskCommandLeases(order) ==
    LET result == Prune(store, order)
    IN  /\ store' = result.store
        /\ published' = published \cup result.snapshots
        /\ UNCHANGED issued

GetTaskCommandControllers(order) ==
    LET result == Controllers(store, order)
    IN  /\ store' = result.store
        /\ published' = published \cup result.snapshots
        /\ UNCHANGED issued

ReleaseTaskCommandLeasesForClient(c, order) ==
    LET result == ReleaseForClient(store, c, order)
    IN  /\ store' = result.store
        /\ published' = published \cup result.snapshots
        /\ UNCHANGED issued

Tick ==
    /\ store' = Elapse(store)
    /\ UNCHANGED <<issued, published>>

Next ==
    \/ \E t \in Tasks, c \in Clients, o \in Owners, a \in Actions, takeover \in BOOLEAN :
            AcquireTaskCommandLease(t, c, o, a, takeover)
    \/ \E t \in Tasks, c \in Clients, o \in Owners, g \in Generations :
            RenewTaskCommandLease(t, c, o, g)
    \/ \E t \in Tasks, c \in Clients, o \in Owners, g \in Generations :
            ReleaseTaskCommandLease(t, c, o, g)
    \/ \E t \in Tasks : ClearTaskCommandLeaseForTask(t)
    \/ \E t \in Tasks : ReadTaskCommandLease(t)
    \/ \E order \in KeyOrders : PruneExpiredTaskCommandLeases(order)
    \/ \E order \in KeyOrders : GetTaskCommandControllers(order)
    \/ \E c \in Clients, order \in KeyOrders : ReleaseTaskCommandLeasesForClient(c, order)
    \/ Tick

Spec == Init /\ [][Next]_vars

-----------------------------------------------------------------------------

\* The table, the identities and the snapshots have their types: above all, no lease
\* ever has more than leaseMs before it, however often it is renewed.
TypeOK ==
    /\ store \in Store
    /\ issued \subseteq Identity
    /\ published \subseteq ControllerSnapshot

\* Two snapshots of one task with one version say the same.  Clients apply any
\* snapshot that is not older than the one they have (next.version >= current),
\* so two different snapshots with one version would be applied in arrival order.
SnapshotsAgree ==
    \A p, q \in published :
        (p.taskId = q.taskId /\ p.version = q.version) => p = q

\* No two grants of a task share a generation, whoever got them and however many
\* expiries, releases and task-id reuses lie between them.
GenerationIdentifiesGrant ==
    \A i, j \in issued :
        (i.taskId = j.taskId /\ i.leaseGeneration = j.leaseGeneration) => i = j

Accepted(s, i) ==
    IsTaskCommandLeaseGenerationHeld(s, i.taskId, i.clientId, i.ownerId, i.leaseGeneration)

\* A grant that isTaskCommandLeaseGenerationHeld rejects once is rejected for ever:
\* work admitted under a lost lease can never pass its fence again.
RejectedForEver ==
    [][\A i \in issued : ~Accepted(store, i) => ~Accepted(store', i)]_vars

\* The table implements the fence: a grant is in force while its lease has time left.
FenceGrant ==
    [t \in Tasks |->
        IF Held(store, t)
        THEN [clientId |-> store.lease[t].clientId, ownerId |-> store.lease[t].ownerId,
              epoch |-> store.lease[t].leaseGeneration]
        ELSE None]

Fence == INSTANCE LeaseFence WITH epoch <- store.generation, grant <- FenceGrant

ImplementsFence == Fence!Spec
=============================================================================
