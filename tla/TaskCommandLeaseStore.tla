------------------------ MODULE TaskCommandLeaseStore ------------------------
(***************************************************************************)
(* The backend's table of task-command leases                              *)
(* (electron/ipc/task-command-leases.ts) as operators over one record, so  *)
(* that callers can chain several table operations inside one event-loop   *)
(* turn, the way the control plane does.                                   *)
(*                                                                         *)
(* A store is [lease, generation, version]: the Map of leases, the Map of  *)
(* per-task generation counters, and the global controller version.        *)
(* A lease keeps its remaining time (ttl) instead of expiresAt: the code   *)
(* only compares expiresAt with now, so "expiresAt > now" is "ttl > 0" and *)
(* "now + leaseMs" is a full ttl.                                          *)
(***************************************************************************)
EXTENDS Integers, FiniteSets

CONSTANTS
    Tasks,    \* task ids
    Clients,  \* client ids: browser sessions, desktop windows, automation
    Owners,   \* owner ids: one per renderer runtime of a client
    Actions,  \* what the holder says it is doing
    LeaseMs,  \* lease length, in ticks
    None      \* null

ASSUME LeaseAssumption ==
    /\ LeaseMs \in Nat \ {0}
    /\ IsFiniteSet(Tasks)
    /\ None \notin Clients \cup Owners \cup Actions
    /\ None \notin [action : Actions, clientId : Clients, ttl : 0..LeaseMs,
                    leaseGeneration : Nat, ownerId : Owners]

Lease == [action : Actions, clientId : Clients, ttl : 0..LeaseMs,
          leaseGeneration : Nat, ownerId : Owners]

Store == [lease : [Tasks -> Lease \cup {None}],
          generation : [Tasks -> Nat],
          version : Nat]

EmptyStore == [lease |-> [t \in Tasks |-> None],
               generation |-> [t \in Tasks |-> 0],
               version |-> 0]

ControllerSnapshot == [action : Actions \cup {None}, controllerId : Clients \cup {None},
                       taskId : Tasks, version : Nat]

\* The snapshot of task t carrying the global version v.
SnapshotAt(s, t, v) ==
    [action |-> IF s.lease[t] = None THEN None ELSE s.lease[t].action,
     controllerId |-> IF s.lease[t] = None THEN None ELSE s.lease[t].clientId,
     taskId |-> t,
     version |-> v]

Snapshot(s, t) == SnapshotAt(s, t, s.version)

Expired(s, t) == s.lease[t] # None /\ s.lease[t].ttl = 0

Held(s, t) == s.lease[t] # None /\ s.lease[t].ttl > 0

Delete(s, t) ==
    [lease |-> [s.lease EXCEPT ![t] = None],
     generation |-> s.generation,
     version |-> s.version + 1]

\* Every read goes through getActiveTaskCommandLease, which deletes a lease it
\* finds expired.  Active(s, t) is the table after such a read of t.
Active(s, t) == IF Expired(s, t) THEN Delete(s, t) ELSE s

-----------------------------------------------------------------------------
\* acquireTaskCommandLease.  Each result keeps the new table in "store".

NextGenerationFromLease(s, t) ==  \* mutant: the counter dies with the lease
    IF s.lease[t] = None THEN 1 ELSE s.lease[t].leaseGeneration + 1

NextGenerationReused(s, t) == s.generation[t]  \* mutant: the counter is not bumped

NextGeneration(s, t) == s.generation[t] + 1

ControllerChangedByClient(current, c, a) ==  \* mutant: a new action goes unnoticed
    current = None \/ current.clientId # c

ControllerChanged(current, c, a) ==
    current = None \/ current.clientId # c \/ current.action # a

Refused(current, c, takeover) == current # None /\ current.clientId # c /\ ~takeover

Acquire(s0, t, c, o, a, takeover) ==
    LET s == Active(s0, t)
        current == s.lease[t]
        changed == ControllerChanged(current, c, a)
        next == [lease |-> [s.lease EXCEPT ![t] =
                               [action |-> a, clientId |-> c, ttl |-> LeaseMs,
                                leaseGeneration |-> NextGeneration(s, t), ownerId |-> o]],
                 generation |-> [s.generation EXCEPT ![t] = NextGeneration(s, t)],
                 version |-> IF changed THEN s.version + 1 ELSE s.version]
    IN  IF Refused(current, c, takeover)
        THEN [store |-> s, acquired |-> FALSE, changed |-> FALSE,
              leaseGeneration |-> current.leaseGeneration, snapshot |-> Snapshot(s, t)]
        ELSE [store |-> next, acquired |-> TRUE, changed |-> changed,
              leaseGeneration |-> NextGeneration(s, t), snapshot |-> Snapshot(next, t)]

\* The optional arguments of renew and release are None when they are absent.
Matches(lease, c, o, g) ==
    /\ lease # None
    /\ c = None \/ lease.clientId = c
    /\ o = None \/ lease.ownerId = o
    /\ g = None \/ lease.leaseGeneration = g

ExtendOldExpiry(s, t) ==  \* mutant: a renewal adds leaseMs to what is left of the lease
    [lease |-> [s.lease EXCEPT ![t] = [@ EXCEPT !.ttl = @ + LeaseMs]],
     generation |-> s.generation,
     version |-> s.version]

Extend(s, t) ==
    [lease |-> [s.lease EXCEPT ![t] = [@ EXCEPT !.ttl = LeaseMs]],
     generation |-> s.generation,
     version |-> s.version]

RenewExpired(s, t, c, o, g) ==  \* mutant: renews without looking at the clock
    LET next == Extend(s, t)
    IN  IF Matches(s.lease[t], c, o, g)
        THEN [store |-> next, renewed |-> TRUE, snapshot |-> Snapshot(next, t)]
        ELSE [store |-> s, renewed |-> FALSE, snapshot |-> Snapshot(s, t)]

Renew(s0, t, c, o, g) ==
    LET s == Active(s0, t)
        next == Extend(s, t)
    IN  IF Matches(s.lease[t], c, o, g)
        THEN [store |-> next, renewed |-> TRUE, snapshot |-> Snapshot(next, t)]
        ELSE [store |-> s, renewed |-> FALSE, snapshot |-> Snapshot(s, t)]

Release(s0, t, c, o, g) ==
    LET s == Active(s0, t)
        next == Delete(s, t)
    IN  IF Matches(s.lease[t], c, o, g)
        THEN [store |-> next, changed |-> TRUE, snapshot |-> Snapshot(next, t)]
        ELSE [store |-> s, changed |-> FALSE, snapshot |-> Snapshot(s, t)]

\* clearTaskCommandLeaseForTask: an expired entry still counts as a change.
ClearForTask(s, t) ==
    LET next == IF s.lease[t] = None THEN s ELSE Delete(s, t)
    IN  [store |-> next, changed |-> s.lease[t] # None, snapshot |-> Snapshot(next, t)]

-----------------------------------------------------------------------------
\* The operations that walk the whole Map.  "order" ranks its keys; each deletion
\* bumps the version, so the walk's snapshots carry increasing versions.

KeyOrders ==
    {order \in [Tasks -> 1..Cardinality(Tasks)] :
        \A t, u \in Tasks : order[t] = order[u] => t = u}

ExpiredTasks(s) == {t \in Tasks : Expired(s, t)}

DeleteAll(s, removed) ==
    [lease |-> [t \in Tasks |-> IF t \in removed THEN None ELSE s.lease[t]],
     generation |-> s.generation,
     version |-> s.version + Cardinality(removed)]

\* The version when the walk has just passed task t.
WalkVersion(s, removed, order, t) ==
    s.version + Cardinality({u \in removed : order[u] <= order[t]})

\* releasedSnapshots: one null snapshot per deleted lease.
ReleasedSnapshots(s, removed, order) ==
    {SnapshotAt(DeleteAll(s, removed), t, WalkVersion(s, removed, order, t)) : t \in removed}

\* pruneExpiredTaskCommandLeases
Prune(s, order) ==
    LET removed == ExpiredTasks(s)
    IN  [store |-> DeleteAll(s, removed), snapshots |-> ReleasedSnapshots(s, removed, order)]

\* releaseTaskCommandLeasesForClient: also sweeps what has expired.
ReleaseForClient(s, c, order) ==
    LET removed == ExpiredTasks(s) \cup
                   {t \in Tasks : s.lease[t] # None /\ s.lease[t].clientId = c}
    IN  [store |-> DeleteAll(s, removed), snapshots |-> ReleasedSnapshots(s, removed, order)]

\* getTaskCommandControllers with getTaskCommandControllerStateVersion: the live
\* leases; the expired ones are deleted on the way without any snapshot.
Controllers(s, order) ==
    LET removed == ExpiredTasks(s)
        next == DeleteAll(s, removed)
    IN  [store |-> next,
         snapshots |-> {SnapshotAt(s, t, WalkVersion(s, removed, order, t)) :
                           t \in {u \in Tasks : Held(s, u)}},
         version |-> next.version]

-----------------------------------------------------------------------------
\* Reads used as admission checks.  They all leave Active(s, t) behind.

IsTaskCommandLeaseHeld(s, t, c) ==
    LET lease == Active(s, t).lease[t] IN lease # None /\ lease.clientId = c

IsTaskCommandLeaseGenerationHeld(s, t, c, o, g) ==
    LET lease == Active(s, t).lease[t]
    IN  lease # None /\ lease.clientId = c /\ lease.ownerId = o /\ lease.leaseGeneration = g

CanResizeTaskTerminal(s, t, c) ==
    LET lease == Active(s, t).lease[t] IN lease = None \/ lease.clientId = c

\* Time passes by one tick for every lease.
Elapse(s) ==
    [lease |-> [t \in Tasks |->
                   IF Held(s, t) THEN [s.lease[t] EXCEPT !.ttl = @ - 1] ELSE s.lease[t]],
     generation |-> s.generation,
     version |-> s.version]
=============================================================================
