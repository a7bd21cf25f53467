-------------------- MODULE TaskCommandLeaseStore_proofs ---------------------
(***************************************************************************)
(* What the operations of the lease table do, whoever calls them, for any  *)
(* tasks, clients, owners, actions and lease length.                       *)
(***************************************************************************)
EXTENDS TaskCommandLeaseStore, FiniteSetTheorems, TLAPS

\* A stored lease always carries the newest generation of its task.
Current(s) ==
    \A t \in Tasks : s.lease[t] # None => s.lease[t].leaseGeneration = s.generation[t]

\* What every operation does to the table, whoever calls it: versions and
\* generations never go back, a new controller always gets a new version, and a
\* lease in force that was not granted just now was in force before.
StoreStep(s, r) ==
    /\ r \in Store
    /\ Current(r)
    /\ s.version <= r.version
    /\ \A t \in Tasks : s.generation[t] <= r.generation[t]
    /\ r.version = s.version => \A t \in Tasks : SnapshotAt(r, t, 0) = SnapshotAt(s, t, 0)
    /\ \A t \in Tasks :
          (Held(r, t) /\ r.generation[t] = s.generation[t]) =>
             /\ Held(s, t)
             /\ r.lease[t].clientId = s.lease[t].clientId
             /\ r.lease[t].ownerId = s.lease[t].ownerId

\* The fields of a table have their types, and null is not a lease.
LEMMA LeaseTyping ==
    ASSUME NEW s \in Store, NEW t \in Tasks
    PROVE  /\ s.lease[t] \in Lease \cup {None}
           /\ s.lease[t] # None => s.lease[t] \in Lease
           /\ s.generation[t] \in Nat
           /\ s.version \in Nat
           /\ None \notin Lease
  BY LeaseAssumption DEF Store, Lease

\* deleteTaskCommandLease removes one lease, bumps the version and is a table step.
LEMMA DeleteStep ==
    ASSUME NEW s \in Store, NEW t \in Tasks, Current(s)
    PROVE  /\ StoreStep(s, Delete(s, t))
           /\ Delete(s, t).generation = s.generation
           /\ Delete(s, t).version = s.version + 1
           /\ Delete(s, t).lease = [s.lease EXCEPT ![t] = None]
  <1> DEFINE r == Delete(s, t)
  <1>1. /\ r.generation = s.generation
        /\ r.version = s.version + 1
        /\ r.lease = [s.lease EXCEPT ![t] = None]
    BY DEF Delete, Store
  <1>2. r \in Store
    BY <1>1, LeaseTyping DEF Store, Delete
  <1>3. \A u \in Tasks : r.lease[u] = IF u = t THEN None ELSE s.lease[u]
    BY <1>1 DEF Store
  <1>4. Current(r)
    BY <1>1, <1>3 DEF Current
  <1>5. \A u \in Tasks : Held(r, u) => Held(s, u) /\ r.lease[u] = s.lease[u]
    BY <1>3 DEF Held
  <1>6. s.version \in Nat /\ s.generation \in [Tasks -> Nat]
    BY DEF Store
  <1>7. StoreStep(s, r)
    BY <1>1, <1>2, <1>4, <1>5, <1>6 DEF StoreStep
  <1> QED
    BY <1>1, <1>7

\* An operation that changes nothing is a table step.
LEMMA StutterStep ==
    ASSUME NEW s \in Store, Current(s)
    PROVE  StoreStep(s, s)
  BY DEF StoreStep, Store

\* getActiveTaskCommandLease: a table step after which the entry it returns has time
\* left, and which left the table alone if it returns one.
LEMMA ActiveStep ==
    ASSUME NEW s \in Store, NEW t \in Tasks, Current(s)
    PROVE  /\ StoreStep(s, Active(s, t))
           /\ Active(s, t).generation = s.generation
           /\ \A u \in Tasks : Active(s, t).lease[u] =
                IF u = t /\ Expired(s, t) THEN None ELSE s.lease[u]
           /\ ~Expired(Active(s, t), t)
           /\ Active(s, t).lease[t] # None => Held(s, t)
           /\ Active(s, t).lease[t] # None => Active(s, t) = s
  <1>1. CASE Expired(s, t)
    <2>1. Active(s, t) = Delete(s, t)
      BY <1>1 DEF Active
    <2>2. /\ StoreStep(s, Active(s, t))
          /\ Active(s, t).generation = s.generation
          /\ Active(s, t).lease = [s.lease EXCEPT ![t] = None]
      BY <2>1, DeleteStep
    <2>3. \A u \in Tasks : Active(s, t).lease[u] = IF u = t THEN None ELSE s.lease[u]
      BY <2>2 DEF Store
    <2>4. Active(s, t).lease[t] = None
      BY <2>3
    <2>5. ~Expired(Active(s, t), t)
      BY <2>4 DEF Expired
    <2> QED
      BY <1>1, <2>2, <2>3, <2>4, <2>5
  <1>2. CASE ~Expired(s, t)
    BY <1>2, LeaseTyping, StutterStep DEF Active, Expired, Held, Lease
  <1> QED
    BY <1>1, <1>2

\* A lazy deletion followed by the operation proper is still one table step.
LEMMA StepsCompose ==
    ASSUME NEW s \in Store, NEW r, NEW q, StoreStep(s, r), StoreStep(r, q)
    PROVE  StoreStep(s, q)
  <1>1. /\ r \in Store /\ q \in Store
        /\ s.version \in Nat /\ r.version \in Nat /\ q.version \in Nat
        /\ s.version <= r.version /\ r.version <= q.version
    BY DEF StoreStep, Store
  <1>2. \A t \in Tasks : /\ s.generation[t] \in Nat /\ r.generation[t] \in Nat
                         /\ q.generation[t] \in Nat
                         /\ s.generation[t] <= r.generation[t]
                         /\ r.generation[t] <= q.generation[t]
    BY LeaseTyping DEF StoreStep
  <1>3. q.version = s.version => r.version = s.version /\ q.version = r.version
    BY <1>1
  <1>4. q.version = s.version => \A t \in Tasks : SnapshotAt(q, t, 0) = SnapshotAt(s, t, 0)
    BY <1>3 DEF StoreStep
  <1>5. ASSUME NEW t \in Tasks, Held(q, t), q.generation[t] = s.generation[t]
        PROVE  /\ Held(s, t)
               /\ q.lease[t].clientId = s.lease[t].clientId
               /\ q.lease[t].ownerId = s.lease[t].ownerId
    <2>1. q.generation[t] = r.generation[t] /\ r.generation[t] = s.generation[t]
      BY <1>2, <1>5
    <2>2. /\ Held(r, t)
          /\ q.lease[t].clientId = r.lease[t].clientId
          /\ q.lease[t].ownerId = r.lease[t].ownerId
      BY <1>5, <2>1 DEF StoreStep
    <2> QED
      BY <2>1, <2>2 DEF StoreStep
  <1>6. Current(q)
    BY DEF StoreStep
  <1> QED
    BY <1>1, <1>2, <1>4, <1>5, <1>6 DEF StoreStep

\* Storing a lease with the next generation is a table step: a changed controller
\* gets a new version, and an unchanged one keeps its snapshot.
LEMMA GrantStep ==
    ASSUME NEW s \in Store, NEW t \in Tasks, NEW c \in Clients, NEW o \in Owners,
           NEW a \in Actions, Current(s), ~Expired(s, t),
           NEW lease, lease = [action |-> a, clientId |-> c, ttl |-> LeaseMs,
                               leaseGeneration |-> s.generation[t] + 1, ownerId |-> o],
           NEW r, r = [lease |-> [s.lease EXCEPT ![t] = lease],
                       generation |-> [s.generation EXCEPT ![t] = s.generation[t] + 1],
                       version |-> IF ControllerChanged(s.lease[t], c, a)
                                   THEN s.version + 1 ELSE s.version]
    PROVE  StoreStep(s, r)
  <1>1. lease \in Lease /\ lease.clientId = c /\ lease.action = a /\ lease.ttl = LeaseMs
        /\ lease.leaseGeneration = s.generation[t] + 1 /\ lease.ownerId = o
    BY LeaseAssumption, LeaseTyping DEF Lease
  <1>2. /\ \A u \in Tasks : r.lease[u] = IF u = t THEN lease ELSE s.lease[u]
        /\ \A u \in Tasks : r.generation[u] =
                                IF u = t THEN s.generation[t] + 1 ELSE s.generation[u]
        /\ r.version = s.version \/ r.version = s.version + 1
    BY DEF Store
  <1>3. r \in Store
    BY <1>1, LeaseTyping DEF Store
  <1>4. Current(r)
    BY <1>1, <1>2 DEF Current
  <1>5. r.version = s.version => \A u \in Tasks : SnapshotAt(r, u, 0) = SnapshotAt(s, u, 0)
    <2>1. SUFFICES ASSUME r.version = s.version, NEW u \in Tasks
                   PROVE  SnapshotAt(r, u, 0) = SnapshotAt(s, u, 0)
      OBVIOUS
    <2>2. s.lease[t] # None /\ s.lease[t].clientId = c /\ s.lease[t].action = a
      BY <2>1, LeaseTyping DEF ControllerChanged
    <2>3. lease # None
      BY <1>1, LeaseTyping
    <2> QED
      BY <1>1, <1>2, <2>2, <2>3 DEF SnapshotAt
  <1>6. \A u \in Tasks : /\ s.generation[u] \in Nat
                         /\ s.generation[u] <= r.generation[u]
                         /\ r.generation[u] = s.generation[u] => u # t
    BY <1>2, LeaseTyping
  <1>7. \A u \in Tasks : (Held(r, u) /\ r.generation[u] = s.generation[u]) =>
                             Held(s, u) /\ r.lease[u] = s.lease[u]
    BY <1>2, <1>6 DEF Held
  <1>8. s.version <= r.version
    BY <1>2, LeaseTyping
  <1> QED
    BY <1>3, <1>4, <1>5, <1>6, <1>7, <1>8 DEF StoreStep

\* An acquire that is refused, or that grants: the table and the result.
LEMMA AcquireStep ==
    ASSUME NEW s \in Store, NEW t \in Tasks, NEW c \in Clients, NEW o \in Owners,
           NEW a \in Actions, NEW takeover, Current(s)
    PROVE  /\ StoreStep(s, Acquire(s, t, c, o, a, takeover).store)
           /\ Acquire(s, t, c, o, a, takeover).snapshot =
                 Snapshot(Acquire(s, t, c, o, a, takeover).store, t)
           /\ Acquire(s, t, c, o, a, takeover).acquired =
                 ~Refused(Active(s, t).lease[t], c, takeover)
  <1> DEFINE q == Active(s, t)
             lease == [action |-> a, clientId |-> c, ttl |-> LeaseMs,
                       leaseGeneration |-> q.generation[t] + 1, ownerId |-> o]
             r == [lease |-> [q.lease EXCEPT ![t] = lease],
                   generation |-> [q.generation EXCEPT ![t] = q.generation[t] + 1],
                   version |-> IF ControllerChanged(q.lease[t], c, a)
                               THEN q.version + 1 ELSE q.version]
  <1>1. /\ StoreStep(s, q) /\ ~Expired(q, t)
        /\ q \in Store /\ Current(q)
    BY ActiveStep DEF StoreStep
  <1>2. CASE Refused(q.lease[t], c, takeover)
    BY <1>1, <1>2 DEF Acquire
  <1>3. CASE ~Refused(q.lease[t], c, takeover)
    <2>1. StoreStep(q, r)
      BY <1>1, GrantStep
    <2>2. StoreStep(s, r)
      BY <1>1, <2>1, StepsCompose
    <2> QED
      BY <1>3, <2>2 DEF Acquire, NextGeneration
  <1> QED
    BY <1>2, <1>3

\* A refused acquire takes no generation.
LEMMA AcquireRefused ==
    ASSUME NEW s \in Store, NEW t \in Tasks, NEW c, NEW o, NEW a, NEW takeover, Current(s),
           Refused(Active(s, t).lease[t], c, takeover)
    PROVE  Acquire(s, t, c, o, a, takeover).store.generation = s.generation
  BY ActiveStep DEF Acquire

\* A granted acquire takes the next generation and stores exactly that lease.
LEMMA AcquireGrants ==
    ASSUME NEW s \in Store, NEW t \in Tasks, NEW c \in Clients, NEW o \in Owners,
           NEW a \in Actions, NEW takeover, Current(s),
           ~Refused(Active(s, t).lease[t], c, takeover)
    PROVE  /\ Acquire(s, t, c, o, a, takeover).leaseGeneration = s.generation[t] + 1
           /\ Acquire(s, t, c, o, a, takeover).store.generation = [s.generation EXCEPT ![t] = @ + 1]
           /\ Acquire(s, t, c, o, a, takeover).store.lease = [s.lease EXCEPT ![t] =
                 [action |-> a, clientId |-> c, ttl |-> LeaseMs,
                  leaseGeneration |-> s.generation[t] + 1, ownerId |-> o]]
  <1> DEFINE q == Active(s, t)
             lease == [action |-> a, clientId |-> c, ttl |-> LeaseMs,
                       leaseGeneration |-> s.generation[t] + 1, ownerId |-> o]
  <1>1. q.generation = s.generation /\ q \in Store
    BY ActiveStep DEF StoreStep
  <1>2. [q.lease EXCEPT ![t] = lease] = [s.lease EXCEPT ![t] = lease]
    <2>1. q.lease \in [Tasks -> Lease \cup {None}] /\ s.lease \in [Tasks -> Lease \cup {None}]
      BY <1>1 DEF Store
    <2>2. \A u \in Tasks \ {t} : q.lease[u] = s.lease[u]
      BY ActiveStep
    <2> QED
      BY <2>1, <2>2
  <1> DEFINE result == Acquire(s, t, c, o, a, takeover)
  <1>3. /\ result.store.lease = [q.lease EXCEPT ![t] = lease]
        /\ result.store.generation = [q.generation EXCEPT ![t] = q.generation[t] + 1]
        /\ result.leaseGeneration = q.generation[t] + 1
    BY <1>1 DEF Acquire, NextGeneration
  <1> QED
    BY <1>1, <1>2, <1>3

\* renewTaskCommandLease is a table step and never starts a generation: the lease it
\* extends had time left.
LEMMA RenewStep ==
    ASSUME NEW s \in Store, NEW t \in Tasks, NEW c, NEW o, NEW g, Current(s)
    PROVE  LET result == Renew(s, t, c, o, g) IN
           /\ StoreStep(s, result.store)
           /\ result.snapshot = Snapshot(result.store, t)
           /\ result.store.generation = s.generation
  <1> DEFINE q == Active(s, t)
             r == Extend(q, t)
  <1>1. /\ StoreStep(s, q) /\ q.generation = s.generation /\ q \in Store /\ Current(q)
        /\ q.lease[t] # None => q = s /\ Held(s, t)
    BY ActiveStep DEF StoreStep
  <1>2. CASE Matches(q.lease[t], c, o, g)
    <2>1. q = s /\ Held(s, t) /\ s.lease[t] # None
      BY <1>1, <1>2 DEF Matches
    <2> DEFINE lease == [s.lease[t] EXCEPT !.ttl = LeaseMs]
    <2>2. lease \in Lease
      <3>1. s.lease[t] \in Lease
        BY <2>1, LeaseTyping
      <3>2. LeaseMs \in 0..LeaseMs
        BY LeaseAssumption
      <3> QED
        BY <3>1, <3>2 DEF Lease
    <2>3. /\ lease.action = s.lease[t].action /\ lease.clientId = s.lease[t].clientId
          /\ lease.ownerId = s.lease[t].ownerId
          /\ lease.leaseGeneration = s.lease[t].leaseGeneration
      BY <2>1, <2>2, LeaseTyping DEF Lease
    <2>4. r = [lease |-> [s.lease EXCEPT ![t] = lease], generation |-> s.generation,
               version |-> s.version]
      BY <2>1, <2>2 DEF Extend, Store
    <2>5. \A u \in Tasks : r.lease[u] = IF u = t THEN lease ELSE s.lease[u]
      BY <2>4 DEF Store
    <2>6. r \in Store
      BY <2>2, <2>4, LeaseTyping DEF Store
    <2>7. Current(r)
      BY <2>1, <2>3, <2>4, <2>5 DEF Current
    <2>8. \A u \in Tasks : SnapshotAt(r, u, 0) = SnapshotAt(s, u, 0)
      BY <2>1, <2>2, <2>3, <2>5, LeaseTyping DEF SnapshotAt
    <2>9. \A u \in Tasks : Held(r, u) => /\ Held(s, u)
                                         /\ r.lease[u].clientId = s.lease[u].clientId
                                         /\ r.lease[u].ownerId = s.lease[u].ownerId
      BY <2>1, <2>3, <2>5 DEF Held
    <2>10. r.generation = s.generation /\ r.version = s.version
      BY <2>4
    <2>11. StoreStep(s, r)
      BY <2>6, <2>7, <2>8, <2>9, <2>10, LeaseTyping DEF StoreStep
    <2> QED
      BY <1>2, <2>10, <2>11 DEF Renew
  <1>3. CASE ~Matches(q.lease[t], c, o, g)
    BY <1>1, <1>3 DEF Renew
  <1> QED
    BY <1>2, <1>3

\* releaseTaskCommandLease is a table step, and its snapshot is the new table's.
LEMMA ReleaseStep ==
    ASSUME NEW s \in Store, NEW t \in Tasks, NEW c, NEW o, NEW g, Current(s)
    PROVE  LET result == Release(s, t, c, o, g) IN
           /\ StoreStep(s, result.store)
           /\ result.snapshot = Snapshot(result.store, t)
           /\ result.store.generation = s.generation
  <1> DEFINE q == Active(s, t)
  <1>1. StoreStep(s, q) /\ q.generation = s.generation /\ q \in Store /\ Current(q)
    BY ActiveStep DEF StoreStep
  <1>2. StoreStep(q, Delete(q, t)) /\ Delete(q, t).generation = q.generation
    BY <1>1, DeleteStep
  <1>3. StoreStep(s, Delete(q, t))
    BY <1>1, <1>2, StepsCompose
  <1> QED
    BY <1>1, <1>2, <1>3 DEF Release

\* clearTaskCommandLeaseForTask is a table step; the generation counter survives it.
LEMMA ClearStep ==
    ASSUME NEW s \in Store, NEW t \in Tasks, Current(s)
    PROVE  LET result == ClearForTask(s, t) IN
           /\ StoreStep(s, result.store)
           /\ result.snapshot = Snapshot(result.store, t)
           /\ result.store.generation = s.generation
  BY StutterStep, DeleteStep DEF ClearForTask

-----------------------------------------------------------------------------
(* The operations that walk the whole table, and time. *)

\* Deleting any set of leases is a table step that bumps the version once for each.
LEMMA DeleteAllStep ==
    ASSUME NEW s \in Store, NEW removed \in SUBSET Tasks, Current(s),
           \A t \in removed : s.lease[t] # None
    PROVE  /\ StoreStep(s, DeleteAll(s, removed))
           /\ DeleteAll(s, removed).generation = s.generation
           /\ Cardinality(removed) \in Nat
           /\ DeleteAll(s, removed).version = s.version + Cardinality(removed)
           /\ \A t \in Tasks : DeleteAll(s, removed).lease[t] =
                                  IF t \in removed THEN None ELSE s.lease[t]
  <1> DEFINE r == DeleteAll(s, removed)
  <1>1. IsFiniteSet(removed) /\ Cardinality(removed) \in Nat
    BY FS_Subset, FS_CardinalityType, LeaseAssumption
  <1>2. /\ \A t \in Tasks : r.lease[t] = IF t \in removed THEN None ELSE s.lease[t]
        /\ r.generation = s.generation
        /\ r.version = s.version + Cardinality(removed)
    BY DEF DeleteAll
  <1>3. r \in Store
    BY <1>1, LeaseTyping DEF DeleteAll, Store
  <1>4. r.version = s.version => removed = {}
    BY <1>1, <1>2, FS_EmptySet, LeaseTyping DEF Store
  <1>5. r.version = s.version => \A t \in Tasks : SnapshotAt(r, t, 0) = SnapshotAt(s, t, 0)
    BY <1>2, <1>4 DEF SnapshotAt
  <1>6. \A t \in Tasks : Held(r, t) => Held(s, t) /\ r.lease[t] = s.lease[t]
    BY <1>2 DEF Held
  <1>7. Current(r)
    BY <1>2 DEF Current
  <1>8. s.version <= r.version /\ \A t \in Tasks : s.generation[t] <= r.generation[t]
    BY <1>1, <1>2, LeaseTyping DEF Store
  <1> QED
    BY <1>1, <1>2, <1>3, <1>5, <1>6, <1>7, <1>8 DEF StoreStep

\* The passing of time changes no controller, version or generation.
LEMMA ElapseStep ==
    ASSUME NEW s \in Store, Current(s)
    PROVE  /\ StoreStep(s, Elapse(s))
           /\ Elapse(s).generation = s.generation
           /\ Elapse(s).version = s.version
  <1> DEFINE r == Elapse(s)
  <1>1. r.generation = s.generation /\ r.version = s.version
    BY DEF Elapse
  <1>2. ASSUME NEW t \in Tasks
        PROVE  /\ r.lease[t] \in Lease \cup {None}
               /\ s.lease[t] = None <=> r.lease[t] = None
               /\ s.lease[t] # None =>
                     /\ r.lease[t].action = s.lease[t].action
                     /\ r.lease[t].clientId = s.lease[t].clientId
                     /\ r.lease[t].ownerId = s.lease[t].ownerId
                     /\ r.lease[t].leaseGeneration = s.lease[t].leaseGeneration
               /\ Held(r, t) => Held(s, t)
    <2>1. r.lease[t] = IF Held(s, t) THEN [s.lease[t] EXCEPT !.ttl = @ - 1] ELSE s.lease[t]
      BY DEF Elapse
    <2>2. CASE Held(s, t)
      <3>1. s.lease[t] \in Lease /\ s.lease[t].ttl > 0
        BY <2>2, LeaseTyping DEF Held
      <3>2. s.lease[t].ttl - 1 \in 0..LeaseMs
        BY <3>1, LeaseAssumption DEF Lease
      <3>3. [s.lease[t] EXCEPT !.ttl = @ - 1] \in Lease
        BY <3>1, <3>2 DEF Lease
      <3>4. s.lease[t] # None /\ r.lease[t] # None
        BY <2>1, <2>2, <3>1, <3>3, LeaseTyping
      <3> QED
        BY <2>1, <2>2, <3>1, <3>3, <3>4 DEF Lease
    <2>3. CASE ~Held(s, t)
      BY <2>1, <2>3, LeaseTyping DEF Held
    <2> QED
      BY <2>2, <2>3
  <1>3. r \in Store
    <2>1. r.lease = [t \in Tasks |-> r.lease[t]]
      BY DEF Elapse
    <2>2. r.lease \in [Tasks -> Lease \cup {None}]
      BY <1>2, <2>1
    <2>3. r = [lease |-> r.lease, generation |-> s.generation, version |-> s.version]
      BY DEF Elapse
    <2> QED
      BY <2>2, <2>3 DEF Store
  <1>4. Current(r)
    BY <1>1, <1>2 DEF Current
  <1>5. \A t \in Tasks : SnapshotAt(r, t, 0) = SnapshotAt(s, t, 0)
    BY <1>2 DEF SnapshotAt
  <1>6. \A t \in Tasks : Held(r, t) => /\ Held(s, t)
                                       /\ r.lease[t].clientId = s.lease[t].clientId
                                       /\ r.lease[t].ownerId = s.lease[t].ownerId
    BY <1>2 DEF Held
  <1>7. s.version <= r.version /\ \A t \in Tasks : s.generation[t] <= r.generation[t]
    BY <1>1, LeaseTyping DEF Store
  <1> QED
    BY <1>1, <1>3, <1>4, <1>5, <1>6, <1>7 DEF StoreStep

\* The versions a walk over the Map passes lie between the old and the new version,
\* and above the old one at a task it deletes.
LEMMA WalkVersions ==
    ASSUME NEW s \in Store, NEW removed \in SUBSET Tasks, NEW order \in KeyOrders,
           NEW t \in Tasks
    PROVE  /\ WalkVersion(s, removed, order, t) \in Nat
           /\ s.version <= WalkVersion(s, removed, order, t)
           /\ WalkVersion(s, removed, order, t) <= s.version + Cardinality(removed)
           /\ t \in removed => s.version < WalkVersion(s, removed, order, t)
  <1> DEFINE passed == {u \in removed : order[u] <= order[t]}
  <1>1. IsFiniteSet(removed)
    BY FS_Subset, LeaseAssumption
  <1>2. /\ IsFiniteSet(passed) /\ Cardinality(passed) \in Nat
        /\ Cardinality(removed) \in Nat /\ Cardinality(passed) <= Cardinality(removed)
    BY <1>1, FS_Subset, FS_CardinalityType
  <1>3. ASSUME t \in removed PROVE Cardinality(passed) > 0
    <2>1. order[t] \in Int
      BY FS_CardinalityType, LeaseAssumption DEF KeyOrders
    <2>2. t \in passed
      BY <1>3, <2>1
    <2> QED
      BY <1>2, <2>2, FS_EmptySet
  <1>4. WalkVersion(s, removed, order, t) = s.version + Cardinality(passed)
    BY DEF WalkVersion
  <1> HIDE DEF passed
  <1> QED
    BY <1>2, <1>3, <1>4, LeaseTyping

\* pruneExpiredTaskCommandLeases is a table step.
LEMMA PruneStep ==
    ASSUME NEW s \in Store, NEW order \in KeyOrders, Current(s)
    PROVE  LET removed == ExpiredTasks(s) IN
           /\ StoreStep(s, DeleteAll(s, removed))
           /\ DeleteAll(s, removed).generation = s.generation
           /\ removed \in SUBSET Tasks
           /\ \A t \in removed : s.lease[t] # None
  <1>1. ExpiredTasks(s) \in SUBSET Tasks /\ \A t \in ExpiredTasks(s) : s.lease[t] # None
    BY DEF ExpiredTasks, Expired
  <1> QED
    BY <1>1, DeleteAllStep

\* releaseTaskCommandLeasesForClient is a table step.
LEMMA DepartureStep ==
    ASSUME NEW s \in Store, NEW c \in Clients, Current(s)
    PROVE  LET removed == ExpiredTasks(s) \cup
                   {t \in Tasks : s.lease[t] # None /\ s.lease[t].clientId = c} IN
           /\ StoreStep(s, DeleteAll(s, removed))
           /\ DeleteAll(s, removed).generation = s.generation
           /\ removed \in SUBSET Tasks
           /\ \A t \in removed : s.lease[t] # None
  <1> DEFINE removed == ExpiredTasks(s) \cup
                   {t \in Tasks : s.lease[t] # None /\ s.lease[t].clientId = c}
  <1>1. removed \in SUBSET Tasks /\ \A t \in removed : s.lease[t] # None
    BY DEF ExpiredTasks, Expired
  <1> HIDE DEF removed
  <1>2. /\ StoreStep(s, DeleteAll(s, removed))
        /\ DeleteAll(s, removed).generation = s.generation
    BY <1>1, DeleteAllStep
  <1> USE DEF removed
  <1> QED
    BY <1>1, <1>2

-----------------------------------------------------------------------------
(* Snapshots. *)

\* What makes the published snapshots agree: none is newer than the table, and
\* those as new as the table say what the table says.
Consistent(s, snapshots) ==
    /\ snapshots \subseteq ControllerSnapshot
    /\ \A p \in snapshots : p.version <= s.version
    /\ \A p \in snapshots : p.version = s.version => p = Snapshot(s, p.taskId)
    /\ \A p, q \in snapshots : (p.taskId = q.taskId /\ p.version = q.version) => p = q

\* The new snapshots of one step: each lies between the two tables, tells the
\* truth about the table whose version it has, and there is one per task.
Fresh(s, r, new) ==
    /\ new \subseteq ControllerSnapshot
    /\ \A p \in new : s.version <= p.version /\ p.version <= r.version
    /\ \A p \in new : p.version = s.version => p = Snapshot(s, p.taskId)
    /\ \A p \in new : p.version = r.version => p = Snapshot(r, p.taskId)
    /\ \A p, q \in new : p.taskId = q.taskId => p = q

\* A snapshot has its type and carries the task and version it was made for.
LEMMA SnapshotTyping ==
    ASSUME NEW s \in Store, NEW t \in Tasks, NEW v \in Nat
    PROVE  /\ SnapshotAt(s, t, v) \in ControllerSnapshot
           /\ SnapshotAt(s, t, v).taskId = t
           /\ SnapshotAt(s, t, v).version = v
           /\ SnapshotAt(s, t, v).action = SnapshotAt(s, t, 0).action
           /\ SnapshotAt(s, t, v).controllerId = SnapshotAt(s, t, 0).controllerId
  BY LeaseTyping DEF SnapshotAt, ControllerSnapshot, Lease

\* Tables that agree on a task's controller agree on its snapshot at any version.
LEMMA SnapshotCarries ==
    ASSUME NEW s \in Store, NEW r \in Store, NEW t \in Tasks, NEW v \in Nat,
           SnapshotAt(s, t, 0) = SnapshotAt(r, t, 0)
    PROVE  SnapshotAt(s, t, v) = SnapshotAt(r, t, v)
  <1>1. \A q \in {s, r} : SnapshotAt(q, t, v) =
            [action |-> SnapshotAt(q, t, 0).action,
             controllerId |-> SnapshotAt(q, t, 0).controllerId, taskId |-> t, version |-> v]
    BY DEF SnapshotAt
  <1> QED
    BY <1>1

\* Snapshots that are fresh after a table step join the earlier ones consistently.
LEMMA PublishStep ==
    ASSUME NEW s \in Store, NEW r, NEW old, NEW new,
           StoreStep(s, r), Consistent(s, old), Fresh(s, r, new)
    PROVE  Consistent(r, old \cup new)
  <1>1. r \in Store /\ s.version \in Nat /\ r.version \in Nat /\ s.version <= r.version
    BY DEF StoreStep, Store
  <1>2. \A p \in old \cup new : p \in ControllerSnapshot /\ p.version \in Nat /\ p.taskId \in Tasks
    BY DEF Consistent, Fresh, ControllerSnapshot
  <1>3. \A p \in old \cup new : p.version <= r.version
    BY <1>1, <1>2 DEF Consistent, Fresh
  <1>4. ASSUME NEW p \in old \cup new, p.version = r.version
        PROVE  p = Snapshot(r, p.taskId)
    <2>1. CASE p \in new
      BY <1>4, <2>1 DEF Fresh
    <2>2. CASE p \in old
      <3>1. p.version <= s.version
        BY <2>2 DEF Consistent
      <3>2. s.version = r.version
        BY <1>1, <1>2, <1>4, <3>1
      <3>3. p = Snapshot(s, p.taskId)
        BY <1>4, <2>2, <3>2 DEF Consistent
      <3>4. SnapshotAt(s, p.taskId, 0) = SnapshotAt(r, p.taskId, 0)
        BY <1>2, <3>2 DEF StoreStep
      <3>5. Snapshot(s, p.taskId) = Snapshot(r, p.taskId)
        BY <1>1, <1>2, <3>2, <3>4, SnapshotCarries DEF Snapshot
      <3> QED
        BY <3>3, <3>5
    <2> QED
      BY <2>1, <2>2
  <1>5. ASSUME NEW p \in old \cup new, NEW q \in old \cup new,
               p.taskId = q.taskId, p.version = q.version
        PROVE  p = q
    <2>1. ASSUME NEW x \in old, NEW y \in new, x.taskId = y.taskId, x.version = y.version
          PROVE  x = y
      <3>1. x.version <= s.version /\ s.version <= y.version
        BY DEF Consistent, Fresh
      <3>2. x.version = s.version /\ y.version = s.version
        BY <1>1, <1>2, <2>1, <3>1
      <3> QED
        BY <2>1, <3>2 DEF Consistent, Fresh
    <2>2. CASE p \in old /\ q \in old
      BY <1>5, <2>2 DEF Consistent
    <2>3. CASE p \in new /\ q \in new
      BY <1>5, <2>3 DEF Fresh
    <2> QED
      BY <1>5, <2>1, <2>2, <2>3
  <1> QED
    BY <1>2, <1>3, <1>4, <1>5 DEF Consistent

\* The operations that return one snapshot of the table they leave behind.
LEMMA OneSnapshot ==
    ASSUME NEW s \in Store, NEW r, NEW t \in Tasks, StoreStep(s, r)
    PROVE  Fresh(s, r, {Snapshot(r, t)})
  <1>1. r \in Store /\ s.version \in Nat /\ r.version \in Nat /\ s.version <= r.version
    BY DEF StoreStep, Store
  <1>2. /\ Snapshot(r, t) \in ControllerSnapshot
        /\ Snapshot(r, t).taskId = t
        /\ Snapshot(r, t).version = r.version
    BY <1>1, SnapshotTyping DEF Snapshot
  <1>3. r.version = s.version => Snapshot(r, t) = Snapshot(s, t)
    BY <1>1, SnapshotCarries DEF StoreStep, Snapshot
  <1> QED
    BY <1>1, <1>2, <1>3 DEF Fresh

\* The null snapshots of a sweep.
LEMMA SweptSnapshots ==
    ASSUME NEW s \in Store, NEW order \in KeyOrders, NEW removed \in SUBSET Tasks,
           Current(s), \A t \in removed : s.lease[t] # None
    PROVE  Fresh(s, DeleteAll(s, removed), ReleasedSnapshots(s, removed, order))
  <1> DEFINE r == DeleteAll(s, removed)
             new == ReleasedSnapshots(s, removed, order)
             version(t) == WalkVersion(s, removed, order, t)
  <1>1. r \in Store /\ r.version = s.version + Cardinality(removed)
    BY DeleteAllStep DEF StoreStep
  <1>2. ASSUME NEW t \in removed
        PROVE  version(t) \in Nat /\ s.version < version(t) /\ version(t) <= r.version
    BY <1>1, WalkVersions
  <1>3. \A p \in new : /\ p.taskId \in removed
                        /\ p = SnapshotAt(r, p.taskId, version(p.taskId))
                        /\ p \in ControllerSnapshot
                        /\ p.version = version(p.taskId)
    BY <1>1, <1>2, SnapshotTyping DEF ReleasedSnapshots
  <1>4. s.version \in Nat
    BY DEF Store
  <1> HIDE DEF r, new, version
  <1>5. Fresh(s, r, new)
    <2>1. \A p \in new : s.version < p.version /\ p.version <= r.version
      BY <1>2, <1>3
    <2>2. \A p \in new : p.version \in Nat
      BY <1>2, <1>3
    <2>3. \A p \in new : p.version = r.version => p = Snapshot(r, p.taskId)
      BY <1>3 DEF Snapshot
    <2> QED
      BY <1>3, <1>4, <2>1, <2>2, <2>3 DEF Fresh
  <1> QED
    BY <1>5 DEF r, new

\* The snapshots of getTaskCommandControllers: live leases, at the version the
\* walk had when it passed them.
LEMMA ListedSnapshots ==
    ASSUME NEW s \in Store, NEW order \in KeyOrders, Current(s)
    PROVE  Fresh(s, DeleteAll(s, ExpiredTasks(s)), Controllers(s, order).snapshots)
  <1> DEFINE removed == ExpiredTasks(s)
             r == DeleteAll(s, removed)
             new == Controllers(s, order).snapshots
             version(t) == WalkVersion(s, removed, order, t)
  <1>1. /\ r \in Store /\ r.version = s.version + Cardinality(removed)
        /\ removed \in SUBSET Tasks
        /\ \A t \in Tasks : r.lease[t] = IF t \in removed THEN None ELSE s.lease[t]
    BY PruneStep, DeleteAllStep DEF StoreStep
  <1>2. ASSUME NEW t \in Tasks
        PROVE  version(t) \in Nat /\ s.version <= version(t) /\ version(t) <= r.version
    BY <1>1, WalkVersions
  <1>3. \A p \in new : /\ p.taskId \in Tasks /\ Held(s, p.taskId)
                        /\ p = SnapshotAt(s, p.taskId, version(p.taskId))
                        /\ p \in ControllerSnapshot
                        /\ p.version = version(p.taskId)
    BY <1>1, <1>2, SnapshotTyping DEF Controllers
  <1>4. s.version \in Nat
    BY DEF Store
  <1>5. \A t \in Tasks : Held(s, t) => r.lease[t] = s.lease[t]
    BY <1>1, LeaseTyping DEF Held, ExpiredTasks, Expired, Lease
  <1>6. \A t \in Tasks : Held(s, t) => \A v \in Nat : SnapshotAt(r, t, v) = SnapshotAt(s, t, v)
    BY <1>5 DEF SnapshotAt
  <1> HIDE DEF r, new, version
  <1>7. Fresh(s, r, new)
    <2>1. \A p \in new : /\ p.version \in Nat
                          /\ s.version <= p.version /\ p.version <= r.version
      BY <1>2, <1>3
    <2>2. \A p \in new : p.version = s.version => p = Snapshot(s, p.taskId)
      BY <1>3 DEF Snapshot
    <2>3. \A p \in new : p.version = r.version => p = Snapshot(r, p.taskId)
      BY <1>3, <1>6, <2>1 DEF Snapshot
    <2> QED
      BY <1>3, <2>1, <2>2, <2>3 DEF Fresh
  <1> QED
    BY <1>7 DEF r, new

-----------------------------------------------------------------------------
(* Induction over the natural numbers, stated with sets in place of predicates, so that *)
(* its facts can be cited like any other: a proof names the set of the numbers for which *)
(* its claim holds.  The proofs about those who use the table need it for their loops. *)

\* Every nonempty set of natural numbers has a least element: the intervals
\* from 1 to its elements are ordered by inclusion, which is well founded.
LEMMA LeastNatural ==
    ASSUME NEW T \in SUBSET Nat, T # {}
    PROVE  \E n \in T : \A m \in T : n <= m
<1> DEFINE R == StrictSubsetOrdering(Nat)
           W == {1 .. n : n \in T}
<1>1. IsWellFoundedOn(R, FiniteSubsetsOf(Nat))
  BY FS_StrictSubsetOrderingWellFounded
<1>2. W \subseteq FiniteSubsetsOf(Nat)
  <2>1. \A n \in T : IsFiniteSet(1 .. n) /\ 1 .. n \subseteq Nat
    BY FS_Interval
  <2> QED
    BY <2>1 DEF FiniteSubsetsOf
<1>3. \A m, n \in T : m < n => <<1 .. m, 1 .. n>> \in R
  <2>1. \A m, n \in T : m < n => n \in 1 .. n /\ n \notin 1 .. m /\ 1 .. m \subseteq 1 .. n
    OBVIOUS
  <2>2. \A n \in T : 1 .. n \in SUBSET Nat
    OBVIOUS
  <2> QED
    BY <2>1, <2>2 DEF StrictSubsetOrdering
<1>4. W # {}
  OBVIOUS
<1>5. \A x \in W : \E n \in T : x = 1 .. n
  OBVIOUS
<1>6. \A n \in T : 1 .. n \in W
  OBVIOUS
<1> HIDE DEF R, W
<1>7. \E x \in W : \A y \in W : ~ (<<y, x>> \in R)
  BY <1>1, <1>2, <1>4, WFMin
<1>8. PICK n \in T : \A y \in W : ~ (<<y, 1 .. n>> \in R)
  BY <1>5, <1>7
<1>9. \A m \in T : ~ (m < n)
  BY <1>3, <1>6, <1>8
<1> QED
  BY <1>9

\* A set that holds 0 and the successor of whatever it holds holds every number.
LEMMA NaturalsByStep ==
    ASSUME NEW S, 0 \in S, \A n \in Nat : n \in S => n + 1 \in S
    PROVE  Nat \subseteq S
<1> DEFINE T == Nat \ S
<1> SUFFICES ASSUME T # {} PROVE FALSE
  OBVIOUS
<1>1. PICK n \in T : \A m \in T : n <= m
  BY LeastNatural
<1>2. n # 0 /\ n - 1 \in Nat /\ n - 1 \notin T
  BY <1>1
<1> QED
  BY <1>1, <1>2

\* What F makes of d when it is applied n times, one after the other.
Iterates(F, D, d, n) ==
    {g \in [0 .. n -> D] : g[0] = d /\ \A i \in 1 .. n : g[i] = F[g[i - 1]]}

\* There is such a chain, however long.
LEMMA Iterate ==
    ASSUME NEW D, NEW F \in [D -> D], NEW d \in D, NEW n \in Nat
    PROVE  Iterates(F, D, d, n) # {}
<1> DEFINE S == {m \in Nat : Iterates(F, D, d, m) # {}}
<1>1. 0 \in S
  <2>1. [i \in 0 .. 0 |-> d] \in Iterates(F, D, d, 0)
    BY DEF Iterates
  <2> QED
    BY <2>1
<1>2. ASSUME NEW m \in Nat, m \in S
      PROVE  m + 1 \in S
  <2>1. PICK g : g \in Iterates(F, D, d, m)
    BY <1>2
  <2> DEFINE h == [i \in 0 .. m + 1 |-> IF i = m + 1 THEN F[g[m]] ELSE g[i]]
  <2>2. h \in [0 .. m + 1 -> D] /\ h[0] = d
    BY <2>1 DEF Iterates
  <2>3. \A i \in 1 .. m + 1 : h[i] = F[h[i - 1]]
    BY <2>1 DEF Iterates
  <2> HIDE DEF h
  <2>4. h \in Iterates(F, D, d, m + 1)
    BY <2>2, <2>3 DEF Iterates
  <2> QED
    BY <2>4
<1> HIDE DEF S
<1>3. n \in S
  BY <1>1, <1>2, NaturalsByStep
<1> QED
  BY <1>3 DEF S

\* What F makes of d row by row: its i-th function makes the i-th row of the one before.
Rows(F, D, d, n) ==
    {g \in [0 .. n -> D] : g[0] = d /\ \A i \in 1 .. n : g[i] = F[i][g[i - 1]]}

\* There are such rows, as many as there are functions.
LEMMA IterateAlong ==
    ASSUME NEW D, NEW n \in Nat, NEW F \in [1 .. n -> [D -> D]], NEW d \in D
    PROVE  Rows(F, D, d, n) # {}
<1> DEFINE S == {m \in Nat : m <= n => Rows(F, D, d, m) # {}}
<1>1. 0 \in S
  <2>1. [i \in 0 .. 0 |-> d] \in Rows(F, D, d, 0)
    BY DEF Rows
  <2> QED
    BY <2>1
<1>2. ASSUME NEW m \in Nat, m \in S, m + 1 <= n
      PROVE  Rows(F, D, d, m + 1) # {}
  <2>1. PICK g : g \in Rows(F, D, d, m)
    BY <1>2
  <2>2. g \in [0 .. m -> D] /\ g[0] = d /\ \A i \in 1 .. m : g[i] = F[i][g[i - 1]]
    BY <2>1 DEF Rows
  <2> DEFINE h == [i \in 0 .. m + 1 |-> IF i = m + 1 THEN F[m + 1][g[m]] ELSE g[i]]
  <2>3. m + 1 \in 1 .. n /\ m \in 0 .. m
    BY <1>2
  <2>4. h \in [0 .. m + 1 -> D] /\ h[0] = d
    BY <2>2, <2>3
  <2>5. \A i \in 1 .. m + 1 : h[i] = F[i][h[i - 1]]
    BY <2>2, <2>3
  <2> HIDE DEF h
  <2>6. h \in Rows(F, D, d, m + 1)
    BY <2>4, <2>5 DEF Rows
  <2> QED
    BY <2>6
<1>3. ASSUME NEW m \in Nat, m \in S PROVE m + 1 \in S
  BY <1>2, <1>3
<1> HIDE DEF S
<1>4. n \in S
  BY <1>1, <1>3, NaturalsByStep
<1> QED
  BY <1>4 DEF S

==============================================================================
