----------------------- MODULE TaskCommandLeases_proofs -----------------------
(***************************************************************************)
(* Proofs about the lease table, for any tasks, clients, owners, actions,  *)
(* lease length and bound.                                                 *)
(***************************************************************************)
EXTENDS TaskCommandLeases, TaskCommandLeaseStore_proofs

-----------------------------------------------------------------------------
(* The inductive invariant. *)

\* Grants are never ahead of the counter that numbers them.
IssuedBounded ==
    \A i \in issued : i.leaseGeneration <= store.generation[i.taskId]

IInv ==
    /\ store \in Store
    /\ issued \subseteq Identity
    /\ Current(store)
    /\ Consistent(store, published)
    /\ IssuedBounded
    /\ GenerationIdentifiesGrant

\* A step that grants task t to client c and owner o.
Grants(t, c, o) ==
    /\ issued' = issued \cup {[taskId |-> t, clientId |-> c, ownerId |-> o,
                               leaseGeneration |-> store.generation[t] + 1]}
    /\ store'.generation = [store.generation EXCEPT ![t] = @ + 1]
    /\ \E a \in Actions :
          store'.lease = [store.lease EXCEPT ![t] =
                            [action |-> a, clientId |-> c, ttl |-> LeaseMs,
                             leaseGeneration |-> store.generation[t] + 1, ownerId |-> o]]

GrantsNothing == issued' = issued /\ store'.generation = store.generation

\* The invariant holds of the empty table.
LEMMA InitIInv == Init => IInv
  <1> SUFFICES ASSUME Init PROVE IInv
    OBVIOUS
  <1>1. store \in Store /\ Current(store)
    BY DEF Init, EmptyStore, Store, Current
  <1> QED
    BY <1>1 DEF Init, IInv, Consistent, IssuedBounded, GenerationIdentifiesGrant

\* Every operation is a table step that publishes consistent snapshots, and either
\* grants nothing or returns one new identity to its caller.
LEMMA ActionStep ==
    ASSUME IInv, Next
    PROVE  /\ StoreStep(store, store')
           /\ Consistent(store', published')
           /\ GrantsNothing \/ \E t \in Tasks, c \in Clients, o \in Owners : Grants(t, c, o)
  <1>0. store \in Store /\ Current(store) /\ Consistent(store, published)
    BY DEF IInv
  <1>1. ASSUME NEW t \in Tasks, NEW c \in Clients, NEW o \in Owners, NEW a \in Actions,
               NEW takeover \in BOOLEAN, AcquireTaskCommandLease(t, c, o, a, takeover)
        PROVE  /\ StoreStep(store, store')
               /\ Consistent(store', published')
               /\ GrantsNothing \/ Grants(t, c, o)
    <2> DEFINE result == Acquire(store, t, c, o, a, takeover)
    <2>1. /\ store' = result.store
          /\ published' = published \cup {result.snapshot}
          /\ issued' = IF result.acquired
                       THEN issued \cup {[taskId |-> t, clientId |-> c, ownerId |-> o,
                                          leaseGeneration |-> result.leaseGeneration]}
                       ELSE issued
      BY <1>1 DEF AcquireTaskCommandLease
    <2>2. /\ StoreStep(store, result.store)
          /\ result.snapshot = Snapshot(result.store, t)
          /\ result.acquired = ~Refused(Active(store, t).lease[t], c, takeover)
      BY <1>0, AcquireStep
    <2>3. Consistent(result.store, published \cup {result.snapshot})
      BY <1>0, <2>2, OneSnapshot, PublishStep
    <2>4. CASE Refused(Active(store, t).lease[t], c, takeover)
      <3>1. result.store.generation = store.generation
        BY <1>0, <2>4, AcquireRefused
      <3>2. GrantsNothing
        BY <2>1, <2>2, <2>4, <3>1 DEF GrantsNothing
      <3> QED
        BY <2>1, <2>2, <2>3, <3>2
    <2>5. CASE ~Refused(Active(store, t).lease[t], c, takeover)
      <3>1. /\ result.leaseGeneration = store.generation[t] + 1
            /\ result.store.generation = [store.generation EXCEPT ![t] = @ + 1]
            /\ result.store.lease = [store.lease EXCEPT ![t] =
                  [action |-> a, clientId |-> c, ttl |-> LeaseMs,
                   leaseGeneration |-> store.generation[t] + 1, ownerId |-> o]]
        BY <1>0, <2>5, AcquireGrants
      <3>2. Grants(t, c, o)
        BY <2>1, <2>2, <2>5, <3>1 DEF Grants
      <3> QED
        BY <2>1, <2>2, <2>3, <3>2
    <2> QED
      BY <2>4, <2>5
  <1>2. ASSUME NEW t \in Tasks, NEW c \in Clients, NEW o \in Owners, NEW g \in Generations,
               RenewTaskCommandLease(t, c, o, g)
        PROVE  StoreStep(store, store') /\ Consistent(store', published') /\ GrantsNothing
    <2> DEFINE result == Renew(store, t, c, o, g)
    <2>1. /\ store' = result.store
          /\ published' = published \cup {result.snapshot}
          /\ issued' = issued
      BY <1>2 DEF RenewTaskCommandLease
    <2>2. /\ StoreStep(store, result.store)
          /\ result.snapshot = Snapshot(result.store, t)
          /\ result.store.generation = store.generation
      BY <1>0, RenewStep
    <2>3. Consistent(result.store, published \cup {result.snapshot})
      BY <1>0, <2>2, OneSnapshot, PublishStep
    <2> QED
      BY <2>1, <2>2, <2>3 DEF GrantsNothing
  <1>3. ASSUME NEW t \in Tasks, NEW c \in Clients, NEW o \in Owners, NEW g \in Generations,
               ReleaseTaskCommandLease(t, c, o, g)
        PROVE  StoreStep(store, store') /\ Consistent(store', published') /\ GrantsNothing
    <2> DEFINE result == Release(store, t, c, o, g)
    <2>1. /\ store' = result.store
          /\ published' = published \cup {result.snapshot}
          /\ issued' = issued
      BY <1>3 DEF ReleaseTaskCommandLease
    <2>2. /\ StoreStep(store, result.store)
          /\ result.snapshot = Snapshot(result.store, t)
          /\ result.store.generation = store.generation
      BY <1>0, ReleaseStep
    <2>3. Consistent(result.store, published \cup {result.snapshot})
      BY <1>0, <2>2, OneSnapshot, PublishStep
    <2> QED
      BY <2>1, <2>2, <2>3 DEF GrantsNothing
  <1>4. ASSUME NEW t \in Tasks, ClearTaskCommandLeaseForTask(t)
        PROVE  StoreStep(store, store') /\ Consistent(store', published') /\ GrantsNothing
    <2> DEFINE result == ClearForTask(store, t)
    <2>1. /\ store' = result.store
          /\ published' = published \cup {result.snapshot}
          /\ issued' = issued
      BY <1>4 DEF ClearTaskCommandLeaseForTask
    <2>2. /\ StoreStep(store, result.store)
          /\ result.snapshot = Snapshot(result.store, t)
          /\ result.store.generation = store.generation
      BY <1>0, ClearStep
    <2>3. Consistent(result.store, published \cup {result.snapshot})
      BY <1>0, <2>2, OneSnapshot, PublishStep
    <2> QED
      BY <2>1, <2>2, <2>3 DEF GrantsNothing
  <1>5. ASSUME NEW t \in Tasks, ReadTaskCommandLease(t)
        PROVE  StoreStep(store, store') /\ Consistent(store', published') /\ GrantsNothing
    BY <1>0, <1>5, ActiveStep, OneSnapshot, PublishStep DEF ReadTaskCommandLease, GrantsNothing
  <1>6. ASSUME NEW order \in KeyOrders, PruneExpiredTaskCommandLeases(order)
        PROVE  StoreStep(store, store') /\ Consistent(store', published') /\ GrantsNothing
    <2>1. /\ store' = DeleteAll(store, ExpiredTasks(store))
          /\ published' = published \cup ReleasedSnapshots(store, ExpiredTasks(store), order)
          /\ issued' = issued
      BY <1>6 DEF PruneExpiredTaskCommandLeases, Prune
    <2> QED
      BY <1>0, <2>1, PruneStep, SweptSnapshots, PublishStep DEF GrantsNothing
  <1>7. ASSUME NEW order \in KeyOrders, GetTaskCommandControllers(order)
        PROVE  StoreStep(store, store') /\ Consistent(store', published') /\ GrantsNothing
    <2>1. /\ store' = DeleteAll(store, ExpiredTasks(store))
          /\ published' = published \cup Controllers(store, order).snapshots
          /\ issued' = issued
      BY <1>7 DEF GetTaskCommandControllers, Controllers
    <2> QED
      BY <1>0, <2>1, PruneStep, ListedSnapshots, PublishStep DEF GrantsNothing
  <1>8. ASSUME NEW c \in Clients, NEW order \in KeyOrders,
               ReleaseTaskCommandLeasesForClient(c, order)
        PROVE  StoreStep(store, store') /\ Consistent(store', published') /\ GrantsNothing
    <2> DEFINE removed == ExpiredTasks(store) \cup
                 {t \in Tasks : store.lease[t] # None /\ store.lease[t].clientId = c}
    <2>1. /\ store' = DeleteAll(store, removed)
          /\ published' = published \cup ReleasedSnapshots(store, removed, order)
          /\ issued' = issued
      BY <1>8 DEF ReleaseTaskCommandLeasesForClient, ReleaseForClient
    <2>2. /\ StoreStep(store, DeleteAll(store, removed))
          /\ DeleteAll(store, removed).generation = store.generation
          /\ removed \in SUBSET Tasks
          /\ \A t \in removed : store.lease[t] # None
      BY <1>0, DepartureStep
    <2> HIDE DEF removed
    <2> QED
      BY <1>0, <2>1, <2>2, SweptSnapshots, PublishStep DEF GrantsNothing
  <1>9. CASE Tick
    <2>1. /\ StoreStep(store, Elapse(store))
          /\ Elapse(store).generation = store.generation
      BY <1>0, ElapseStep
    <2>2. Fresh(store, Elapse(store), {})
      BY <1>0 DEF Fresh, Store, StoreStep
    <2>3. Consistent(Elapse(store), published \cup {})
      BY <1>0, <2>1, <2>2, PublishStep
    <2>4. published \cup {} = published
      OBVIOUS
    <2> QED
      BY <1>9, <2>1, <2>3, <2>4 DEF Tick, GrantsNothing
  <1> QED
    BY <1>1, <1>2, <1>3, <1>4, <1>5, <1>6, <1>7, <1>8, <1>9 DEF Next

\* Every step keeps the invariant.
LEMMA IInvStep == IInv /\ [Next]_vars => IInv'
  <1> SUFFICES ASSUME IInv, [Next]_vars PROVE IInv'
    OBVIOUS
  <1>1. CASE UNCHANGED vars
    BY <1>1 DEF vars, IInv, Current, Consistent, IssuedBounded, GenerationIdentifiesGrant,
                SnapshotAt, Snapshot
  <1>2. CASE Next
    <2>1. /\ store' \in Store /\ Current(store') /\ Consistent(store', published')
          /\ \A t \in Tasks : store.generation[t] <= store'.generation[t]
      BY <1>2, ActionStep DEF StoreStep
    <2>2. store \in Store /\ issued \subseteq Identity
      BY DEF IInv
    <2>3. \A i \in issued : /\ i.taskId \in Tasks /\ i.leaseGeneration \in Nat
                            /\ i.leaseGeneration <= store.generation[i.taskId]
      BY <2>2 DEF IInv, IssuedBounded, Identity
    <2>4. CASE GrantsNothing
      BY <2>1, <2>2, <2>4 DEF GrantsNothing, IInv, Current, IssuedBounded, GenerationIdentifiesGrant
    <2>5. ASSUME NEW t \in Tasks, NEW c \in Clients, NEW o \in Owners, Grants(t, c, o)
          PROVE  IInv'
      <3> DEFINE grant == [taskId |-> t, clientId |-> c, ownerId |-> o,
                           leaseGeneration |-> store.generation[t] + 1]
      <3>1. /\ issued' = issued \cup {grant}
            /\ \A u \in Tasks : store'.generation[u] =
                  IF u = t THEN store.generation[t] + 1 ELSE store.generation[u]
            /\ \A u \in Tasks : store.generation[u] \in Nat
        BY <2>2, <2>5 DEF Grants, Store
      <3>2. grant \in Identity
        BY <3>1 DEF Identity
      <3>3. \A i \in issued : i.taskId = t => i.leaseGeneration # store.generation[t] + 1
        BY <2>3, <3>1
      <3>4. GenerationIdentifiesGrant'
        BY <3>1, <3>3 DEF IInv, GenerationIdentifiesGrant
      <3>5. IssuedBounded'
        BY <2>3, <3>1 DEF IssuedBounded
      <3> QED
        BY <2>1, <2>2, <3>1, <3>2, <3>4, <3>5 DEF IInv, Current
    <2> QED
      BY <1>2, <2>4, <2>5, ActionStep
  <1> QED
    BY <1>1, <1>2

\* The inductive invariant holds in every reachable state.
THEOREM Invariance == Spec => []IInv
  BY InitIInv, IInvStep, PTL DEF Spec

\* The table, the identities and the snapshots always have their types.
THEOREM TypeCorrect == Spec => []TypeOK
  <1>1. IInv => TypeOK
    BY DEF IInv, TypeOK, Consistent
  <1> QED
    BY <1>1, Invariance, PTL

\* Snapshots of one task with one version always agree: a client may apply them in
\* any order it likes.
THEOREM SnapshotAgreement == Spec => []SnapshotsAgree
  <1>1. IInv => SnapshotsAgree
    BY DEF IInv, SnapshotsAgree, Consistent
  <1> QED
    BY <1>1, Invariance, PTL

\* A generation number names one grant of a task, for ever.
THEOREM GenerationUniqueness == Spec => []GenerationIdentifiesGrant
  <1>1. IInv => GenerationIdentifiesGrant
    BY DEF IInv
  <1> QED
    BY <1>1, Invariance, PTL

-----------------------------------------------------------------------------
(* The fence. *)

\* The fence check sees exactly the leases with time left.
LEMMA AcceptedIsHeld ==
    ASSUME NEW s \in Store, Current(s), NEW i \in Identity
    PROVE  Accepted(s, i) <=>
             /\ Held(s, i.taskId)
             /\ s.lease[i.taskId].clientId = i.clientId
             /\ s.lease[i.taskId].ownerId = i.ownerId
             /\ s.lease[i.taskId].leaseGeneration = i.leaseGeneration
  <1> DEFINE t == i.taskId
  <1>1. t \in Tasks
    BY DEF Identity
  <1>2. CASE Held(s, t)
    <2>1. Active(s, t) = s
      BY <1>2 DEF Active, Expired, Held
    <2> QED
      BY <1>2, <2>1 DEF Accepted, IsTaskCommandLeaseGenerationHeld, Held
  <1>3. CASE ~Held(s, t)
    <2>1. Active(s, t).lease[t] = None
      BY <1>1, <1>3, ActiveStep
    <2> QED
      BY <1>3, <2>1 DEF Accepted, IsTaskCommandLeaseGenerationHeld
  <1> QED
    BY <1>2, <1>3

\* A grant that was turned away once is turned away for ever.
THEOREM RejectionIsFinal == Spec => RejectedForEver
  <1> DEFINE Final == \A i \in issued : ~Accepted(store, i) => ~Accepted(store', i)
  <1>1. ASSUME IInv, Next PROVE Final
    <2>1. SUFFICES ASSUME NEW i \in issued, Accepted(store', i)
                   PROVE  Accepted(store, i)
      OBVIOUS
    <2>2. /\ store \in Store /\ Current(store)
          /\ i \in Identity /\ i.taskId \in Tasks /\ i.leaseGeneration \in Nat
          /\ i.leaseGeneration <= store.generation[i.taskId]
      BY <1>1 DEF IInv, IssuedBounded, Identity
    <2>3. StoreStep(store, store')
      BY <1>1, ActionStep
    <2>4. /\ store' \in Store /\ Current(store')
          /\ store.generation[i.taskId] <= store'.generation[i.taskId]
      BY <2>2, <2>3 DEF StoreStep
    <2>5. /\ Held(store', i.taskId)
          /\ store'.lease[i.taskId].clientId = i.clientId
          /\ store'.lease[i.taskId].ownerId = i.ownerId
          /\ store'.lease[i.taskId].leaseGeneration = i.leaseGeneration
      BY <2>1, <2>2, <2>4, AcceptedIsHeld
    <2>6. i.leaseGeneration = store'.generation[i.taskId]
      BY <2>2, <2>4, <2>5 DEF Current, Held
    <2>7. /\ store.generation[i.taskId] \in Nat
          /\ store'.generation[i.taskId] = store.generation[i.taskId]
      BY <2>2, <2>4, <2>6, LeaseTyping
    <2>8. /\ Held(store, i.taskId)
          /\ store.lease[i.taskId].clientId = i.clientId
          /\ store.lease[i.taskId].ownerId = i.ownerId
      BY <2>2, <2>3, <2>5, <2>7 DEF StoreStep
    <2>9. store.lease[i.taskId].leaseGeneration = i.leaseGeneration
      BY <2>2, <2>6, <2>7, <2>8 DEF Current, Held
    <2> QED
      BY <2>2, <2>8, <2>9, AcceptedIsHeld
  <1>2. IInv /\ [Next]_vars => [Final]_vars
    BY <1>1
  <1> QED
    BY <1>2, Invariance, PTL DEF Spec, RejectedForEver

\* The table implements the fence.
THEOREM FenceRefinement == Spec => ImplementsFence
  <1>1. Init => Fence!Init
    BY DEF Init, EmptyStore, Fence!Init, FenceGrant, Held
  <1>2. ASSUME IInv, Next PROVE Fence!Next
    <2>1. /\ store \in Store /\ Current(store)
          /\ StoreStep(store, store')
          /\ store' \in Store /\ Current(store')
      BY <1>2, ActionStep DEF IInv, StoreStep
    <2>2. CASE GrantsNothing
      <3> DEFINE ended == {t \in Tasks : ~Held(store', t)}
      <3>1. store'.generation = store.generation
        BY <2>2 DEF GrantsNothing
      <3>2. ASSUME NEW t \in Tasks, Held(store', t)
            PROVE  /\ Held(store, t)
                   /\ store'.lease[t].clientId = store.lease[t].clientId
                   /\ store'.lease[t].ownerId = store.lease[t].ownerId
                   /\ store'.lease[t].leaseGeneration = store.lease[t].leaseGeneration
        BY <2>1, <3>1, <3>2 DEF StoreStep, Current, Held
      <3>3. FenceGrant' = [t \in Tasks |-> IF t \in ended THEN None ELSE FenceGrant[t]]
        BY <3>2 DEF FenceGrant
      <3>4. Fence!End(ended)
        BY <3>1, <3>3 DEF Fence!End
      <3> QED
        BY <3>4 DEF Fence!Next
    <2>3. ASSUME NEW t \in Tasks, NEW c \in Clients, NEW o \in Owners, Grants(t, c, o)
          PROVE  Fence!Next
      <3>1. PICK a \in Actions :
              store'.lease = [store.lease EXCEPT ![t] =
                                [action |-> a, clientId |-> c, ttl |-> LeaseMs,
                                 leaseGeneration |-> store.generation[t] + 1, ownerId |-> o]]
        BY <2>3 DEF Grants
      <3> DEFINE lease == [action |-> a, clientId |-> c, ttl |-> LeaseMs,
                           leaseGeneration |-> store.generation[t] + 1, ownerId |-> o]
      <3>2. lease \in Lease /\ lease # None /\ lease.ttl > 0
        BY <2>1, LeaseTyping, LeaseAssumption DEF Lease
      <3>3. \A u \in Tasks : store'.lease[u] = IF u = t THEN lease ELSE store.lease[u]
        BY <2>1, <3>1 DEF Store
      <3>4. Held(store', t) /\ \A u \in Tasks \ {t} : Held(store', u) <=> Held(store, u)
        BY <3>2, <3>3 DEF Held
      <3>5. FenceGrant' = [FenceGrant EXCEPT ![t] = Fence!Grant(t, c, o)]
        <4>1. \A u \in Tasks \ {t} : FenceGrant'[u] = FenceGrant[u]
          BY <3>3, <3>4 DEF FenceGrant
        <4>2. FenceGrant'[t] = Fence!Grant(t, c, o)
          BY <3>3, <3>4 DEF FenceGrant, Fence!Grant
        <4>3. FenceGrant = [u \in Tasks |-> FenceGrant[u]]
              /\ FenceGrant' = [u \in Tasks |-> FenceGrant'[u]]
          BY DEF FenceGrant
        <4> HIDE DEF lease
        <4> QED
          BY <4>1, <4>2, <4>3
      <3>6. store'.generation = [store.generation EXCEPT ![t] = @ + 1]
        BY <2>3 DEF Grants
      <3>7. Fence!Issue(t, c, o)
        BY <3>5, <3>6 DEF Fence!Issue
      <3> QED
        BY <3>7 DEF Fence!Next
    <2> QED
      BY <1>2, <2>2, <2>3, ActionStep
  <1>3. UNCHANGED vars => UNCHANGED Fence!vars
    BY DEF vars, Fence!vars, FenceGrant, Held
  <1>4. IInv /\ [Next]_vars => [Fence!Next]_(Fence!vars)
    BY <1>2, <1>3
  <1> QED
    BY <1>1, <1>4, Invariance, PTL DEF Spec, ImplementsFence, Fence!Spec
=============================================================================
