-------------------------- MODULE TaskCommandControl --------------------------
(***************************************************************************)
(* The browser control plane around the lease table: takeover requests     *)
(* (server/browser-task-command-takeovers.ts), disconnect grace and the    *)
(* prune timer (server/browser-control-plane.ts), and the lease requests   *)
(* of clients (electron/ipc/task-command-lease-handlers.ts,                *)
(* task-command-lease-control.ts).                                         *)
(*                                                                         *)
(* Every handler runs to completion in one event-loop turn, but it is      *)
(* reentrant: announcing a controller change reconciles the pending        *)
(* takeover requests of the task, which may acquire the lease, which       *)
(* announces again.  The operators below thread one record                 *)
(*    [store, pending, answers, announced, todo]                           *)
(* through such a turn, where todo holds the calls that are still to be    *)
(* made, the innermost first; the variables take its value when none is    *)
(* left.                                                                   *)
(***************************************************************************)
EXTENDS TaskCommandLeaseStore, SequencesExt

CONSTANTS
    RequestIds,     \* takeover request ids, each used at most once
    TimeoutMs,      \* TASK_COMMAND_TAKEOVER_TIMEOUT_MS, in ticks
    GraceMs,        \* TASK_COMMAND_LEASE_RECONNECT_GRACE_MS, in ticks
    MaxGeneration,  \* bound on the grants per task that no takeover request asked for
    MaxCalls        \* bound on the calls made in one turn, nested ones included

Decision == {"approved", "denied", "owner-missing", "force-required"}

ASSUME ControlAssumption ==
    /\ TimeoutMs \in Nat \ {0}
    /\ GraceMs \in Nat \ {0}
    /\ {MaxGeneration, MaxCalls} \subseteq Nat
    /\ None \notin 0..GraceMs
    /\ None \notin Decision

VARIABLES
    store,      \* the lease table
    pending,    \* pendingTaskCommandTakeoverRequests, in insertion order
    answers,    \* history: the decisions sent for each request id
    announced,  \* history: the newest controller snapshot broadcast for each task
    connected,  \* clients with at least one authenticated socket
    grace,      \* recentlyDisconnectedClientIds: what is left of the grace window
    away        \* connected clients whose presence is hidden or idle

vars == <<store, pending, answers, announced, connected, grace, away>>

Request == [requestId : RequestIds, requesterClientId : Clients, requesterOwnerId : Owners,
            action : Actions, targetControllerId : Clients, taskId : Tasks,
            ttl : 0..TimeoutMs]

Turn == [store |-> store, pending |-> pending, answers |-> answers, announced |-> announced,
         todo |-> <<>>]

WithStore(st, s) == [st EXCEPT !.store = s]

\* getCurrentControllerId reads the table through getTaskCommandControllerSnapshot,
\* which deletes an expired lease without telling anyone.
Look(st, t) == WithStore(st, Active(st.store, t))

CurrentControllerId(st, t) == Snapshot(Active(st.store, t), t).controllerId

IsPending(st, r) == \E i \in DOMAIN st.pending : st.pending[i].requestId = r

Clear(st, r) ==
    [st EXCEPT !.pending = RemoveAt(@, CHOOSE i \in DOMAIN @ : @[i].requestId = r)]

Answer(st, r, decision) == [st EXCEPT !.answers[r] = Append(@, decision)]

-----------------------------------------------------------------------------
\* The three ways a pending request gets its decision.  None: it stays pending.

ChangeDecisionKeepsLoser(st, q) ==  \* mutant: a third client's takeover goes unnoticed
    LET controller == CurrentControllerId(st, q.taskId)
    IN  IF controller = None THEN "owner-missing"
        ELSE IF controller = q.requesterClientId THEN "approved"
        ELSE None

ChangeDecision(st, q) ==
    LET controller == CurrentControllerId(st, q.taskId)
    IN  IF controller = None THEN "owner-missing"
        ELSE IF controller = q.requesterClientId THEN "approved"
        ELSE IF controller # q.targetControllerId THEN "denied"
        ELSE None

ResponseDecision(st, q, approved) ==
    IF ChangeDecision(st, q) # None THEN ChangeDecision(st, q)
    ELSE IF approved THEN "approved" ELSE "denied"

\* getPeerPresence always returns a presence, so its null check never fires.
TimeoutDecision(st, q, connectedNow, awayNow) ==
    IF ChangeDecision(st, q) # None THEN ChangeDecision(st, q)
    ELSE IF q.targetControllerId \notin connectedNow THEN "owner-missing"
    ELSE IF q.targetControllerId \in awayNow THEN "approved"
    ELSE "force-required"

\* The decisions that hand the lease over.
GrantsOnApproval(decision) == decision = "approved"  \* mutant: owner-missing grants nothing

Grants(decision) == decision \in {"approved", "owner-missing"}

-----------------------------------------------------------------------------
\* The calls that a turn may still have to make.

Reconcile(q, t) == [name |-> "reconcile", request |-> q, taskId |-> t]
BroadcastIt(snapshot) == [name |-> "broadcast", snapshot |-> snapshot]
AnswerIt(q, decision) == [name |-> "answer", request |-> q, decision |-> decision]
CleanUp(q, c) == [name |-> "clean up", request |-> q, client |-> c]
Announce(snapshots) == [name |-> "announce", snapshots |-> snapshots]
ReleaseLeases(c, order) == [name |-> "release", client |-> c, order |-> order]
ReleaseEach(clients, order, clientOrder) ==
    [name |-> "release each", clients |-> clients, order |-> order, clientOrder |-> clientOrder]
Sweep(order, clientOrder) ==
    [name |-> "sweep", order |-> order, clientOrder |-> clientOrder]

ToDo(st, calls) == [st EXCEPT !.todo = calls \o @]

-----------------------------------------------------------------------------
\* Announcing and resolving call each other.

Broadcast(st, snapshot) ==
    IF snapshot.version >= st.announced[snapshot.taskId].version
    THEN [st EXCEPT !.announced[snapshot.taskId] = snapshot]
    ELSE st

\* reconcileTask walks a copy of the pending requests: a nested call may have
\* resolved some of them by the time their turn comes.
ReconcileTask(st, t) == [i \in DOMAIN st.pending |-> Reconcile(st.pending[i], t)]

\* emitIpcEvent: the takeovers are reconciled before the snapshot is broadcast, so
\* a nested change goes out ahead of the change that caused it.
Emit(st, snapshot) ==
    ToDo(st, ReconcileTask(st, snapshot.taskId) \o <<BroadcastIt(snapshot)>>)

EmitIfChanged(st, result) ==
    IF result.changed THEN Emit(WithStore(st, result.store), result.snapshot)
    ELSE WithStore(st, result.store)

ApplyApprovedTakeover(st, q) ==
    EmitIfChanged(st, Acquire(st.store, q.taskId, q.requesterClientId, q.requesterOwnerId,
                              q.action, TRUE))

Resolve(st, q, decision) ==
    LET cleared == Clear(st, q.requestId)
    IN  IF ~IsPending(st, q.requestId) THEN st
        ELSE IF ~Grants(decision) THEN Answer(cleared, q.requestId, decision)
        ELSE ApplyApprovedTakeover(ToDo(cleared, <<AnswerIt(q, decision)>>), q)

\* resolveAppliedTakeoverDecision, when the takeover has been applied.
AnswerApplied(st, q, decision) ==
    Answer(Look(st, q.taskId), q.requestId,
           IF CurrentControllerId(st, q.taskId) = q.requesterClientId THEN decision ELSE "denied")

ReconcileRequest(st, q, t) ==
    IF q.taskId # t THEN st
    ELSE IF ChangeDecision(st, q) = None THEN Look(st, t)
    ELSE Resolve(Look(st, t), q, ChangeDecision(st, q))

CleanupRequestsForClient(st, c) ==
    ToDo(st, [i \in DOMAIN st.pending |-> CleanUp(st.pending[i], c)])

CleanUpRequest(st, q, c) ==
    IF q.requesterClientId = c THEN Resolve(st, q, "denied")
    ELSE IF q.targetControllerId = c THEN Resolve(st, q, "owner-missing")
    ELSE st

-----------------------------------------------------------------------------
\* The prune timer's part.

\* The snapshots of released leases go out in the order of their versions.
EmitAll(st, snapshots) ==
    LET first == CHOOSE s \in snapshots : \A u \in snapshots : s.version <= u.version
    IN  IF snapshots = {} THEN st
        ELSE Emit(ToDo(st, <<Announce(snapshots \ {first})>>), first)

ReleaseInactiveClientState(st, c, order) ==
    CleanupRequestsForClient(ToDo(st, <<ReleaseLeases(c, order)>>), c)

EmitReleased(st, c, order) ==
    LET released == ReleaseForClient(st.store, c, order)
    IN  EmitAll(WithStore(st, released.store), released.snapshots)

ReleaseFirst(st, clients, order, clientOrder) ==
    LET first == CHOOSE c \in clients : \A d \in clients : clientOrder[c] <= clientOrder[d]
    IN  IF clients = {} THEN st
        ELSE ReleaseInactiveClientState(
                 ToDo(st, <<ReleaseEach(clients \ {first}, order, clientOrder)>>), first, order)

KeepGraceEntry == {}  \* mutant: an elapsed grace entry is never taken out

\* The clients whose grace entry the first loop takes out.
GraceEnded == {c \in Clients : grace[c] # None /\ (c \in connected \/ grace[c] = 0)}

ReleasableEvenInGrace(st, order) ==  \* mutant: the second loop forgets the grace window
    {s.controllerId : s \in Controllers(st.store, order).snapshots} \ connected

\* The holders the second loop releases: gone, and not in their grace window.
Releasable(st, order) ==
    {c \in {s.controllerId : s \in Controllers(st.store, order).snapshots} \ connected :
        grace[c] = None \/ c \in GraceEnded}

SweepHolders(st, order, clientOrder) ==
    ToDo(WithStore(st, Controllers(st.store, order).store),
         <<ReleaseEach(Releasable(st, order), order, clientOrder)>>)

-----------------------------------------------------------------------------
\* A turn makes the calls that are to do, the innermost first.

Made(st, call) ==
    CASE call.name = "reconcile" -> ReconcileRequest(st, call.request, call.taskId)
      [] call.name = "broadcast" -> Broadcast(st, call.snapshot)
      [] call.name = "answer" -> AnswerApplied(st, call.request, call.decision)
      [] call.name = "clean up" -> CleanUpRequest(st, call.request, call.client)
      [] call.name = "announce" -> EmitAll(st, call.snapshots)
      [] call.name = "release" -> EmitReleased(st, call.client, call.order)
      [] call.name = "release each" ->
            ReleaseFirst(st, call.clients, call.order, call.clientOrder)
      [] OTHER -> SweepHolders(st, call.order, call.clientOrder)

NextCall(st) ==
    IF st.todo = <<>> THEN st ELSE Made([st EXCEPT !.todo = Tail(@)], Head(st.todo))

\* The choice from a singleton makes TLC evaluate a call once, not at each use.
Finish(turn) ==
    LET after[n \in 0..MaxCalls] ==
            IF n = 0 THEN turn
            ELSE CHOOSE next \in {NextCall(st) : st \in {after[n - 1]}} : TRUE
    IN  after[MaxCalls]

EndTurn(turn) ==
    \E st \in {Finish(turn)} :
        /\ st.todo = <<>>
        /\ store' = st.store
        /\ pending' = st.pending
        /\ answers' = st.answers
        /\ announced' = st.announced

-----------------------------------------------------------------------------
Init ==
    /\ store = EmptyStore
    /\ pending = <<>>
    /\ answers = [r \in RequestIds |-> <<>>]
    /\ announced = [t \in Tasks |-> Snapshot(EmptyStore, t)]
    /\ connected = {}
    /\ grace = [c \in Clients |-> None]
    /\ away = {}

Transport == <<connected, grace, away>>

\* A lease request names its client itself over HTTP; over a websocket the client
\* is the socket's.  Both handlers do the same, so c need not be connected:
\* coordinator automation never is.
AcquireTaskCommandLease(t, c, o, a, takeover) ==
    /\ store.generation[t] < MaxGeneration
    /\ EndTurn(EmitIfChanged(Turn, Acquire(store, t, c, o, a, takeover)))
    /\ UNCHANGED Transport

\* A request that names a generation other than the lease's changes nothing more
\* than a read does, so the generation is left out here.
RenewTaskCommandLease(t, c, o) ==
    /\ EndTurn(WithStore(Turn, Renew(store, t, c, o, None).store))
    /\ UNCHANGED Transport

ReleaseTaskCommandLease(t, c, o) ==
    /\ EndTurn(EmitIfChanged(Turn, Release(store, t, c, o, None)))
    /\ UNCHANGED Transport

\* Task cleanup announces the cleared lease when there was one.
ClearTaskCommandLeaseForTask(t) ==
    /\ EndTurn(EmitIfChanged(Turn, ClearForTask(store, t)))
    /\ UNCHANGED Transport

\* Any admission check, or a bootstrap that lists the controllers.
ReadTaskCommandLease(t) ==
    /\ EndTurn(Look(Turn, t))
    /\ UNCHANGED Transport

NewRequest(r, c, o, a, target, t) ==
    [requestId |-> r, requesterClientId |-> c, requesterOwnerId |-> o, action |-> a,
     targetControllerId |-> target, taskId |-> t, ttl |-> TimeoutMs]

RefusalFallsThrough(st, q) ==  \* mutant: no return after the owner-missing answer
    LET asked == [st EXCEPT !.pending = Append(@, q)]
    IN  IF CurrentControllerId(st, q.taskId) # q.targetControllerId
        THEN Answer(asked, q.requestId, "owner-missing")
        ELSE asked

Ask(st, q) ==
    IF CurrentControllerId(st, q.taskId) # q.targetControllerId
    THEN Answer(st, q.requestId, "owner-missing")
    ELSE IF q.requesterClientId = q.targetControllerId
    THEN Answer(st, q.requestId, "approved")
    ELSE IF q.targetControllerId \notin connected
    THEN Answer(st, q.requestId, "owner-missing")
    ELSE [st EXCEPT !.pending = Append(@, q)]

\* The requester names the target from its own, possibly stale, projection.
RequestTakeover(r, c, o, a, target, t) ==
    /\ c \in connected
    /\ ~IsPending(Turn, r)
    /\ answers[r] = <<>>
    /\ EndTurn(Ask(Look(Turn, t), NewRequest(r, c, o, a, target, t)))
    /\ UNCHANGED Transport

RespondTakeover(c, q, approved) ==
    /\ c \in connected
    /\ q.targetControllerId = c
    /\ EndTurn(Resolve(Look(Turn, q.taskId), q, ResponseDecision(Turn, q, approved)))
    /\ UNCHANGED Transport

WaitForForce(st, q, decision) ==  \* mutant: force-required is not an answer
    IF decision = "force-required" THEN st ELSE Resolve(st, q, decision)

OnTimeout(st, q, decision) == Resolve(st, q, decision)

TakeoverTimeout(q) ==
    /\ q.ttl = 0
    /\ EndTurn(OnTimeout(Look(Turn, q.taskId), q, TimeoutDecision(Turn, q, connected, away)))
    /\ UNCHANGED Transport

Connect(c) ==
    /\ c \notin connected
    /\ connected' = connected \cup {c}
    /\ grace' = [grace EXCEPT ![c] = None]
    /\ UNCHANGED <<store, pending, answers, announced, away>>

KeepPeerPresence(c) == away  \* mutant: the presence of a departed client is kept

RemovePeerPresence(c) == away \ {c}

\* The last socket of c goes away.
Disconnect(c) ==
    /\ c \in connected
    /\ connected' = connected \ {c}
    /\ grace' = [grace EXCEPT ![c] = GraceMs]
    /\ away' = RemovePeerPresence(c)
    /\ EndTurn(CleanupRequestsForClient(Turn, c))

\* updatePeerPresence, or the passing of the idle time.
SetAway(c) ==
    /\ c \in connected
    /\ away' = IF c \in away THEN away \ {c} ELSE away \cup {c}
    /\ UNCHANGED <<store, pending, answers, announced, connected, grace>>

-----------------------------------------------------------------------------
\* The prune timer.

ClientOrders == {order \in [Clients -> 1..Cardinality(Clients)] :
                    \A c, d \in Clients : order[c] = order[d] => c = d}

PruneTimer(order, clientOrder) ==
    LET expired == Prune(store, order)
    IN  /\ EndTurn(ToDo(WithStore(Turn, expired.store),
                        <<Announce(expired.snapshots),
                          ReleaseEach(GraceEnded \ connected, order, clientOrder),
                          Sweep(order, clientOrder)>>))
        /\ grace' = [c \in Clients |-> IF c \in GraceEnded THEN None ELSE grace[c]]
        /\ UNCHANGED <<connected, away>>

Countdown(n) == IF n \in Nat /\ n > 0 THEN n - 1 ELSE n

Tick ==
    /\ store' = Elapse(store)
    /\ pending' = [i \in DOMAIN pending |-> [pending[i] EXCEPT !.ttl = Countdown(@)]]
    /\ grace' = [c \in Clients |-> IF grace[c] = None THEN None ELSE Countdown(grace[c])]
    /\ UNCHANGED <<answers, announced, connected, away>>

PendingRequests == {pending[i] : i \in DOMAIN pending}

Prunes == \E order \in KeyOrders, clientOrder \in ClientOrders : PruneTimer(order, clientOrder)

TimesOut(r) == \E q \in PendingRequests : q.requestId = r /\ TakeoverTimeout(q)

Next ==
    \/ \E t \in Tasks, c \in Clients, o \in Owners, a \in Actions, takeover \in BOOLEAN :
            AcquireTaskCommandLease(t, c, o, a, takeover)
    \/ \E t \in Tasks, c \in Clients, o \in Owners : RenewTaskCommandLease(t, c, o)
    \/ \E t \in Tasks, c \in Clients, o \in Owners : ReleaseTaskCommandLease(t, c, o)
    \/ \E t \in Tasks : ClearTaskCommandLeaseForTask(t)
    \/ \E t \in Tasks : ReadTaskCommandLease(t)
    \/ \E r \in RequestIds, c, target \in Clients, o \in Owners, a \in Actions, t \in Tasks :
            RequestTakeover(r, c, o, a, target, t)
    \/ \E c \in Clients, q \in PendingRequests, approved \in BOOLEAN :
            RespondTakeover(c, q, approved)
    \/ \E r \in RequestIds : TimesOut(r)
    \/ \E c \in Clients : Connect(c) \/ Disconnect(c) \/ SetAway(c)
    \/ Prunes
    \/ Tick

Spec == Init /\ [][Next]_vars

\* Timers fire: the clock, the interval timer and each request's own timer.
Fairness ==
    /\ WF_vars(Tick)
    /\ WF_vars(Prunes)
    /\ \A r \in RequestIds : WF_vars(TimesOut(r))

FairSpec == Spec /\ Fairness

-----------------------------------------------------------------------------

\* Every variable has its type: no lease outlives leaseMs, and only connected clients
\* have a presence, hidden or idle.
TypeOK ==
    /\ store \in Store
    /\ pending \in Seq(Request)
    /\ answers \in [RequestIds -> Seq(Decision)]
    /\ announced \in [Tasks -> ControllerSnapshot]
    /\ connected \subseteq Clients
    /\ grace \in [Clients -> {None} \cup 0..GraceMs]
    /\ away \subseteq connected

\* A takeover request is decided at most once, whatever nested reconciliation,
\* timeout, response and disconnect race for it, and not while it is still pending.
AnsweredOnce ==
    \A r \in RequestIds :
        /\ Len(answers[r]) <= 1
        /\ IsPending(Turn, r) => answers[r] = <<>>

\* Two requests never compete for a lease under different targets: whenever the
\* task is controlled, it is by the client that every pending request asked.  So a
\* target's approval never gives away somebody else's lease.
PendingAsksController ==
    \A q \in PendingRequests :
        Held(store, q.taskId) => store.lease[q.taskId].clientId = q.targetControllerId

\* A pending request answered approved or owner-missing leaves its requester in
\* control when the turn ends, however many takeovers were resolved in that turn.
GrantedMeansControl ==
    [][\A q \in PendingRequests :
          answers'[q.requestId] \in {<<"approved">>, <<"owner-missing">>}
              => /\ Held(store', q.taskId)
                 /\ store'.lease[q.taskId].clientId = q.requesterClientId]_vars

\* What the newest broadcast of a task says is the truth while the lease lives:
\* nested changes leave out of order, but never under swapped versions.
AnnouncedController ==
    \A t \in Tasks :
        Held(store, t) =>
            /\ announced[t].controllerId = store.lease[t].clientId
            /\ announced[t].action = store.lease[t].action

InGrace(c) == c \in connected \/ grace[c] \notin {None, 0}

KeptOrHandedOver(t) ==
    /\ Held(store', t)
    /\ store'.lease[t].clientId \in
          {store.lease[t].clientId} \cup
          {q.requesterClientId : q \in {p \in PendingRequests : p.taskId = t}}

\* The prune timer and the comings and goings of sockets never take a live lease
\* from a client that is connected or in its grace window, unless they resolve a
\* takeover request that was pending for it.
BlipKeepsLease ==
    [][\A t \in Tasks :
          (Held(store, t) /\ InGrace(store.lease[t].clientId) /\ ~KeptOrHandedOver(t)) =>
              ~(Prunes \/ \E d \in Clients : Connect(d) \/ Disconnect(d))]_vars

\* Every takeover request is answered in the end, even if its target never responds.
EveryRequestAnswered ==
    \A r \in RequestIds : IsPending(Turn, r) ~> answers[r] # <<>>

\* A client that has left for good loses its leases again and again, even if it
\* keeps renewing them over HTTP: no task stays blocked by a departed client.
DepartedLosesLease ==
    \A c \in Clients, t \in Tasks :
        <>[](c \notin connected) =>
            []<>(~Held(store, t) \/ store.lease[t].clientId # c)
=============================================================================
