--------------------------- MODULE TaskCommandHold ---------------------------
(***************************************************************************)
(* How one renderer retains the command lease of one task                  *)
(* (src/app/task-command-lease-runtime*.ts, task-command-lease-session.ts).*)
(* Its callers share a local lease that counts their holds, knows the      *)
(* generation the backend granted and owns the renewal interval.  Every    *)
(* request is an await.  Requests and answers travel on the one socket of  *)
(* the renderer, in order, with the snapshots the backend broadcasts; they *)
(* are lost with the socket, and then time out.  A lost socket suspends    *)
(* the lease, a new connection re-claims it.                               *)
(*                                                                         *)
(* The renderer's state is one record, ui, because its functions call each *)
(* other: a snapshot that is applied may end sessions, which release.      *)
(* What one answer sets off runs to its end before the next task of the    *)
(* event loop: the continuations in ui.micro go first.                     *)
(***************************************************************************)
EXTENDS TaskCommandLeaseStore, SequencesExt

CONSTANTS
    Task, Self, Owner, Action,  \* the task, and this renderer in the eyes of the backend
    Callers,        \* those who retain the lease
    Sessions,       \* the callers that are sessions; the others run one command
    MaxGeneration,  \* bound on the grants
    MaxLeases,      \* bound on the local leases in use at once
    MaxHolds,       \* bound on the holds counted, some of which nobody gives back
    MaxFaults,      \* bound on what disturbs the renderer
    Faults          \* and what may: of "peer", "removal", "blip"; "renewal" renews

ASSUME HoldAssumption ==
    /\ Tasks = {Task} /\ Self \in Clients /\ Owner \in Owners /\ Action \in Actions
    /\ Sessions \subseteq Callers /\ IsFiniteSet(Callers)
    /\ \A c \in Callers : c \notin {"acquire", "reclaim", "remove", "renew"} \X Nat
    /\ {MaxLeases, MaxHolds} \subseteq Nat \ {0}
    /\ {MaxGeneration, MaxFaults} \subseteq Nat

VARIABLES
    store,   \* backend: the lease table
    up,      \* is the renderer's socket connected?
    frames,  \* answers, snapshots and takeover decisions on their way to the renderer
    ui,      \* the renderer
    calls,   \* its requests: those awaited, and the line of those on their way
    disturbed   \* history: how often the socket was lost, the task removed, or
                \* somebody else acted

vars == <<store, up, frames, ui, calls, disturbed>>

\* A takeover is not asked for, asked for when the lease is taken, or asked for by
\* a caller that no weaker attempt satisfies.
Modes == {"skip", "ask", "insist"}

NewLease == [hold |-> 0, generation |-> 0, removed |-> FALSE, timer |-> FALSE,
             suspended |-> FALSE, acquiring |-> FALSE, takeover |-> FALSE,
             waiters |-> <<>>, leavers |-> <<>>]  \* those who await its pending acquire

\* Who awaits a request: a caller, the pending acquire of a local lease, the
\* re-claim after a blip, a renewal, or the removal of the task.
Acquirer(i) == <<"acquire", i>>
Reclaimer(b) == <<"reclaim", b>>
Remover(i) == <<"remove", i>>
Renewer == <<"renew", 0>>

Resting(c) == [at |-> IF c \in Sessions THEN "open" ELSE "idle", lease |-> 0, mode |-> "skip"]

Closed == [at |-> "idle", lease |-> 0, mode |-> "skip"]

Init ==
    /\ store = EmptyStore
    /\ up = TRUE
    /\ frames = <<>>
    /\ ui = [leases |-> [i \in 1..MaxLeases |-> NewLease],  \* the local leases
             current |-> 0,         \* the entry of localTaskCommandLeases, 0 for none
             orphans |-> FALSE,     \* is there an interval that no lease refers to?
             callers |-> [c \in Callers |-> Closed],
             micro |-> <<>>,        \* continuations that go first
             view |-> None,         \* the controller the renderer believes in
             seen |-> -1,           \* and the version of that belief
             subscribed |-> FALSE,  \* are the two subscriptions in place?
             available |-> TRUE,    \* ~taskCommandLeaseTransportUnavailable
             deadline |-> FALSE,    \* is the timer of suspended leases armed?
             blips |-> 0]           \* taskCommandLeaseTransportGeneration
    /\ calls = [wait |-> [w \in {} |-> None], line |-> <<>>]
    /\ disturbed = 0

-----------------------------------------------------------------------------
\* Local leases and the subscriptions.  A step of the renderer is a pair of its
\* state u and of the requests q in flight.

Set(u, i, lease) == [u EXCEPT !.leases[i] = lease]

Rest(u, c) == [u EXCEPT !.callers[c] = Resting(c)]

ClearTimer(u) ==
    IF u.current = 0 THEN u ELSE [u EXCEPT !.leases[u.current].timer = FALSE]

\* The code keeps only the last interval it started.
StartTimer(u, i) ==
    [u EXCEPT !.leases[i].timer = TRUE, !.orphans = @ \/ u.leases[i].timer]

\* cleanupIdleTaskCommandLeaseSubscriptions: an open session is an invalidator.
CleanupIdle(u) ==
    [u EXCEPT !.subscribed = @ /\ (u.current # 0 \/ \E s \in Sessions : u.callers[s] # Closed)]

Cleanup(u, i) ==
    IF u.current = i /\ u.leases[i].hold = 0 /\ ~u.leases[i].acquiring /\ ~u.leases[i].timer
    THEN CleanupIdle([u EXCEPT !.current = 0])
    ELSE u

KeepsHold(u, i) == u  \* mutant: a hold is never given back

Decrement(u, i) == [u EXCEPT !.leases[i].hold = IF @ > 0 THEN @ - 1 ELSE 0]

\* A local lease nobody refers to any more can be made again.
Unused(u, q, i) ==
    /\ u.current # i
    /\ \A c \in Callers : u.callers[c].lease # i
    /\ \A w \in DOMAIN q.wait : q.wait[w].lease # i
    /\ \A n \in DOMAIN u.micro : u.micro[n].lease # i

Request(u, op, takeover, mode, i) ==
    [op |-> op, takeover |-> takeover, mode |-> mode, lease |-> i,
     generation |-> IF i = 0 THEN 0 ELSE u.leases[i].generation,
     blips |-> u.blips, stage |-> "sent"]

\* Who awaits the request, and what the backend is sent.
Message(who, request) ==
    [who |-> who, op |-> request.op, takeover |-> request.takeover,
     generation |-> IF request.generation = 0 THEN None ELSE request.generation]

Await(q, who, request) ==
    [q EXCEPT !.wait = [w \in DOMAIN q.wait \cup {who} |->
                           IF w = who THEN request ELSE q.wait[w]]]

Send(q, who, request) ==
    [Await(q, who, request) EXCEPT !.line = Append(q.line, Message(who, request))]

Forget(q, who) == [q EXCEPT !.wait = [w \in DOMAIN q.wait \ {who} |-> q.wait[w]]]

Step(u, q) == [ui |-> u, calls |-> q]

Disturb(fault) ==
    /\ fault \in Faults /\ disturbed < MaxFaults
    /\ disturbed' = disturbed + 1

Take(step) == ui' = step.ui /\ calls' = step.calls

-----------------------------------------------------------------------------
\* Releasing.

ReleaseToBackend(u, q, who, i) ==
    LET stopped == IF u.current = i THEN ClearTimer(u) ELSE u
        sent == Send(q, who, Request(u, "release", FALSE, "skip", i))
    IN  IF u.current # i /\ (~u.leases[i].removed \/ u.leases[i].generation = 0)
        THEN Step(IF who \in Callers THEN Rest(u, who) ELSE u, q)
        ELSE Step(IF who \in Callers
                  THEN [stopped EXCEPT !.callers[who].at = "releasing"] ELSE stopped,
                  sent)

ReleaseFailed(u, q, c, i) ==
    LET less == Decrement(u, i)
    IN  IF less.leases[i].hold > 0 THEN Step(Rest(less, c), q)
        ELSE IF u.view = Self THEN ReleaseToBackend(less, q, c, i)
        ELSE Step(Cleanup(Rest(less, c), i), q)

\* What follows when no hold is left; a session that was ended does not tell the backend.
LastRelease(u, q, c, i, notify) ==
    IF notify THEN ReleaseToBackend(u, q, c, i)
    ELSE Step(Cleanup(ClearTimer(Rest(u, c)), i), q)

ReleaseAlways(u, q, c, notify) ==  \* mutant: any release is taken for the last one
    IF u.current # u.callers[c].lease \/ u.leases[u.callers[c].lease].removed THEN Step(Rest(u, c), q)
    ELSE LastRelease(Decrement(u, u.callers[c].lease), q, c, u.callers[c].lease, notify)

ReleaseHold(u, q, c, notify) ==
    LET i == u.callers[c].lease
        less == Decrement(u, i)
        waiter == [who |-> c, kind |-> IF notify THEN "release" ELSE "discard", lease |-> i]
    IN  IF u.current # i \/ u.leases[i].removed THEN Step(Rest(u, c), q)
        ELSE IF less.leases[i].hold > 0 THEN Step(Rest(less, c), q)
        ELSE IF u.leases[i].acquiring
        THEN Step([less EXCEPT !.callers[c].at = "draining",
                               !.leases[i].leavers = Append(@, waiter)], q)
        ELSE LastRelease(less, q, c, i, notify)

\* invalidateTaskCommandLeaseSessions
InvalidateSessions(u, q) ==
    LET retaining == SetToSeq({s \in Sessions : u.callers[s].at = "holding"})
        after[n \in 0..Len(retaining)] ==
            IF n = 0 THEN Step(u, q)
            ELSE ReleaseHold(after[n - 1].ui, after[n - 1].calls, retaining[n], FALSE)
    IN  after[Len(retaining)]

-----------------------------------------------------------------------------
\* What the renderer believes of the controller.

OnlyStopsRenewal(u, q) ==  \* mutant: a lost lease leaves its sessions alone
    IF ~u.subscribed \/ u.view = Self THEN Step(u, q) ELSE Step(ClearTimer(u), q)

HandleControllerChanged(u, q) ==
    IF ~u.subscribed \/ u.view = Self THEN Step(u, q) ELSE InvalidateSessions(ClearTimer(u), q)

\* applyTaskCommandControllerChanged and the listener of this module.
Apply(u, q, snapshot) ==
    LET believed == [u EXCEPT !.view = snapshot.controllerId, !.seen = snapshot.version]
    IN  IF snapshot.version < u.seen THEN Step(u, q)
        ELSE IF snapshot.controllerId = u.view THEN Step(believed, q)
        ELSE HandleControllerChanged(believed, q)

AttemptCurrent(u, blips) == u.available /\ u.blips = blips /\ u.view = Self

-----------------------------------------------------------------------------
\* Retaining.

StartAcquire(u, q, i, mode) ==
    Step([u EXCEPT !.leases[i].acquiring = TRUE, !.leases[i].takeover = mode = "insist"],
         Send(q, Acquirer(i), Request(u, "acquire", FALSE, mode, i)))

Wait(u, c, i, kind) ==
    [u EXCEPT !.callers[c].at = "waiting",
              !.leases[i].waiters = Append(@, [who |-> c, kind |-> kind, lease |-> i])]

\* The last check of every path: a lease that was retired meanwhile is not retained.
Admit(u, c, i) ==
    IF u.current = i /\ ~u.leases[i].removed
    THEN [u EXCEPT !.callers[c].at = "holding"] ELSE Rest(u, c)

\* refreshHeldLease, by a caller that found renewals running or has just acquired.
Refresh(u, q, c, i, kind) ==
    LET owns == u.view = Self
        stopped == IF owns THEN u ELSE ClearTimer(u)
        lease == u.leases[i]
    IN  IF owns /\ lease.generation # 0 /\ ~lease.suspended
        THEN Step(Admit(u, c, i), q)
        ELSE Step([stopped EXCEPT !.callers[c].at = kind],
                  Send(q, c, Request(u, "acquire", FALSE, u.callers[c].mode, i)))

RetainOn(u0, q, c, i, mode) ==
    LET u == [u0 EXCEPT !.subscribed = TRUE, !.current = i, !.leases[i].hold = @ + 1,
                        !.callers[c] = [at |-> "waiting", lease |-> i, mode |-> mode]]
        lease == u.leases[i]
        escalates == lease.acquiring /\ mode = "insist" /\ ~lease.takeover
        step == IF lease.acquiring THEN Step(u, q) ELSE StartAcquire(u, q, i, mode)
    IN  IF lease.timer THEN Refresh(u, q, c, i, "refreshing")
        ELSE Step(Wait(step.ui, c, i, IF escalates THEN "escalate" ELSE "retain"), step.calls)

\* The acquire promise settles: those who await it continue, in order; a release
\* awaits it through a catch, and so a little longer.
Continuations(lease, outcome) ==
    LET ordered == lease.waiters \o lease.leavers
    IN  [n \in DOMAIN ordered |-> [who |-> ordered[n].who, kind |-> ordered[n].kind,
                                   lease |-> ordered[n].lease, outcome |-> outcome]]

SettleKeepsPromise(u, i, outcome) ==  \* mutant: the promise is not dropped when it settles
    [u EXCEPT !.leases[i].waiters = <<>>, !.leases[i].leavers = <<>>,
              !.micro = @ \o Continuations(u.leases[i], outcome)]

Settle(u, i, outcome) ==
    LET settled == [u.leases[i] EXCEPT !.acquiring = FALSE, !.takeover = FALSE,
                                       !.waiters = <<>>, !.leavers = <<>>]
    IN  Cleanup([u EXCEPT !.leases[i] = settled,
                          !.micro = @ \o Continuations(u.leases[i], outcome)], i)

\* ensureTaskCommandLease has an outcome for who awaited it.
Acquired(u, q, i, request, outcome, generation) ==
    LET adopted == IF outcome = "yes" THEN [u EXCEPT !.leases[i].generation = generation] ELSE u
        admitted == outcome = "yes" /\ AttemptCurrent(u, request.blips)
        renewing == IF admitted /\ u.current = i /\ ~u.leases[i].removed
                    THEN StartTimer(adopted, i) ELSE adopted
    IN  Step(Settle(renewing, i, IF outcome = "error" THEN "error"
                                 ELSE IF admitted THEN "yes" ELSE "no"), q)

Refreshed(u, q, c, request, outcome, generation) ==
    LET i == request.lease
        adopted == IF outcome = "yes" THEN [u EXCEPT !.leases[i].generation = generation] ELSE u
    IN  IF outcome = "error" THEN Step(Rest(u, c), q)
        ELSE IF outcome = "yes" /\ AttemptCurrent(u, request.blips)
        THEN Step(Admit(adopted, c, i), q)
        ELSE IF u.callers[c].at = "refreshing" THEN ReleaseFailed(adopted, q, c, i)
        ELSE Step(Rest(adopted, c), q)

Reclaimed(u, q, request, outcome, generation) ==
    LET i == request.lease
        lease == u.leases[i]
        isCurrent == /\ u.current = i /\ ~lease.removed
                     /\ lease.generation = request.generation /\ u.blips = request.blips
        resumed == [u EXCEPT !.leases[i].suspended = FALSE, !.leases[i].generation = generation]
    IN  IF ~isCurrent THEN Step(u, q)
        ELSE IF outcome = "yes"
        THEN Step(IF lease.timer THEN resumed ELSE StartTimer(resumed, i), q)
        ELSE InvalidateSessions(ClearTimer([u EXCEPT !.leases[i].suspended = FALSE]), q)

Ensured(u, q0, who, outcome, generation) ==
    LET request == q0.wait[who]
        q == Forget(q0, who)
    IN  IF who \in Callers THEN Refreshed(u, q, who, request, outcome, generation)
        ELSE IF who[1] = "reclaim" THEN Reclaimed(u, q, request, outcome, generation)
        ELSE Acquired(u, q, request.lease, request, outcome, generation)

-----------------------------------------------------------------------------
\* Continuations: what an answer set off.

Retained(u, q, n) ==  \* a caller that awaited the acquire promise
    LET c == n.who
        i == n.lease
        lease == u.leases[i]
        mode == u.callers[c].mode
        again == StartAcquire(u, q, i, mode)
    IN  IF n.outcome = "error" \/ (n.kind # "retry" /\ (u.current # i \/ lease.removed))
        THEN Step(Rest(u, c), q)
        ELSE IF n.outcome = "yes" THEN Refresh(u, q, c, i, "confirming")
        ELSE IF n.kind = "escalate" /\ ~lease.acquiring /\ ~lease.timer
        THEN Step(Wait(again.ui, c, i, "retry"), again.calls)
        ELSE ReleaseFailed(u, q, c, i)

Drained(u, q, n) ==  \* the last release awaited an acquire
    LET now == u.leases[u.current]
    IN  IF u.current = 0 \/ (u.current # 0 /\ (now.hold > 0 \/ now.acquiring))
        THEN Step(Rest(u, n.who), q)
        ELSE LastRelease(u, q, n.who, n.lease, n.kind = "release")

Removed(u, q, i) == ReleaseToBackend(Set(u, i, [u.leases[i] EXCEPT !.hold = 0]), q, Remover(i), i)

Resume ==
    /\ ui.micro # <<>>
    /\ LET n == Head(ui.micro)
           rest == [ui EXCEPT !.micro = Tail(@)]
           step == CASE n.kind \in {"release", "discard"} -> Drained(rest, calls, n)
                     [] n.kind = "remove" -> Removed(rest, calls, n.lease)
                     [] OTHER -> Retained(rest, calls, n)
       IN  Take(step)
    /\ UNCHANGED <<store, up, frames, disturbed>>

-----------------------------------------------------------------------------
\* The backend, which serves a request whole, and the other clients.

Frame(kind, who, won, generation, snapshot) ==
    [kind |-> kind, who |-> who, won |-> won, generation |-> generation, snapshot |-> snapshot]

\* What is broadcast reaches this renderer while its socket is up.
Announced(changed, snapshot) ==
    IF changed /\ up THEN Append(frames, Frame("snapshot", None, FALSE, 0, snapshot)) ELSE frames

First == Head(calls.line)

Serving(op) == ui.micro = <<>> /\ up /\ calls.line # <<>> /\ First.op = op

\* The broadcast leaves before the answer.
Served(next, changed, won, generation, snapshot) ==
    /\ store' = next
    /\ frames' = Append(Announced(changed, snapshot),
                        Frame("answer", First.who, won, generation, snapshot))
    /\ calls' = [calls EXCEPT !.line = Tail(@)]
    /\ UNCHANGED <<up, ui, disturbed>>

ServeAcquire ==
    LET result == Acquire(store, Task, Self, Owner, Action, First.takeover)
    IN  /\ Serving("acquire") /\ store.generation[Task] < MaxGeneration
        /\ Served(result.store, result.changed, result.acquired, result.leaseGeneration,
                  result.snapshot)

ServeRenew ==
    LET result == Renew(store, Task, Self, Owner, First.generation)
    IN  Serving("renew") /\ Served(result.store, FALSE, result.renewed, 0, result.snapshot)

ServeRelease ==
    LET result == Release(store, Task, Self, Owner, First.generation)
    IN  /\ Serving("release")
        /\ Served(result.store, result.changed, result.changed, 0, result.snapshot)

\* The holder lets a takeover request through: the broker grants the lease at once.
Approve(who) ==
    LET result == Acquire(store, Task, Self, Owner, Action, TRUE)
    IN  /\ ui.micro = <<>> /\ calls.wait[who].stage = "asking" /\ up
        /\ store.generation[Task] < MaxGeneration
        /\ store' = result.store
        /\ frames' = Append(Announced(result.changed, result.snapshot),
                            Frame("approved", who, TRUE, 0, result.snapshot))
        /\ calls' = [calls EXCEPT !.wait[who].stage = "approved"]
        /\ UNCHANGED <<up, ui, disturbed>>

PeerAcquires ==
    \E c \in Clients \ {Self}, o \in Owners, a \in Actions, takeover \in BOOLEAN :
        LET result == Acquire(store, Task, c, o, a, takeover)
        IN  /\ Disturb("peer") /\ ui.micro = <<>> /\ store.generation[Task] < MaxGeneration
            /\ result.changed
            /\ store' = result.store
            /\ frames' = Announced(TRUE, result.snapshot)
            /\ UNCHANGED <<up, ui, calls>>

\* A lease ends without this renderer asking for it: its holder releases it or is
\* gone, or it expires, which a read of the table may do in silence.
LeaseEnds ==
    /\ Disturb("peer") /\ ui.micro = <<>> /\ store.lease[Task] # None
    /\ store' = Delete(store, Task)
    /\ \E announced \in BOOLEAN : frames' = Announced(announced, Snapshot(store', Task))
    /\ UNCHANGED <<up, ui, calls>>

-----------------------------------------------------------------------------
\* The renderer receives frames, or gives up waiting for one.

Failure == [kind |-> "failure"]

Failed(answer) == answer.kind = "failure"

AcquireAnswered(u, q, who, answer) ==
    LET request == q.wait[who]
        applied == Apply(u, q, answer.snapshot)
        asking == [request EXCEPT !.stage = IF up THEN "asking" ELSE "confirming"]
    IN  IF Failed(answer) THEN Ensured(u, q, who, "error", 0)
        ELSE IF answer.won THEN Ensured(applied.ui, applied.calls, who, "yes", answer.generation)
        ELSE IF request.mode = "skip" THEN Ensured(applied.ui, applied.calls, who, "no", 0)
        ELSE Step(applied.ui, Await(applied.calls, who, asking))

ReleaseAnswered(u0, q0, who, answer) ==
    LET i == q0.wait[who].lease
        q == Forget(q0, who)
        u == IF who \in Callers THEN Rest(u0, who) ELSE u0
        applied == IF Failed(answer) THEN Step(u, q) ELSE Apply(u, q, answer.snapshot)
        freed == ~Failed(answer) /\ answer.snapshot.controllerId = None
        lease == applied.ui.leases[i]
        held == [applied.ui EXCEPT !.leases[i].hold = 1]
    IN  IF u.current # i THEN Step(u, q)
        ELSE IF freed \/ lease.removed THEN Step(Cleanup(applied.ui, i), applied.calls)
        ELSE IF lease.hold > 0 THEN applied
        ELSE Step(IF lease.timer THEN held ELSE StartTimer(held, i), applied.calls)

RenewAnswered(u, q0, who, answer) ==
    LET request == q0.wait[who]
        i == request.lease
        q == Forget(q0, who)
        ignored == \/ i = 0 \/ u.current # i \/ u.leases[i].removed
                   \/ u.leases[i].generation # request.generation
                   \/ u.blips # request.blips
        applied == Apply(u, q, answer.snapshot)
    IN  IF Failed(answer) \/ ignored THEN Step(u, q)
        ELSE IF applied.ui.view # Self THEN Step(ClearTimer(applied.ui), applied.calls)
        ELSE applied

Answered(u, q, who, answer) ==
    CASE q.wait[who].op = "acquire" -> AcquireAnswered(u, q, who, answer)
      [] q.wait[who].op = "renew" -> RenewAnswered(u, q, who, answer)
      [] OTHER -> ReleaseAnswered(u, q, who, answer)

TakeOver(q, who) ==
    Send(q, who, [q.wait[who] EXCEPT !.takeover = TRUE, !.stage = "sent"])

ReceiveSnapshot ==
    /\ ui.micro = <<>> /\ frames # <<>> /\ Head(frames).kind = "snapshot"
    /\ frames' = Tail(frames)
    /\ Take(Apply(ui, calls, Head(frames).snapshot))
    /\ UNCHANGED <<store, up, disturbed>>

ReceiveAnswer ==
    LET frame == Head(frames)
    IN  /\ ui.micro = <<>> /\ frames # <<>> /\ frame.kind = "answer"
        /\ frames' = Tail(frames)
        /\ Take(Answered(ui, calls, frame.who, frame))
        /\ UNCHANGED <<store, up, disturbed>>

ReceiveApproval ==
    LET who == Head(frames).who
        awaited == who \in DOMAIN calls.wait /\ calls.wait[who].stage = "approved"
    IN  /\ ui.micro = <<>> /\ frames # <<>> /\ Head(frames).kind = "approved"
        /\ frames' = Tail(frames)
        /\ Take(Step(ui, IF awaited THEN TakeOver(calls, who) ELSE calls))
        /\ UNCHANGED <<store, up, disturbed>>

\* The holder refuses or is gone, or the user answers for it.
Decide(who) ==
    \E proceed \in BOOLEAN :
        /\ ui.micro = <<>> /\ calls.wait[who].stage \in {"asking", "confirming"}
        /\ Take(IF proceed THEN Step(ui, TakeOver(calls, who))
                ELSE Ensured(ui, calls, who, "no", 0))
        /\ UNCHANGED <<store, up, frames, disturbed>>

\* No decision came in 10 s: the user is asked.
AskUser(who) ==
    /\ ui.micro = <<>> /\ calls.wait[who].stage \in {"asking", "approved"}
    /\ calls' = [calls EXCEPT !.wait[who].stage = "confirming"]
    /\ UNCHANGED <<store, up, frames, ui, disturbed>>

\* A request that was lost with the socket times out.
Timeout(who) ==
    /\ ui.micro = <<>> /\ calls.wait[who].stage = "lost"
    /\ Take(Answered(ui, calls, who, Failure))
    /\ UNCHANGED <<store, up, frames, disturbed>>

\* A renewal interval fires; an orphan renews whatever lease is current.
RenewTick ==
    /\ "renewal" \in Faults
    /\ ui.micro = <<>> /\ Renewer \notin DOMAIN calls.wait
    /\ ui.orphans \/ \E i \in 1..MaxLeases : ui.leases[i].timer
    /\ calls' = Send(calls, Renewer, Request(ui, "renew", FALSE, "skip", ui.current))
    /\ UNCHANGED <<store, up, frames, ui, disturbed>>

-----------------------------------------------------------------------------
\* The socket.

\* The pending decisions end, one after the other.
EndDecisions(u, q) ==
    LET asking == SetToSeq({w \in DOMAIN q.wait : q.wait[w].stage \in {"asking", "approved"}})
        after[n \in 0..Len(asking)] ==
            IF n = 0 THEN Step(u, q)
            ELSE Ensured(after[n - 1].ui, after[n - 1].calls, asking[n], "no", 0)
    IN  after[Len(asking)]

\* handleTaskCommandLeaseTransportUnavailable.  What was sent and not answered is lost.
SocketLost ==
    LET lost == CleanupIdle([ui EXCEPT !.available = FALSE, !.blips = @ + 1, !.deadline = TRUE])
        suspends == lost.current # 0 /\ ~lost.leases[lost.current].removed
        suspended == IF suspends
                     THEN ClearTimer([lost EXCEPT !.leases[lost.current].suspended = TRUE])
                     ELSE lost
        unanswered == [w \in DOMAIN calls.wait |->
                          IF calls.wait[w].stage = "sent" THEN [calls.wait[w] EXCEPT !.stage = "lost"]
                          ELSE calls.wait[w]]
        sent == [wait |-> unanswered, line |-> <<>>]
    IN  /\ ui.micro = <<>> /\ up /\ Disturb("blip")
        /\ up' = FALSE
        /\ frames' = <<>>
        /\ Take(IF ui.subscribed THEN EndDecisions(suspended, sent) ELSE Step(ui, sent))
        /\ UNCHANGED store

\* The new connection starts with a snapshot.  Requests that waited for it are sent;
\* whoever is subscribed re-claims, before or after them.
SocketBack ==
    LET i == ui.current
        back == [ui EXCEPT !.available = TRUE, !.deadline = FALSE]
        unmarked == [back EXCEPT !.leases[i].suspended = FALSE]
        request == Request(back, "acquire", FALSE, "skip", i)
        last == Send(calls, Reclaimer(ui.blips), request)
        first == [last EXCEPT !.line = <<Message(Reclaimer(ui.blips), request)>> \o calls.line]
    IN  /\ ui.micro = <<>> /\ ~up
        /\ up' = TRUE
        /\ frames' = <<Frame("snapshot", None, FALSE, 0, Snapshot(store, Task))>>
        /\ \E reclaimed \in {first, last} :
               Take(IF ~ui.subscribed THEN Step(ui, calls)
                    ELSE IF i = 0 \/ (i # 0 /\ ~ui.leases[i].suspended) THEN Step(back, calls)
                    ELSE IF ui.leases[i].removed \/ ui.leases[i].hold = 0 THEN Step(unmarked, calls)
                    ELSE Step(back, reclaimed))
        /\ UNCHANGED <<store, disturbed>>

\* armSuspendedLeaseDeadline: the transport did not come back in time.
Deadline ==
    LET i == ui.current
        marked == [ui EXCEPT !.deadline = FALSE]
        cleared == IF i = 0 THEN marked ELSE ClearTimer([marked EXCEPT !.leases[i].suspended = FALSE])
    IN  /\ ui.micro = <<>> /\ ui.deadline
        /\ Take(IF ui.available THEN Step(marked, calls) ELSE InvalidateSessions(cleared, calls))
        /\ UNCHANGED <<store, up, frames, disturbed>>

-----------------------------------------------------------------------------
\* The callers.

Open(s) ==
    /\ ui.micro = <<>> /\ s \in Sessions /\ ui.callers[s] = Closed
    /\ ui' = [ui EXCEPT !.callers[s] = Resting(s), !.subscribed = TRUE]
    /\ UNCHANGED <<store, up, frames, calls, disturbed>>

Close(s) ==
    /\ ui.micro = <<>> /\ s \in Sessions /\ ui.callers[s] = Resting(s)
    /\ ui' = CleanupIdle([ui EXCEPT !.callers[s] = Closed])
    /\ UNCHANGED <<store, up, frames, calls, disturbed>>

\* Sessions never ask; they are told to take over, or skip.
Retain(c, mode) ==
    LET fresh == {i \in 1..MaxLeases : Unused(ui, calls, i)}
        i == CHOOSE i \in fresh : TRUE
        retired == ClearTimer(ui)
        made == [retired EXCEPT !.leases[i] = NewLease, !.orphans = @ \/ retired.leases[i].timer]
        reuses == ui.current # 0 /\ ~ui.leases[ui.current].removed
    IN  /\ ui.micro = <<>> /\ ui.callers[c] = Resting(c)
        /\ c \in Sessions => mode # "ask"
        /\ IF reuses THEN ui.leases[ui.current].hold < MaxHolds ELSE fresh # {}
        /\ Take(IF reuses THEN RetainOn(ui, calls, c, ui.current, mode)
                ELSE RetainOn(made, calls, c, i, mode))
        /\ UNCHANGED <<store, up, frames, disturbed>>

\* A session that finds its hold stale drops it without telling the backend.
ReleaseIt(c) ==
    LET i == ui.callers[c].lease
        stale == \/ ui.current # i \/ ui.leases[i].removed \/ ~ui.available \/ ui.view # Self
    IN  \E notify \in BOOLEAN :
            /\ ui.micro = <<>> /\ ui.callers[c].at = "holding"
            /\ ~notify => c \in Sessions /\ stale
            /\ Take(ReleaseHold(ui, calls, c, notify))
            /\ UNCHANGED <<store, up, frames, disturbed>>

\* The task is removed from the store, then clearRemovedTaskCommandLeaseState; the
\* renderer may be given a task of the same id later.
RemoveTask ==
    LET i == ui.current
        forgotten == [ui EXCEPT !.view = None, !.seen = -1]
        retired == ClearTimer([forgotten EXCEPT !.leases[i].removed = TRUE])
        ended == InvalidateSessions(IF i = 0 THEN forgotten ELSE retired, calls)
        waiter == [who |-> Remover(i), kind |-> "remove", lease |-> i]
        waits == [ended.ui EXCEPT !.leases[i].leavers = Append(@, waiter)]
    IN  /\ Disturb("removal") /\ ui.micro = <<>> /\ (i # 0 => ~ui.leases[i].removed)
        /\ i # 0 => Remover(i) \notin DOMAIN calls.wait
        /\ Take(IF i = 0 THEN ended
                ELSE IF ended.ui.leases[i].acquiring THEN Step(waits, ended.calls)
                ELSE Removed(ended.ui, ended.calls, i))
        /\ UNCHANGED <<store, up, frames>>

Next ==
    \/ Resume
    \/ ServeAcquire \/ ServeRenew \/ ServeRelease \/ PeerAcquires \/ LeaseEnds
    \/ \E who \in DOMAIN calls.wait : Approve(who) \/ Decide(who) \/ AskUser(who) \/ Timeout(who)
    \/ ReceiveSnapshot \/ ReceiveAnswer \/ ReceiveApproval \/ RenewTick
    \/ SocketLost \/ SocketBack \/ Deadline
    \/ \E c \in Callers :
        \/ Open(c) \/ Close(c) \/ ReleaseIt(c)
        \/ \E mode \in Modes : Retain(c, mode)
    \/ RemoveTask

Spec == Init /\ [][Next]_vars

-----------------------------------------------------------------------------
(***************************************************************************)
(* Properties.                                                             *)
(***************************************************************************)

Ats == {"idle", "open", "waiting", "refreshing", "confirming", "holding", "draining", "releasing"}

\* The renderer's state is well formed: a caller that waits, holds or releases refers
\* to a local lease, a pending acquire promise is one request in flight, and only
\* callers and removals wait for it.
TypeOK ==
    /\ store \in [lease : [Tasks -> Lease \cup {None}], generation : [Tasks -> 0..MaxGeneration],
                   version : Nat]
    /\ up \in BOOLEAN /\ disturbed \in 0..MaxFaults
    /\ ui.current \in 0..MaxLeases /\ ui.blips \in 0..MaxFaults
    /\ \A c \in Callers : /\ ui.callers[c].at \in Ats
                          /\ (ui.callers[c].lease = 0) = (ui.callers[c].at \in {"idle", "open"})
    /\ \A i \in 1..MaxLeases :
        /\ ui.leases[i].hold \in 0..MaxHolds
        /\ ui.leases[i].generation \in 0..MaxGeneration
        /\ ui.leases[i].acquiring = (Acquirer(i) \in DOMAIN calls.wait)
        /\ ui.leases[i].waiters \o ui.leases[i].leavers # <<>> => ui.leases[i].acquiring

Quiet == ui.micro = <<>> /\ frames = <<>> /\ DOMAIN calls.wait = {} /\ calls.line = <<>>

\* Caller c was admitted, its local lease is the task's and has not been retired, and
\* the backend has granted exactly that generation.
WorksUnder(c) ==
    LET i == ui.callers[c].lease
    IN  /\ ui.callers[c].at = "holding"
        /\ ui.current = i /\ ~ui.leases[i].removed /\ ~ui.leases[i].suspended
        /\ store.lease[Task] # None
        /\ store.lease[Task].leaseGeneration = ui.leases[i].generation

GenerationHeld(g) == store.lease[Task] # None /\ store.lease[Task].leaseGeneration = g

\* "Overlapping local holders share one admitted epoch" (task-command-lease-runtime.ts:451):
\* while a caller works under the generation it was admitted with, no request of its own
\* renderer ends that generation when the backend serves it, be it the release of
\* another caller, of a caller that was not admitted, or of a lease that was retired.
\* Only while the socket lasts: see CleanWhenIdle.
HoldersKeepGrant ==
    [][(/\ ui.blips = 0 /\ calls.line # <<>> /\ calls'.line = Tail(calls.line)
        /\ \E c \in Callers : WorksUnder(c))
        => GenerationHeld(store.lease[Task].leaseGeneration)']_vars

\* When every snapshot has arrived, no session retains a lease against a peer in control,
\* whatever was suspended and re-claimed on the way: "denial invalidates that task's
\* sessions" (docs/ARCHITECTURE.md:905).
NoSessionAgainstPeer ==
    (Quiet /\ up /\ store.lease[Task] # None /\ store.lease[Task].clientId # Self) =>
        \A s \in Sessions : ui.callers[s].at = "holding" => ui.leases[ui.callers[s].lease].removed

Idle == \A c \in Callers : ui.callers[c] = Resting(c) \/ ui.callers[c] = Closed

Clean == ui.current = 0 /\ ~ui.orphans /\ \A i \in 1..MaxLeases : ~ui.leases[i].timer

\* Once every caller has returned and everything is answered, no local lease and no
\* interval is left and the backend has the lease back, if nobody interfered.
CleanWhenUndisturbed ==
    (Idle /\ Quiet /\ disturbed = 0) => Clean /\ store.lease[Task] = None

\* assertTaskCommandLeaseRuntimeStateStoreClean expects the same of every end: "Expected
\* no local task-command leases" (task-command-lease-runtime-state.ts:210).
CleanWhenIdle == (Idle /\ Quiet) => Clean

=============================================================================
