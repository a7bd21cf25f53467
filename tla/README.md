# Parallel Code: a TLA+ verification development

Parallel Code runs coding agents in git worktrees, with an Electron or node backend and any number
of renderers: the desktop window, browser tabs, phones. Several of them can look at one task, so the
backend leases the right to command a task, keeps every renderer informed of who holds it, and
schedules its own git work by what the renderers look at. Work that must not be done twice, such as
writing a prompt into a terminal, is journalled and fenced by those leases. These modules model such
parts and check them with TLC; the safety of the lease table, the takeovers, the control stream with what a
renderer shows of it, the prompt delivery, the work queue and the task removal, and most of that of a
renderer's lease holds, is proved with TLAPS.

`src/` below is the repository root; its renderer code is in `src/src/`.

## 1. Inventory

| Component | State | Operations | What makes it hard | What makes it correct |
| --- | --- | --- | --- | --- |
| Task-command leases (`electron/ipc/task-command-leases.ts`, `-control`, `-handlers`) | per task: lease, generation counter; global version | acquire, renew, release, clear, lazy reads, prune, release for a client | lazy expiry inside reads, takeovers, reused tasks, two counters with different meanings | a generation names one grant; a rejected grant stays rejected; a version names one controller |
| Takeover broker (`server/browser-task-command-takeovers.ts`, `browser-control-plane.ts`) | pending requests with timers, grace windows, presence | ask, answer, time out, disconnect, reconcile, prune | reentrancy: announcing a change resolves requests, which changes the lease and announces again | a request is decided once; approved means in control; a blip costs nothing; the departed lose |
| Sequenced control transport (`electron/remote/ws-transport.ts`, `server/browser-send-queue.ts`, `src/lib/websocket-client.ts`) | sequence number, replay ring, micro-batch | broadcast, flush, replay, restart | direct messages overtake broadcasts; eviction and compaction leave holes; counters restart | no false gap, no lost event unnoticed |
| Controller projection (`src/store/task-command-controllers.ts`, `src/runtime/browser-session.ts`, `server-state-bootstrap-registry.ts`) | controllers shown, a version per task, the highest version | apply event or reply, replace by list, reset for a new instance, restore | late lists, truncated replay, restart under a surviving tab | once everything has arrived, the holder of each live lease is shown |
| Backend work queue (`electron/ipc/backend-work-queue.ts`) | pending jobs with lanes and aging timers, running jobs, focus reports, sweep | enqueue, finish, promote, report, expire, release, schedule, cancel | operations call each other; every read of the focus may move and start jobs | slots never idle; lanes follow focus; nothing forgotten; nothing starves |
| Queued refresh (`electron/ipc/queued-refresh.ts`) | in-flight and pending keys | run | rejection, microtask between passes | a request is followed by a fresh run |
| Renderer lease holds (`src/app/task-command-lease-*.ts`) | hold counts, local generation, suspension, renewal timer | retain, release, suspend, re-claim, takeover dialog | every step is an await, with disconnects between | held only while a caller holds; dispatch only under the current generation |
| Startup gate (`src/app/server-state-bootstrap.ts`) | pending snapshot and events per category | hydrate, handle, complete | a restart of the server during boot | the newest snapshot, then the newer events |
| Terminal output and recovery (`electron/ipc/pty.ts`, `terminal-recovery.ts`, `remote/ring-buffer.ts`, `server/browser-channels.ts`) | ring, cursors, pause reasons, subscriber queues | write, attach, recover, pause, resume | slow subscribers, cursors outside the ring, reattach | no byte lost or repeated; never paused for ever |
| Initial prompt delivery (`electron/ipc/task-initial-prompt-delivery.ts`) | journal record per delivery, held lease | queue, observe, dispatch, settle, recover | crash between write intent, write and outcome | at most one write of a prompt |
| Agent sessions, task creation, removal, merge (`agent-session-*`, `task-creation-*`, `task-removal-owner.ts`, `task-merge-workflow.ts`) | journals of phases | start, recover, remove, merge | crash between phases, several owners of one task | each phase once; nothing runs in a removed task |
| Task notes, workspace state (`task-notes-service.ts`, `workspace-state-*.ts`) | documents with revisions, idempotency records | save, mutate, load | concurrent writers, retries | no lost update; a retry changes nothing |
| Coordinator (`electron/coordinator/`) | runs, steps, prompts in delivery, persisted snapshot | start, step, deliver, persist | leases used without a connection, crash recovery | a step is executed once |
| Agent control over websockets (`electron/remote/ws-server.ts`, `server/browser-agent-command-*.ts`) | controller per agent, command results | claim, send, replay result | duplicates after a reconnect | a command runs once |
| Git, ports, previews, containers, authentication, user interface, vendored code | | | I/O and rendering | not modelled |

How they interact: a renderer's request reaches the lease handlers over HTTP or its websocket; a
changed lease is emitted as an event; the control plane first reconciles the takeover requests of
the task and then broadcasts the snapshot through the transport; the projection of every renderer
applies it. The prune timer of the control plane drives expiry and departure. Side effects of the
backend (prompts, terminal input, notes, merges) check the lease at the moment they act. Focus
reports of renderers reach the work queue, which runs the refreshes behind the derived state.

`PROJECT.json` lists every component with its status and every hazard at its line.

## 2. Modules

| Module | Models | Correspondence |
| --- | --- | --- |
| `TaskCommandLeaseStore` | `task-command-leases.ts` as functions of a store `[lease, generation, version]` | one operator per function; `Active` is the lazy deletion each read performs; `order` is the insertion order of the Map, any order; `ttl` is `expiresAt - now` in ticks |
| `LeaseFence` | what the table promises (abstract): an epoch per grant, at most one grant in force, an ended grant never returns | |
| `TaskCommandLeases` | the table under all its callers | one action per exported function that changes it, and `Tick`; `issued` and `published` are history |
| `TaskCommandLeases_proofs` | the theorems | section 5 |
| `TaskCommandControl` | takeover broker, disconnect grace, prune timer, lease handlers | a handler is one action: a whole event-loop turn. The functions call each other back (`Emit`, `ReconcileTask`, `Resolve`), so a turn is a record `[store, pending, answers, announced, todo]`, where `todo` is the stack of the calls still to be made; `NextCall` makes the innermost and `Finish` makes all, in the order of the code |
| `TaskCommandProjection` | transport and one renderer | server half: broadcast, replay, handshake; renderer half: one `Deliver...` action per frame kind, one action per await of the restore |
| `BackendWorkQueue` | the work queue | operations are functions of the queue because they call each other (`Refresh` inside `EnqueueWork`); the actions are the calls, timers and job ends |
| `TaskCommandHold` | one renderer's use of the lease, composed with `TaskCommandLeaseStore` and the socket | the renderer is one record `ui`, because its functions call each other; one action per entry point (`Retain`, `ReleaseIt`, `RenewTick`, `RemoveTask`, ...) and per answer; `ui.micro` holds the continuations an answer releases, which `Resume` runs before the next event |
| `TaskInitialPrompt` | the delivery owner of a task's initial prompt, its journal, its runtime, the input admission and the task's removal as far as it concerns them | the delivery's turns are serialised in the code, so there is one `turn` with its copy of the record; one action per stretch between two awaits |
| `TaskRemoval` | the removal of one task, by users and by a merge, with the drain of the notes' writers | `store` is the durable document: task, removal record, merge phase, notes operations; `server` is the process: closing index, published record, calls, the storage's line. `Serve` is one mutation of the head of the line, `Continue` what its caller does with the outcome; `Mutation` and `...GoesOn` hold one case per phase of the code |
| `TaskCommandLeaseStore_proofs` | lemmas about the table's operations, and induction over natural numbers stated with sets; used by the proofs of the four lease modules | section 5 |
| `TaskCommandControl_proofs`, `BackendWorkQueue_proofs`, `TaskInitialPrompt_proofs`, `TaskRemoval_proofs`, `TaskCommandProjection_proofs`, `TaskCommandHold_proofs` | their theorems | section 5 |
| `MC...` | small instances | symmetry sets and assignments |

`TaskCommandLeaseStore` is shared: the lease actions of all four lease modules are the same
operators, so what is proved of an operation holds in the composed modules too.

Abstractions. Actions of a lease, tasks, clients and owners are model values. Time is a tick that
ages every lease, takeover and grace window at once. The absent optional arguments of renew and
release are `None`. In `TaskCommandProjection` sequence numbers start at 1 (0 stands for the client's
-1), and a nested grant is one action, `ReleaseToRequester`, since the takeover broker is modelled in
its own module. There the renderer's restore loses its workspace parts: a workspace revision that
differs is the nondeterministic choice of the full restore. `reconnectFullRestoreRequired` is
`required`; it is not set by a sequence gap, which `NoSequenceGap` shows never to occur. In
`BackendWorkQueue` a timer may elapse at any moment, a job's body is the time between its start and
`Finish`, and a rejected job is a finished one. A git-status job is of a worktree; a request names the task
registered for the worktree at the time (`KeyTasks`), and the job keeps the task of its first request. A job's
`raisedFor` is history: the task whose request raised it since its lane was last derived.

A restart of the server leaves what it has answered over HTTP on its way, and a list that is shown is merged into
the controllers shown before, as Solid's `setStore` does. A listener of `replaceTaskCommandControllers` is
therefore told nothing of a listed task whose controller changed, since the previous controllers it compares with
are the same live object, merged already; it is told of an unlisted task, which is still shown (the tests mock the store otherwise, `task-command-lease.test.ts:1273`).
`TaskCommandHold` has no list for this reason: its `SocketBack` brings a snapshot as the resent events do.
It also leaves out the refresh that a listener schedules after a removal or an approval
(`task-command-lease-runtime-subscriptions.ts:92`), which asks for such a list. In `TaskCommandControl` a socket that
fails during a broadcast disconnects in an action of its own, not inside the turn that broadcast.

In `TaskCommandHold` the socket delivers in order and loses everything at once; a request that was lost
times out. A peer's acquire and the end of a lease are the environment. Snapshots are applied by the
version rule of the projection, without its transport. In `TaskInitialPrompt` a draft is named by its
edit revision and a manual operation by the revision it was derived from; what the terminal shows is a
nondeterministic choice of evidence; the agent and a user who takes control move only at the steps that
look at them. A lease the delivery holds is `held` or `lost`: how it is retained is `TaskCommandHold`'s
and the table's matter. What a crash leaves is the draft, the record and the task's removal state.

In `TaskRemoval` the contents of notes are left out: a save is admitted, completed or neither. Its writer
is closed by default in production (`docs/ARCHITECTURE.md:1066`). A read that follows a step and only picks up
what that step has written belongs to it; the read behind a save's answer stands in line. There is one merge
operation, with cleanup; its status request, which may conclude a committed removal as `StartMerge` does,
and structural writes of other tasks are left out.

A definition whose comment says *mutant* is a plausible mistake in the definition that follows it.
It is used nowhere in the model; replacing the definition by it must break the property named in
`PROJECT.json`.

## 3. Runs

| Run | Checks | Bounds, and why they suffice |
| --- | --- | --- |
| `leases` | `SnapshotsAgree`, `GenerationIdentifiesGrant`, `RejectedForEver`, `ImplementsFence` | one task: leases of different tasks share only the version, and the theorems cover any number of tasks; two clients with two owners each, three grants: grant, loss and return; a lease of two ticks can be renewed half way |
| `control_safety` | `AnsweredOnce`, `PendingAsksController`, `GrantedMeansControl`, `AnnouncedController`, `BlipKeepsLease` | three clients (holder, requester, rival), two requests, so that one turn resolves one inside the other; takeover timeout, lease and grace of 1, 2 and 3 ticks keep the order of the 8 s, 15 s and 30 s in the code: a lease can expire within its grace window, and a takeover times out within the lease; a turn may make 20 calls, and none of these makes more than 16 |
| `control_liveness` | `EveryRequestAnswered`, `DepartedLosesLease` | two clients, one request |
| `projection_reorder` | `NoSequenceGap`, `LiveControllerKnown` | two tasks, because a version per task and their maximum differ only then; two grants, so that a released lease can go straight to a requester; a ring of two and four events: eviction, compaction and truncation all occur; one server instance |
| `projection_restart` | `LiveControllerKnown` across a restart | one task, two instances of three events and one grant each; one list in flight over HTTP, which the restart leaves there: it lands before the new instance's bootstrap, after it, or never |
| `queue_safety` | `WorkConserving`, `LaneFollowsFocus`, `NothingForgotten`, `RequestGetsFreshRun` | two tasks of one worktree, whose job either asks for, a git job of no task and two reconciliation jobs; requests that insist on the interactive or the background lane or follow the focus, and the selected lane by focus reports; two slots: one job runs beside another, one waits; one client that comes, lapses and goes, with the first task selected or only visible and the second in the background |
| `queue_liveness` | `EveryJobRuns`, `EveryTaskReconciled` | one slot, a git job of a task and one of none, either requested as interactive, background or following again and again; a sweep over one task scheduled up to twice; no registered client |
| `hold` | `NoSessionAgainstPeer`, `CleanWhenUndisturbed`, `HoldersKeepGrant` | a session and a command, so that one releases while the other waits or holds; two local leases: a retired one beside its successor; two grants; two disturbances out of takeover, removal, failed renewal and dropped socket, so that each meets each |
| `removal` | `CleanupExcludesWriters`, `AdmissionFollowsRemoval`, `MergeAndRemovalAgree`, `RemovalAnswered` | two requests and a merge: a removal can meet another one, a merge, or both; one save, which is tried again as often as it likes; one cleanup step and one participant to finalize, because they are run in a fixed order by the same loop; one fault, a refused write, one of unknown durability or a crash, at every write and every step |
| `prompt` | `JournalAdmitsWrites`, `DoneWasWritten`, `LeaseGivenBack`, `NoBlindRewrite`, `ClearsOnlySentText`, `DeliverySettles` | two agent generations (one change), one edit, two attempts of a manual operation, a fresh delivery or one of an older release; one fault: each of failed save, clear and write, given-up removal, graceful stop and crash, at every await |

Each module has one `TypeOK`, checked in one of its runs. The deadlock check is off in `hold`, `prompt`, `removal`
and the two runs that refute a statement: their disturbances, grants and revisions are
finite, and a removed task or a renderer at rest has nothing left to do. In the other runs it is on.
`MaxGeneration`, `MaxGrants`, `MaxSeq`, `MaxInstance`, `MaxWire`, `MaxFetches`, `MaxReconcile`,
`MaxCalls`, `MaxLeases`, `MaxHolds`, `MaxRevision`, `MaxAttempts`, `MaxRemovals`, `Steps`, `Finalizers` and
`MaxFaults` are bounds of the model, not of the code; they stand in the guards.

Properties of `TaskCommandProjection` are about a `Quiet` renderer: connected, nothing in flight, no
restore under way. `LiveControllerKnown` has two exceptions, `owed` and `anchored`, each of which is a divergence
listed below. They are history variables, as is `foreign` (does `lastSeq` number an event of a dead
instance?): no guard reads them.

### What the code says and does differently

Two runs check a statement of the repository and find it violated.

| Run | Statement | What happens |
| --- | --- | --- |
| `hold_leak` | at every end no local lease is left: "Expected no local task-command leases" (`task-command-lease-runtime-state.ts:210`) | when the socket drops while a caller awaits its acquire, the await throws past the release of the hold; the hold count stays up, and after the re-claim its interval renews a lease nobody uses |
| `prompt_edit` | the reducer cancels pre-write edits and makes post-write changes manual-required (`task-initial-prompt-delivery.test.ts:343`) | a first automatic write of unknown outcome leaves `attempts` 0; an edit then makes the record `cancelled`, which the journal refuses, so the draft cannot be edited again |

Others were met on the way. They are named where a property makes an exception of them, and have no run:

- A lease that expires is deleted by the first read, silently (`task-command-leases.ts:66`): the prune
  timer has nothing left to announce, and a renderer that has received everything keeps showing the old
  controller, although controller changes are broadcast (`docs/ARCHITECTURE.md:2371`). `LiveControllerKnown`
  speaks of live leases only.
- `owed`: a truncated replay is not fatal, says `browser-session.ts:412`, because the version-gated
  handshake resends stale categories. The renderer presents the maximum version over its tasks; a
  reply that overtook the lost micro-batch makes it equal to the server's, and nothing is resent. Only a
  list at least as new as the table was at the truncation makes it good (`owed` is that version): one
  that was requested before and arrives after does not.
- `anchored`: a new instance's snapshots are accepted after a reset of the trackers
  (`server-state-bootstrap-registry.ts:327-334`), but not if no bootstrap had arrived before the
  restart: then the versions of the dead instance, which a reply brought, stay.
- `anchored`, too: the late list of a dead instance. Versions "are only comparable within one server
  instance" (`server-state-bootstrap-registry.ts:324`), but `loadTaskCommandControllers`
  (`task-command-controllers.ts:279`) compares them with no look at the instance. A list that lands after the new
  instance's bootstrap replaces its controllers and keeps its events out; one that lands before is made good
  by the bootstrap's reset. It takes an HTTP answer that outlives the reconnect. TLC has a behaviour of twelve states
  that shows it on the instance of `projection_restart`.
- The controllers of a dead instance are to be reconciled by "the new instance's bootstrap replacement"
  (`task-command-controllers.ts:371`), but the list is merged into the store (`:237`): a task it does not name, because
  the new instance has never leased it, keeps the dead controller on the screen. `LiveControllerKnown` is about live
  leases, and no property says that nobody is shown on a task without one; TLC refutes that on the same instance.
- `anchored`, too: "Per-boot category versions and lastSeq are only comparable within one server instance"
  (`browser-control-client.ts:202`), but the socket presents `lastSeq` to whatever instance answers (`:390`). A
  renderer that has processed event 2 loses the server, receives the bootstrap of the next
  instance, and loses the socket before the first numbered message. It now counts as knowing the instance, so the
  next handshake opens with a replay batch, empty and up to a smaller number; that leaves `lastSeq` at 2,
  against the comment's "adopt toSeq wholesale", and ends the check for a counter that started again
  (`websocket-client.ts:438`). The new instance's events up to 2 are dropped as processed, a grant among them.
- Aging is there so that background jobs "cannot starve forever" (`docs/ARCHITECTURE.md:798`), but the lanes are
  strict (`backend-work-queue.ts:245`) and a job ages into the visible one only: while git mutations keep asking for
  interactive refreshes (`git-status-workflows.ts:232`) of two worktrees and there is one slot, the sweep's job waits
  for ever; with more slots it takes more worktrees. TLC refutes `EveryJobRuns` without its exception on the instance of
  `queue_liveness`.
- Each focus report, the 30 s keepalive included, returns a job that has aged into the visible lane to the
  background lane, which is a second way for it to starve. `EveryJobRuns` is therefore checked without registered clients.
- `ClearsOnlySentText`: an edit made between a delivery and the retry of its failed clear is cleared too.
- `HoldersKeepGrant` holds while `blips` is 0: after a drop, a release of the time before it can end the
  grant of the re-claim.
- A finalizer that is already armed keeps the request it was armed with (`task-initial-prompt-runtime.ts:359`;
  the comment at `:393` speaks of the latest): the newer operation waits for another call or a restart.
- A graceful stop in mid-dispatch is recorded as the closing of the task
  (`task-initial-prompt-delivery.ts:705`), which closes the delivery of a task that lives on.
- Two removals of one task at once (`AdmissionFollowsRemoval` is stated for one, `alone`). The slower
  publishes the record it read as that of a present task after the faster has committed
  (`task-removal-owner.ts:1538`): the owner then says for good that a removed task is present. And one that
  fails, or meets a merge's reservation, cancels the fence the other relies on (`:1188`): the task is open
  to writers between the record and its publication, and the other throws when it promotes the fence.
- A save whose retry window could not be written keeps its registration, and every removal of the task
  waits until the client tries again or the server restarts: the exception `Retained` of `RemovalAnswered`.
- A save of notes that inspects the document while any mutation is in flight gets a recovery error, which
  closes the notes of every task (`task-notes-service.ts:543-552`); only a restart opens them. So does
  a save whose completion is served while a commit of a removal stands in line.
- A merge that was interrupted is left to its user, and its dormant reservation keeps every other removal
  of the task in conflict.

## 4. Fairness

`TaskCommandControl`: weak fairness of the clock, of the prune timer (an interval timer of the
server) and of each request's own timer. Nothing obliges a client to answer, release, renew or
disconnect. `DepartedLosesLease` therefore holds against a client that renews over HTTP for ever.

`BackendWorkQueue`: weak fairness of each job's end (the bodies are bounded git calls with timeouts
of their own), of each job's aging timer, of the focus expiry timer, of the sweep's start timer and
of its resumption. Nothing obliges anyone to request work, to report focus or to end the boot, and
requests may keep coming, interactive ones too. Those starve what is less urgent, so `EveryJobRuns` says of each
job that it runs or that something more urgent waits ahead of it, again and again: an interactive job runs in any
case, a background job as soon as the lanes above the visible one leave it a slot. `EveryTaskReconciled` has the same
exception. Both are checked without registered clients.

`TaskInitialPrompt`: weak fairness of `Server`, one event loop that runs the turn's next step, an
observation that is overdue, the finalizer, the phases of a removal, and the restart of a server that is
down. Observations that find nothing new are not obliged to happen. `Elapse` is strongly fair: a
deadline does pass, and the model lets it pass only at the steps that look at the clock, so that it is
not enabled continuously. Nothing obliges the agent to start, to get ready or to show evidence, nor the
user to do anything.

`TaskRemoval`: weak fairness of the storage, which serves its line and tells the callers, and of the
answer each removal and merge waits for: authorization, git, participants. Nothing obliges a user to
request, to save or to try again, nor the server to crash or to start.

`TaskCommandHold` and the safety runs use no fairness.

## 5. Proofs

Every theorem is proved from the assumptions its module states about its constants, and from nothing
else; TLC evaluates the assumptions in the runs. They are `LeaseAssumption` and `BoundAssumption`,
`PromptAssumption` (bounds are numbers, a delivery is fresh or an older release's), `QueueAssumption`
(tasks are finitely many, a request for a key names one of a set of tasks, or none, the cap is positive) and `RemovalAssumption`
(bounds are numbers, there is a finalizer, a save is not named by the number of a removal),
`ProjectionAssumption` (the renderer is a client, the ring holds an entry, there is a server instance, bounds
are numbers, `None` is not a controller shown) and
`ControlAssumption` (the takeover timeout and the grace window are positive, bounds are numbers, `None` is
neither a remainder of the grace window nor a decision) and
`HoldAssumption` (one task, the renderer is a client, callers are finitely many and none is named like the
acquire, re-claim, removal or renewal that awaits a request; bounds are numbers, holds and local leases at least one).

| Module | Theorem | Statement |
| --- | --- | --- |
| `TaskCommandLeases_proofs` | `Invariance` | `Spec => []IInv` |
| | `TypeCorrect` | `Spec => []TypeOK` |
| | `SnapshotAgreement` | `Spec => []SnapshotsAgree` |
| | `GenerationUniqueness` | `Spec => []GenerationIdentifiesGrant` |
| | `RejectionIsFinal` | `Spec => RejectedForEver` |
| | `FenceRefinement` | `Spec => ImplementsFence` |
| `TaskCommandControl_proofs` | `Invariance` | `Spec => []IInv` |
| | `TypeCorrect` | `Spec => []TypeOK` |
| | `DecidedOnce` | `Spec => []AnsweredOnce` |
| | `AskedHoldsControl` | `Spec => []PendingAsksController` |
| | `NewestIsTheTruth` | `Spec => []AnnouncedController` |
| | `GrantsControl` | `Spec => GrantedMeansControl` |
| | `BlipKeeps` | `Spec => BlipKeepsLease` |
| `TaskInitialPrompt_proofs` | `TypeCorrect` | `Spec => []TypeOK` |
| | `JournalSaysEnough` | `Spec => []JournalAdmitsWrites` |
| | `DoneIsDone` | `Spec => []DoneWasWritten` |
| | `LeasesComeBack` | `Spec => []LeaseGivenBack` |
| | `NoWriteIsRepeatedBlindly` | `Spec => NoBlindRewrite` |
| | `NoTextIsLost` | `Spec => ClearsOnlySentText` |
| `BackendWorkQueue_proofs` | `TypeCorrect` | `Spec => []TypeOK` |
| | `WorkIsConserved` | `Spec => []WorkConserving` |
| | `LanesFollowFocus` | `Spec => []LaneFollowsFocus` |
| | `NothingIsForgotten` | `Spec => []NothingForgotten` |
| | `RequestsGetFreshRuns` | `Spec => []RequestGetsFreshRun` |
| `TaskRemoval_proofs` | `TypeCorrect` | `Spec => []TypeOK` |
| | `CleanupIsExclusive` | `Spec => []CleanupExcludesWriters` |
| | `AdmissionIsRight` | `Spec => []AdmissionFollowsRemoval` |
| | `JournalsAgree` | `Spec => []MergeAndRemovalAgree` |
| `TaskCommandProjection_proofs` | `StreamInOrder` | `Spec => []IInv` |
| | `GapFree` | `Spec => []NoSequenceGap` |
| | `PromiseKept` | `Spec => [](LInv /\ Fetched)` |
| | `TypeCorrect` | `Spec => []TypeOK` |
| | `ControllersKnown` | `Spec => []LiveControllerKnown` |
| `TaskCommandHold_proofs` | `Invariance` | `Spec => []HoldInv` |
| | `TypeCorrect` | `Spec => []TypeOK` |
| | `SessionsYield` | `Spec => []NoSessionAgainstPeer` |

### The lease table

None of the properties is inductive alone. Two snapshots agree only because a published one that carries
the current version agrees with the table (`Consistent`); generations are unique only because no issued one
exceeds its task's counter (`IssuedBounded`); a rejected grant stays rejected because a stored lease always
carries the newest generation (`Current`). `IInv` is their conjunction with the types.

Every operation of the table is shown once to be a `StoreStep`: versions and generations do not
decrease, an unchanged version means an unchanged controller, and a lease in force under an
unchanged generation was in force before with the same client and owner. The lazy deletion is a
`StoreStep`, steps compose (`StepsCompose`), and so each function of the code is one
(`AcquireStep`, `RenewStep`, `ReleaseStep`, ...). The walks over the Map publish one snapshot per
deleted lease with increasing versions, which needs a counting argument over the insertion order
(`WalkVersions`). `ActionStep` collects this per action, with whether it grants; `IInvStep`,
`RejectionIsFinal` and `FenceRefinement` follow from `ActionStep` alone.

### The control plane

Announcing a change reconciles the pending takeovers of its task, a decision may acquire the lease, and that
announces again: what a handler promises is false at most moments of its turn. The invariant therefore
has two layers. `IInv` is for the moments between turns (`Settled`: a request pending is unanswered, whom
it asks is in control if anybody is, the newest snapshot announced is true). `Good` is for the moments
between two calls of a turn, and says who will make good what does not hold yet:

- `Once`: a request is pending, or about to be answered, or answered, and only one of these;
- `Asks`: a pending request that asks somebody who has lost control has its reconciliation on the stack;
- `Cleans`: a pending request of the client that leaves has its cleanup on the stack;
- `Truth`: the newest snapshot of a task that was or will be broadcast says who controls it;
- `Granted`: a request granted in this turn is still in control, because whoever comes after it in the
  turn finds no stale request to grant;
- `Layered`: no reconciliation is left below a walk over the leases, so a walk meets a settled table;
- `Kept`: a lease within its grace window stays with its client or goes to a requester of the task.

Each call is shown to keep `Good` (`NextCallKeeps`, with a lemma per call: a broadcast, a
reconciliation, an answer, a release, ...), then a turn of any number of calls (`FinishKeeps`, by
induction over their number), and each handler to start from a good turn (`TurnEnds`). The two action
properties are `Granted` and `Kept` at the end of a turn.

For the proof the model's recursion was replaced by the stack `todo`, with `MaxCalls` as the bound of
a turn; on the runs the behaviours, and the numbers of states, are those of the recursion. TLC checked
`Good` after every call of the turns of `control_safety` first.

### The prompt delivery

The properties compare the durable record with what the terminal has received. In between, a turn works on a
copy of the record it read before its awaits, so the invariant has to say that nobody else has changed the
record (`TurnInv`) and, for each place of a turn, what the record and the terminal say there (`AutoAt`,
`ManualAt`): a turn that is about to submit has its intent on disk, and one that is about to settle has
written. `Stored` says which records the journal accepts, `HistoryInv` bounds the terminal by the record,
`LeaseInv` the leases by the turn. `OwnerInv` is needed for the start of a server: an owner
that is down runs nothing, one that repairs runs its repair, and neither holds the lease of an automatic
write. Each action has a lemma; most rest on lemmas about the reducer, one per event. The two action
properties are proved from the same invariant.

### The work queue

The operations call each other, and every call ends in `Dispatch`, a loop that starts jobs while a slot
is free. Its lemma (`Served`, `WorkConserving`) is proved by induction over the number of its turns, of
which there are at most `Cap`, since each takes a slot. The
library's induction theorems take predicates, which no installed prover instantiates; `NaturalsByStep`
is the same for the *set* of numbers with the property, from the well-foundedness of finite sets, and
`Iterate` shows that a function can be iterated (`IterateAlong`, that many can, one after the other). The
lease modules have their copy in `TaskCommandLeaseStore_proofs`. The walk that empties the sweep's list and the choice of the best
job rest on it too.

The strengthening is that a job's promotion timer is armed exactly in the background lane (`WellPlaced`):
without it a promotion could take a job out of a lane the focus has put it in. `Sound` collects this for a
queue in the middle of an operation, and each operation is shown to lead from sound queues to sound
ones that keep the jobs that are owed (`Kept`); `SweepInv` says where a sweep may stand.

`LanesFollowFocus` makes no assumption on which tasks share a worktree. A job may be above the lane of its own
task because another task of its worktree has raised it; `Placed` says that this task's lane under the same
reports is the one it is in. Without that disjunct TLC refutes it: a job of the second task is raised to the lane of
the first, which is selected. `Relaned` ends it, at every change of the reports.

### The task removal

The invariant has to hold between any two of up to `MaxRemovals` removals, the merge, the saves and the
storage, so it speaks of everybody's place at once. `Lined`: the line holds who is at the storage, once.
`Indexed` and `Fenced`: the closing index has one entry at most, who waits for the drain is at it, and a
fenced task has no registration. `Shown`: what is published or closed is borne out by the document or by
somebody under way. `Merging`: what the merge's journal says at each place of its workflow. `Covered`: a
task that is closed in the document is closed in the index, while removals come one at a time (`Alone`).

The difficulty is that the document runs ahead of the server: between the mutation of the head of the line
and the head's next step `Covered` fails and the journals have moved. `Pending` says what the outcome that
waits for the head tells of the document then (`Told`), and every other actor's step in between must
leave that true (`Behind`). A step is proved in three parts: the actor leaves its place (the invariant with
a hole, `Good(..., {a})`), publishes, registers or fences on its way, and finds a place that fits
(`Fits`, `Suits`). Each mutation has a lemma that it leaves a document in order and that its outcome tells
the truth (`Granted`). TLC checked the invariant before it was proved, on the instance of `removal`
and in part on one with two saves and three removals.

Two things in the model were changed for the proofs. The drain is answered for all of its waiters in one
expression instead of a recursive one, and the waiters are kept in the order they came (`waits`); with
that the model also got right who waits for a drain that was canceled since: the swap throws for it
(`task-removal-notes-coordination.ts:398-400`, `Stranded`). And the number of a save may not be that of a
removal. In `BackendWorkQueue` the tasks are assumed to be finitely many.

### The control stream

`NoSequenceGap` speaks of the first frame on the socket; what makes it true is the whole way to it. The
invariant takes the socket and the micro-batch of the server as one stream. A frame that the renderer counts
*reaches* a number: an event its own, a replay the last one it covers. Along the stream the reach does not fall, no
event is more than one ahead of what the frames before it reach (`Follows`), and the server's next
number is not either; so a frame may be taken from the front, moved from the micro-batch to the
socket, or added at the back. The replay ring is in order and ends at the server's number (`InOrder`), which
eviction and compaction keep. The reconnect is where the argument is needed: the window of the ring is sent
event by event only when it has as many entries as numbers are missing, and then entries in order are
consecutive (`WindowIs`, `Consecutive`); otherwise a truncation or a batch precedes what follows it and reaches
further. TLC checked the invariant on the instance of `projection_restart` first.

For these proofs the ring is written with `SubSeq` and `RemoveAt` (`Newest`, `AddPresence`, `Window`)
where it was written with folds and `SelectSeq`, which the provers cannot expand. The behaviours are
the same.

### What a renderer shows

`LiveControllerKnown` speaks of a renderer at rest, and at rest there is nothing left to argue from. The
invariant `LInv` says of every moment what is still to come. For each live lease there is a version `g`, that of
the change that made its holder known, such that

- `Told`: whatever can still reach the renderer about the task and is as new as `g` names the
  holder: frames, entries of the ring, lists in flight, and what is shown already;
- `Informed`: the renderer has applied something as new as `g`, or is owed a list, or the event of
  that change is on its way or can be replayed, with a number beyond what the renderer has processed; and if it does not
  know the server's instance, the bootstrap that will introduce it brings a list that new, or follows such an event.

Beside it, `Fetched` says of every list in flight over HTTP that it is of this instance or one before, and in order. A
list of a dead instance promises nothing; if it lands while the bootstrap is still to come, the reset forgets it,
and if it lands later `anchored` ends the promise. The exception is no wider than that: a list that is too old to replace
anything keeps it.

The rest of `LInv` is what these two need: nothing is newer than the table (`Truthful`); the renderer's
versions are those of this instance (`Tracked`); a bootstrap is on the wire for whoever needs one, with
nothing but the replay before it (`Greeted`); no event on its way will be taken for one processed before
(`Heard`, from `IInv`). An operation of the table keeps `g` or, when it changes the holder, takes the new version
for it (`Kept`, `Regranted`); `ServesPromise` does that once for all of them, from lemmas that
say who holds a task after an operation (`RenewSame`, `ReleaseSame`, `AcquireSame`, ...). On the other side,
`Gains` says what applying an event, a reply or a batch may change in the projection and `ReplaceRight` what
a list does; a batch is a recursive function over its events, unfolded with `IterateAlong`.
The case to think about is `Connect`, where the server decides, from what the renderer presents, what to
resend.

The proof changed the model. Both exceptions of `LiveControllerKnown` had been drawn too narrowly, which larger bounds
in TLC confirmed: a list requested before a truncation was taken to make it good, and a `lastSeq` of a dead
instance was excused only at the batch that kept it. `owed` and `foreign` say it right. `ApplyAll` was a fold, which the provers cannot expand, and is a function.

### The renderer's holds

`NoSessionAgainstPeer` speaks of a renderer that has received everything. On the way there its beliefs lag
behind the table by the frames on the socket, and a session gets its lease, or loses it, at the end of a
chain of continuations. `HoldInv` says of every moment

- `Told`: while a peer controls the task and the socket is up, some snapshot on its way is not followed by any
  frame that names this renderer; or the renderer believes somebody else, and no frame says otherwise;
- `InOrder`: the versions of the frames do not fall, from what the renderer has seen to the table's, so none of
  them is dropped as old;
- `Believes`: a session holds only while the renderer believes itself in control. That is what
  `HandleControllerChanged` has to keep, and it is subscribed whenever a session is open (`Heeds`);
- `Sound`: who awaits what. Each request is awaited under one name, is on one way only (`Posted`), and its
  caller, local lease, re-claim, removal or renewal is where such a request puts it (`Awaits`); those who
  wait for an acquire are waited for once, and the acquire is in flight (`Gathered`);
- `Unclaimed`: a suspended lease has no re-claim yet for the connection to come.

While the socket is down nothing is promised; `SocketBack` starts the new connection with a snapshot of the
table (`GreetedInv`), which is why a takeover that happened in between is told. An acquire that is granted to
this renderer ends the peer's control, so its answer may name the renderer; any other frame repeats what the
table says (`FrameInv`). `TypeOK` needs `Sound`: that a pending acquire is one request rests on the names being told
apart (`Whose`).

Each function of the code has a lemma that says where it leads (`ReleaseLeads`, `HoldLeads`, `RefreshLeads`,
`RetainedLeads`, `SettleLeads`, `EnsuredLeads`, ...): what is sound stays sound, and the rest of the renderer is
`Onward`: no lease is suspended anew, no session begins to hold but under a belief. The two loops, over the
sessions that are ended and the decisions that are dropped, are recursive functions, unfolded with
`IterateAlong`. TLC checked the invariant on the instance of `hold` first.

The proof changed the model. Those who retain and those who release await an acquire in two sequences,
`waiters` and `leavers`, where one was filtered when it settled; the loops were folds; a request that
failed is an answer of its own kind (`Failure`), since `None` could not be told from an answer for every
`None`; a caller may not be named like a request; and `MaxHolds` is positive, as a release that failed counts
one hold again. The behaviours of the runs are the same.

### What is only model-checked

`CleanWhenUndisturbed` and `HoldersKeepGrant` of `TaskCommandHold`, which need an exact account of the holds
and of every generation on its way, and all liveness, which the prover cannot express: `EveryRequestAnswered`,
`DepartedLosesLease`, `EveryJobRuns`, `EveryTaskReconciled`, `DeliverySettles` and `RemovalAnswered`.

## 6. Plan

Next, in this order:

1. `QueuedRefresh`: rejection and the microtask between passes; against "a request is followed by a run".
2. `WorkspaceState` and the contents of `TaskNotes`: revisions, idempotent operations, no lost update.
3. `StartupGate` in front of the projection.
4. `TerminalOutput`: cursors, ring, pause reasons; every pause ends.
5. `TaskCreation`, agent sessions and the coordinator: journals of phases, as in `TaskInitialPrompt`.

Theorems to come: `CleanWhenUndisturbed` and `HoldersKeepGrant` of `TaskCommandHold`.
