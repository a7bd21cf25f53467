--------------------------- MODULE BackendWorkQueue ---------------------------
(***************************************************************************)
(* The process-wide prioritised queue of deferrable backend work           *)
(* (electron/ipc/backend-work-queue.ts): git-status, convergence and       *)
(* review refreshes are coalesced per key, given a lane that follows what  *)
(* the connected clients look at, and run at most Cap at a time; work in   *)
(* the background lane runs alone, after boot has released it, and ages    *)
(* into the visible lane.  A sweep re-checks every saved task through the  *)
(* background lane.                                                        *)
(*                                                                         *)
(* There is no clock: the aging timer of a job (60 s), the expiry of a     *)
(* focus report (60 s) and the start delay of the sweep (15 s) may elapse  *)
(* at any moment.                                                          *)
(***************************************************************************)
EXTENDS Naturals, SequencesExt

CONSTANTS
  Tasks,
  NoTask,        \* a job, or a selection, that names no task
  Keys,          \* keys of the jobs the refresh workflows request
  KeyTasks,      \* [Keys -> SUBSET (Tasks \cup {NoTask})]: the tasks a request
                 \* for the key may name.  A git-status job is of a worktree, and
                 \* names whichever of its tasks is registered last, or none
  GitKey,        \* [Tasks -> Keys]: the git-status job of a task's worktree
  Clients,
  Selections,    \* what a client can report as selected
  Visibles,      \* sets of tasks a client can report as visible
  Explicit,      \* lanes a caller of enqueueBackendWork may insist on
  Cap,           \* getConcurrencyCap
  MaxReconcile   \* bound on the sweep's list

Interactive == 0
Selected    == 1
Visible     == 2
Background  == 3

Reconcile(t) == <<"reconcile", t>>
JobKeys      == Keys \cup {Reconcile(t) : t \in Tasks}

Follow      == 4   \* no priority given: the lane follows the focus

ASSUME QueueAssumption ==
  /\ KeyTasks \in [Keys -> SUBSET (Tasks \cup {NoTask})]
  /\ GitKey \in [Tasks -> Keys]
  /\ IsFiniteSet(Tasks) /\ NoTask \notin Tasks
  /\ Selections \subseteq Tasks \cup {NoTask}
  /\ Visibles \subseteq SUBSET Tasks
  /\ Explicit \subseteq Interactive..Background
  /\ Cap \in Nat \ {0}
  /\ MaxReconcile \in Nat

VARIABLES
  pending,   \* jobs in arrival order: key, task (of the first request), lane,
             \* pinned (explicitPriority is not null), aging (the promotion
             \* timer is armed) and, as history, raisedFor: the task whose
             \* request raised the job since its lane was last derived
  running,   \* jobs taken from pending: key, background
  focus,     \* clientFocus: the last report of each registered client,
             \* fresh until its TTL
  released,  \* backgroundReleased
  owed,      \* history: keys requested and not started since
  sweep      \* ids left, armed (reconciliationTimer), current (the task whose
             \* job the running sweep awaits) and settled (that job ended)

vars == <<pending, running, focus, released, owed, sweep>>

Jobs == [key : JobKeys, task : Tasks \cup {NoTask}, lane : Interactive..Background,
         pinned : BOOLEAN, aging : BOOLEAN, raisedFor : Tasks \cup {NoTask}]
Reports == [selected : Selections, visible : Visibles, fresh : BOOLEAN]

TypeOK ==
  /\ pending \in Seq(Jobs)
  /\ running \in Seq([key : JobKeys, background : BOOLEAN])
  /\ Len(running) <= Cap
  /\ DOMAIN focus \subseteq Clients /\ Range(focus) \subseteq Reports
  /\ released \in BOOLEAN
  /\ owed \subseteq JobKeys
  /\ sweep \in [ids : Seq(Tasks), armed : BOOLEAN,
                current : Tasks \cup {NoTask}, settled : BOOLEAN]

Init ==
  /\ pending = <<>>
  /\ running = <<>>
  /\ focus = <<>>
  /\ released = FALSE
  /\ owed = {}
  /\ sweep = [ids |-> <<>>, armed |-> FALSE, current |-> NoTask, settled |-> FALSE]

-----------------------------------------------------------------------------
(* The queue as a value q = [pending, running, focus, released, owed]: the *)
(* operations call each other, so each is a function of it.                *)

Queue == [pending |-> pending, running |-> running, focus |-> focus,
          released |-> released, owed |-> owed]

Becomes(q) ==
  /\ pending' = q.pending
  /\ running' = q.running
  /\ focus' = q.focus
  /\ released' = q.released
  /\ owed' = q.owed

\* Mutant: the timer is cleared but never armed.
OnlyDisarms(j) == [j EXCEPT !.aging = @ /\ j.lane = Background]

\* syncPromotionTimer: exactly the jobs of the background lane age.
SyncPromotion(j) == [j EXCEPT !.aging = j.lane = Background]

\* The most urgent job, the oldest of its lane.
Best(p) ==
  CHOOSE i \in DOMAIN p :
    \A n \in DOMAIN p : \/ p[i].lane < p[n].lane
                        \/ p[i].lane = p[n].lane /\ i <= n

\* Mutant: an off-by-one at the cap.
OneTooMany(q) ==
  /\ Len(q.running) <= Cap
  /\ q.pending # <<>>
  /\ q.pending[Best(q.pending)].lane = Background => q.released /\ q.running = <<>>

Dispatchable(q) ==
  /\ Len(q.running) < Cap
  /\ q.pending # <<>>
  /\ q.pending[Best(q.pending)].lane = Background => q.released /\ q.running = <<>>

RunJob(q) ==
  LET job == q.pending[Best(q.pending)]
  IN  [q EXCEPT !.pending = RemoveAt(@, Best(q.pending)),
                !.owed = @ \ {job.key},
                !.running = Append(@, [key |-> job.key, background |-> job.lane = Background])]

\* dispatchPendingWork: start jobs until none may start, at most Cap of them.
Dispatch(q) ==
  LET after[n \in 0..Cap] ==
        IF n = 0 THEN q
        ELSE LET r == after[n - 1] IN IF Dispatchable(r) THEN RunJob(r) ELSE r
  IN  after[Cap]

Prune(f) == Restrict(f, {c \in DOMAIN f : f[c].fresh})

\* With nobody connected every task counts as visible.
FocusPriority(f, t) ==
  IF t = NoTask \/ DOMAIN f = {} THEN Visible
  ELSE IF \E c \in DOMAIN f : f[c].selected = t THEN Selected
  ELSE IF \E c \in DOMAIN f : t \in f[c].visible THEN Visible
  ELSE Background

Follows(j) == ~j.pinned /\ j.task # NoTask

\* The lane of a job derived anew from its own task.
Relaned(f, j) ==
  IF Follows(j) THEN SyncPromotion([j EXCEPT !.lane = FocusPriority(f, j.task), !.raisedFor = NoTask])
                ELSE j

\* Mutant of Reprioritize: the jobs change lanes but nothing is dispatched.
RelaneOnly(q) ==
  LET f == Prune(q.focus)
  IN  [q EXCEPT !.focus = f, !.pending = [i \in DOMAIN q.pending |-> Relaned(f, q.pending[i])]]

\* reprioritizePendingJobsForFocus.  Deriving the lane of a job first drops
\* the expired reports, so the reports are pruned if any job follows them.
Reprioritize(q) ==
  LET f == IF \E i \in DOMAIN q.pending : Follows(q.pending[i]) THEN Prune(q.focus) ELSE q.focus
  IN  Dispatch([q EXCEPT !.focus = f,
                         !.pending = [i \in DOMAIN q.pending |-> Relaned(f, q.pending[i])]])

\* Mutant of Refresh: an expired report is dropped and nothing follows.
PruneOnly(q) == [q EXCEPT !.focus = Prune(@)]

\* refreshClientFocusLiveness: what reading the focus registry does first.
Refresh(q) ==
  IF Prune(q.focus) = q.focus THEN q ELSE Reprioritize([q EXCEPT !.focus = Prune(@)])

IndexOf(q, k) == {i \in DOMAIN q.pending : q.pending[i].key = k}

\* The job a request makes.
NewJob(k, t, lane, pinned) ==
  SyncPromotion([key |-> k, task |-> t, lane |-> lane, pinned |-> pinned, aging |-> FALSE,
                 raisedFor |-> NoTask])

\* Mutant of EnqueueWork: a request also joins a run that has begun.
JoinsRunning(q, k, t, p) ==
  LET requested == IF p = Follow THEN FocusPriority(q.focus, t) ELSE p
  IN  IF IndexOf(q, k) = {} /\ \A i \in DOMAIN q.running : q.running[i].key # k
      THEN Dispatch([q EXCEPT !.pending = Append(@, NewJob(k, t, requested, p # Follow)),
                              !.owed = @ \cup {k}])
      ELSE [q EXCEPT !.owed = @ \cup {k}]

\* enqueueBackendWork.  The pending job of the key is looked up first; deriving
\* the requested lane may start it, and the request then joins that run, whose
\* body has not begun yet.  A request can raise a waiting job, never lower it;
\* the job keeps the task of its first request.
EnqueueWork(q, k, t, p) ==
  LET a == [q EXCEPT !.owed = @ \cup {k}]
      r == IF p = Follow /\ t # NoTask THEN Refresh(a) ELSE a
      requested == IF p = Follow THEN FocusPriority(r.focus, t) ELSE p
      Raise(j) == SyncPromotion([j EXCEPT !.lane = requested, !.pinned = @ \/ p # Follow,
                                          !.raisedFor = t])
  IN  IF IndexOf(q, k) = {}
      THEN Dispatch([r EXCEPT !.pending = Append(@, NewJob(k, t, requested, p # Follow))])
      ELSE Dispatch([r EXCEPT !.pending = [i \in DOMAIN @ |->
             IF i \in IndexOf(r, k) /\ requested < @[i].lane THEN Raise(@[i]) ELSE @[i]]])

SetClientFocus(q, c, selected, visible) ==
  LET kept == Prune(q.focus)
      report == [selected |-> selected, visible |-> visible, fresh |-> TRUE]
  IN  Reprioritize([q EXCEPT !.focus =
        [d \in DOMAIN kept \cup {c} |-> IF d = c THEN report ELSE kept[d]]])

-----------------------------------------------------------------------------
(* The steps: calls from handlers and workflows, timers, and job ends.     *)

Enqueue(k, t, p) ==
  /\ Becomes(EnqueueWork(Queue, k, t, p))
  /\ UNCHANGED sweep

\* The body of a job settles.  The sweep waiting for it resumes later.
Finish(k) ==
  /\ \E i \in DOMAIN running :
       /\ running[i].key = k
       /\ \A n \in 1..(i - 1) : running[n].key # k
       /\ Becomes(Dispatch([Queue EXCEPT !.running = RemoveAt(@, i)]))
  /\ sweep' = [sweep EXCEPT !.settled = @ \/ k = Reconcile(sweep.current)]

\* promoteAgedBackgroundJob: the 60 s of a job in the background lane are over.
Promote(k) ==
  /\ \E i \in DOMAIN pending :
       /\ pending[i].key = k /\ pending[i].aging
       /\ LET lane == IF pending[i].lane = Background THEN Visible ELSE pending[i].lane
          IN  Becomes(Dispatch([Queue EXCEPT !.pending[i].aging = FALSE,
                                             !.pending[i].lane = lane]))
  /\ UNCHANGED sweep

\* ReportClientTaskFocus: a report, a keepalive or a changed selection.  If the
\* worktree of the task that was selected is watched, the status of the worktree
\* is asked for, in the name of the task registered for it (NoTask: not watched).
ReportClientTaskFocus(c, selected, visible, registered) ==
  LET r == Refresh(Queue)
      previous == IF c \in DOMAIN r.focus THEN r.focus[c].selected ELSE NoTask
      set == SetClientFocus(r, c, selected, visible)
  IN  /\ registered # NoTask => selected # NoTask /\ registered \in KeyTasks[GitKey[selected]]
      /\ Becomes(IF registered # NoTask /\ selected # previous
                 THEN EnqueueWork(set, GitKey[selected], registered, Selected) ELSE set)
      /\ UNCHANGED sweep

\* clearBackendClientFocus: the client disconnected.
ClearFocus(c) ==
  /\ c \in DOMAIN focus
  /\ Becomes(Reprioritize([Queue EXCEPT !.focus = Restrict(@, DOMAIN @ \ {c})]))
  /\ UNCHANGED sweep

\* A report outlives its TTL ...
Lapse(c) ==
  /\ c \in DOMAIN focus /\ focus[c].fresh
  /\ focus' = [focus EXCEPT ![c].fresh = FALSE]
  /\ UNCHANGED <<pending, running, released, owed, sweep>>

\* ... and the expiry timer, or whoever reads the registry first, drops it.
ExpireFocus ==
  /\ Prune(focus) # focus
  /\ Becomes(Refresh(Queue))
  /\ UNCHANGED sweep

\* armBackgroundReconciliationSweep: unless a timer or a sweep is under way.
Arm(s, rel) == [s EXCEPT !.armed = @ \/ (rel /\ s.current = NoTask /\ s.ids # <<>>)]

\* releaseBackendBackgroundWork: the server listens.
Release ==
  /\ ~released
  /\ Becomes(Dispatch([Queue EXCEPT !.released = TRUE]))
  /\ sweep' = Arm(sweep, TRUE)

ScheduleReconciliation(ids) ==
  /\ Len(sweep.ids) + Len(ids) <= MaxReconcile
  /\ sweep' = Arm([sweep EXCEPT !.ids = @ \o ids], released)
  /\ UNCHANGED <<pending, running, focus, released, owed>>

\* cancelBackendBackgroundReconciliation: the server shuts down.  A sweep that
\* awaits a job finds the list empty when it resumes.
CancelReconciliation ==
  /\ sweep' = [sweep EXCEPT !.ids = <<>>, !.armed = FALSE]
  /\ UNCHANGED <<pending, running, focus, released, owed>>

\* Mutant of SweepNext: the sweep ends after one task.
SweepOnce ==
  IF sweep.ids = <<>> \/ sweep.settled
  THEN /\ sweep' = [sweep EXCEPT !.armed = FALSE, !.current = NoTask, !.settled = FALSE]
       /\ UNCHANGED <<pending, running, focus, released, owed>>
  ELSE /\ sweep' = [ids |-> Tail(sweep.ids), armed |-> FALSE,
                    current |-> Head(sweep.ids), settled |-> FALSE]
       /\ Becomes(EnqueueWork(Queue, Reconcile(Head(sweep.ids)), Head(sweep.ids), Background))

\* The sweep takes the next task and awaits its job, or ends.
SweepNext ==
  IF sweep.ids = <<>>
  THEN /\ sweep' = [sweep EXCEPT !.armed = FALSE, !.current = NoTask, !.settled = FALSE]
       /\ UNCHANGED <<pending, running, focus, released, owed>>
  ELSE /\ sweep' = [ids |-> Tail(sweep.ids), armed |-> FALSE,
                    current |-> Head(sweep.ids), settled |-> FALSE]
       /\ Becomes(EnqueueWork(Queue, Reconcile(Head(sweep.ids)), Head(sweep.ids), Background))

SweepTimer == sweep.armed /\ SweepNext

SweepResume == sweep.settled /\ SweepNext

Next ==
  \/ \E k \in Keys, p \in Explicit \cup {Follow} : \E t \in KeyTasks[k] : Enqueue(k, t, p)
  \/ \E k \in JobKeys : Finish(k) \/ Promote(k)
  \/ \E c \in Clients, t \in Selections, v \in Visibles, registered \in Tasks \cup {NoTask} :
       ReportClientTaskFocus(c, t, v, registered)
  \/ \E c \in Clients : ClearFocus(c) \/ Lapse(c)
  \/ ExpireFocus
  \/ Release
  \/ \E ids \in {SetToSeq(Tasks)} : ScheduleReconciliation(ids)
  \/ CancelReconciliation
  \/ SweepTimer
  \/ SweepResume

Spec == Init /\ [][Next]_vars

\* Jobs end, timers fire and a settled promise resumes the sweep; nothing makes
\* a caller request work, a client report, or the server finish its boot.
FairSpec ==
  /\ Spec
  /\ \A k \in JobKeys : WF_vars(Finish(k)) /\ WF_vars(Promote(k))
  /\ WF_vars(ExpireFocus) /\ WF_vars(SweepTimer) /\ WF_vars(SweepResume)

-----------------------------------------------------------------------------
\* No slot stays free while a job may take it: every step that frees a slot,
\* raises a job, or opens the background lane also dispatches.
WorkConserving == ~Dispatchable(Queue)

\* Where a job that follows the focus f may be: in the lane of its own task, in
\* the visible lane it has aged into, or above its own lane, in that of another
\* task of its worktree which asked for it since.
Placed(f, j) ==
  LET own == FocusPriority(f, j.task)
  IN  \/ j.lane = own
      \/ j.lane = Visible /\ own = Background
      \/ j.lane < own /\ j.lane = FocusPriority(f, j.raisedFor)

\* A job that follows the focus is in the lane the registered reports give its
\* task, or above it because it has aged or because a request of another task of
\* the same worktree has raised it under the same reports: no report is
\* registered, dropped or expired without moving the jobs that follow it.
LaneFollowsFocus ==
  \A i \in DOMAIN pending : Follows(pending[i]) => Placed(focus, pending[i])

\* Every job of the background lane has its promotion timer, and a started
\* sweep is never forgotten: tasks left after the release have a timer or a
\* sweep that will take them.
NothingForgotten ==
  /\ \A i \in DOMAIN pending : pending[i].lane = Background => pending[i].aging
  /\ released /\ sweep.ids # <<>> => sweep.armed \/ sweep.current # NoTask

Runs(k) == \E i \in DOMAIN running : running[i].key = k
Waits(k) == \E i \in DOMAIN pending : pending[i].key = k

\* A request is never answered by a run that had already begun when it was made:
\* until a run of its key starts, a job of its key waits.
RequestGetsFreshRun == \A k \in owed : Waits(k)

\* Something urgent waits, above the visible lane that a job can age into ...
Pressed == \E i \in DOMAIN pending : pending[i].lane < Visible

\* ... and above the job of key k.
Outranked(k) ==
  \E i, n \in DOMAIN pending :
    pending[i].key = k /\ pending[n].lane < Visible /\ pending[n].lane < pending[i].lane

\* Every job that waits is eventually started, or something more urgent waits
\* ahead of it: an interactive job runs whatever else is asked for, and a job
\* of the background lane ages into the visible one, where jobs run in order of
\* arrival, and runs once the two lanes above leave it a slot.
EveryJobRuns == \A k \in JobKeys : Waits(k) ~> Runs(k) \/ Outranked(k)

\* Once the background lane is open the sweep reaches every task on its list,
\* unless it is cancelled, or something urgent waits.
EveryTaskReconciled ==
  \A t \in Tasks : released /\ t \in Range(sweep.ids) ~>
    Runs(Reconcile(t)) \/ sweep.ids = <<>> \/ Pressed

=============================================================================
