-------------------------- MODULE TaskInitialPrompt --------------------------
(***************************************************************************)
(* The delivery of a task's initial prompt to its agent                    *)
(* (electron/ipc/task-initial-prompt-{delivery,runtime,                    *)
(* delivery-persistence}.ts, task-prompt-input-admission.ts).  One journal *)
(* record per delivery says how far it got.  The server writes the prompt  *)
(* into the terminal by itself once the agent is ready, and at most once   *)
(* more after it has seen that the first write did not arrive; or the user *)
(* sends the draft by hand, which seals the automation for good.  Every    *)
(* write is announced in the journal before its first byte, so that a      *)
(* server that died in between knows what it does not know.                *)
(*                                                                         *)
(* The turns of a delivery are serialised.  A turn works on its own copy   *)
(* of the record, and every save, clear and lease is an await, where the   *)
(* server may die, the agent move on, the deadline pass, the task close or *)
(* the save fail.  A draft is named by its edit revision, and so is the    *)
(* manual operation derived from it.                                       *)
(***************************************************************************)
EXTENDS Integers

CONSTANTS
    Histories,      \* where the delivery starts: "fresh", or a "legacy" draft
    MaxRevision,    \* bound on the edits of the draft
    MaxGeneration,  \* bound on the starts of the agent
    MaxAttempts,    \* bound on the attempts of one manual operation
    MaxFaults,      \* bound on what goes wrong
    Faults          \* what may go wrong: "save", "clear", "write", "reopen", "stop", "crash"

ASSUME PromptAssumption ==
    /\ {MaxRevision, MaxGeneration, MaxAttempts, MaxFaults} \subseteq Nat
    /\ Histories # {} /\ Histories \subseteq {"fresh", "legacy"}

VARIABLES
    task,       \* the task's removal: open, closing, drained, removed
    owner,      \* the delivery owner: down, repair, active, stopping
    draft,      \* the task's canonical draft, durable
    rec,        \* the delivery's journal record, durable
    agent,      \* the agent's generation and what its supervision says
    late,       \* has the deadline of what the delivery waits for passed?
    lease,      \* the command leases the service retains, lost when a user took over
    turn,       \* the running turn of the delivery, with its copy of the record
    tracked,    \* does the runtime still observe the delivery?
    finalizer,  \* the manual operation a timer will finish
    faults,     \* how often something has gone wrong
    screen      \* history: what the terminal has received, what the user confirmed

vars == <<task, owner, draft, rec, agent, late, lease, turn, tracked, finalizer,
          faults, screen>>

Revisions == 0 .. MaxRevision
Waiting == {"waiting-ready", "waiting-lease"}
TerminalStatuses == {"delivered", "manual-required", "cancelled"}
Statuses == Waiting \cup TerminalStatuses
              \cup {"waiting-agent-session", "writing", "verifying", "retry-wait"}

NoDraft == [rev |-> -1, mode |-> "none"]
NoOp == [id |-> -1, phase |-> "none", attempt |-> 0, closed |-> FALSE]
NoHold == [auto |-> "none", manual |-> "none"]
Idle == [at |-> "idle", by |-> "none", moved |-> "no"]

\* The record of a new delivery; hw is the revision high-water of the edits, if any,
\* floor that of the manual operations, prior an unknown delivery by an older release.
NewRecord == [status |-> "waiting-agent-session", attempts |-> 0, began |-> FALSE,
              sealed |-> FALSE, prior |-> FALSE, gen |-> 0, deadline |-> "none", rev |-> 0,
              hw |-> -1, edits |-> "open", op |-> NoOp, floor |-> -1]
NoRecord == [NewRecord EXCEPT !.status = "none"]
LegacyRecord == [NewRecord EXCEPT !.status = "manual-required", !.sealed = TRUE, !.prior = TRUE]

Init ==
    /\ task = "open" /\ owner = "active" /\ agent = [gen |-> 0, state |-> "gone"]
    /\ \/ "fresh" \in Histories /\ rec = NoRecord /\ draft = [rev |-> 0, mode |-> "automatic"]
       \/ "legacy" \in Histories /\ rec = LegacyRecord
                                 /\ draft = [rev |-> 0, mode |-> "manual-only"]
    /\ late = FALSE /\ lease = NoHold /\ turn = Idle /\ tracked = FALSE /\ finalizer = -1
    /\ faults = 0
    /\ screen = [auto |-> IF rec.prior THEN 1 ELSE 0, absent |-> FALSE,
                 manual |-> [i \in Revisions |-> 0], whole |-> {}, confirmed |-> {}, open |-> {},
                 said |-> {}]

-----------------------------------------------------------------------------
(* The reducer of the automatic delivery, and the records the journal takes. *)

Terminal(r) == r.status \in TerminalStatuses
PossibleWrite(r) == r.prior \/ r.attempts > 0 \/ r.status \in {"writing", "verifying"}
PriorWrite(r) == r.prior \/ r.began \/ r.attempts > 0

NextStatus(r, event) ==
    CASE event = "session-available" /\ r.status = "waiting-agent-session" -> "waiting-ready"
      [] event = "ready-stable" /\ r.status = "waiting-ready" -> "waiting-lease"
      [] event = "write-started" /\ r.status \in {"waiting-lease", "retry-wait"} -> "writing"
      [] event = "write-rejected-before-bytes" /\ r.status = "writing" -> "waiting-ready"
      [] event = "write-accepted" /\ r.status = "writing" /\ r.attempts < 2 -> "verifying"
      [] event = "evidence-delivered" /\ r.status = "verifying" -> "delivered"
      [] event = "evidence-absence-proven" /\ r.status = "verifying" ->
            IF r.attempts = 1 THEN "retry-wait" ELSE "manual-required"
      [] event = "retry-not-safe" /\ r.status = "retry-wait" -> "manual-required"
      [] event = "verification-inconclusive" /\ r.status \in Waiting \cup {"verifying"} ->
            "manual-required"
      [] event \in {"write-outcome-ambiguous", "agent-exited", "lease-taken-over"}
            /\ ~Terminal(r) -> "manual-required"
      [] event = "generation-changed" /\ ~Terminal(r) ->
            IF PossibleWrite(r) THEN "manual-required" ELSE "waiting-ready"
      [] event = "edit-accepted" /\ r.status \notin {"delivered", "cancelled"} ->
            IF PossibleWrite(r) THEN "manual-required" ELSE "cancelled"
      [] event = "automation-sealed" /\ ~Terminal(r) ->
            IF PriorWrite(r) \/ PossibleWrite(r) THEN "manual-required" ELSE "cancelled"
      [] event = "task-closing" /\ ~Terminal(r) ->
            IF PossibleWrite(r) THEN "manual-required" ELSE "cancelled"
      [] OTHER -> r.status

ReduceRetrying(r, event) ==  \* mutant: an unknown outcome sends the delivery back to wait
    [r EXCEPT !.status = IF event = "write-outcome-ambiguous" /\ ~Terminal(r)
                         THEN "waiting-ready" ELSE NextStatus(r, event),
              !.attempts = IF event \in {"write-accepted", "write-outcome-ambiguous"}
                              /\ r.status = "writing" /\ @ < 2 THEN @ + 1 ELSE @]

Reduce(r, event) ==
    [r EXCEPT !.status = NextStatus(r, event),
              !.attempts = IF event = "write-accepted" /\ r.status = "writing" /\ @ < 2
                             THEN @ + 1 ELSE @]

Settled(op) == \/ op.phase \in {"completed", "manual-reconciliation-required", "reconciled"}
               \/ op.phase = "failed-before-write" /\ op.closed
PreIntent(op) == op.phase \in {"automation-sealed", "confirmation-required"}

\* What the journal demands of a record; it refuses to store any other.
Coherent(r) ==
    /\ r.hw \in {-1, r.rev}
    /\ r.op # NoOp => r.sealed
    /\ r.op.closed => r.op.phase = "failed-before-write"
    /\ r.attempts > 0 => r.began
    /\ r.prior => r.sealed /\ r.status = "manual-required"
    /\ r.sealed => Terminal(r)
    /\ CASE r.status = "waiting-agent-session" ->
              r.attempts = 0 /\ r.gen = 0 /\ r.deadline = "none" /\ ~r.began
         [] r.status \in Waiting -> r.gen > 0 /\ r.attempts <= 1 /\ (r.began <=> r.attempts > 0)
         [] r.status = "writing" -> r.gen > 0 /\ r.attempts <= 1
         [] r.status = "retry-wait" -> r.gen > 0 /\ r.attempts = 1
         [] r.status \in {"verifying", "delivered"} -> r.gen > 0 /\ r.attempts > 0
         [] r.status = "cancelled" -> r.attempts = 0 /\ ~r.began
         [] OTHER -> TRUE

OpAt(r, phase) == [r EXCEPT !.op.phase = phase]
Failed(r, closing) == [r EXCEPT !.op.phase = "failed-before-write", !.op.closed = closing]
Ambiguous(r) == OpAt(r, "manual-reconciliation-required")

-----------------------------------------------------------------------------
(* Turns.  Who runs one: observe, manual, finalize, resolve, drain, repair. *)

Open == task = "open" /\ owner = "active"
Turn(by, r, id) == [at |-> "start", by |-> by, r |-> r, id |-> id, moved |-> "no",
                    why |-> "none"]
NoTurn == turn = Idle

\* What others do happens between turns and at the steps of a turn that look at it;
\* anywhere else it commutes with the turn's own steps up to the next of those.
LooksAt(steps) == NoTurn \/ turn.at \in steps

\* The timer that finishes an accepted operation keeps the request it was armed with.
Scheduled(id) == IF finalizer = -1 THEN id ELSE finalizer

\* The turn t ends with the record r; the automatic lease is afterwards as in auto.
Ends(t, r, auto) ==
    /\ turn' = Idle
    /\ lease' = [auto |-> auto, manual |-> "none"]
    /\ tracked' = CASE t.by \in {"observe", "repair"} -> ~Terminal(r)
                    [] t.by = "drain" -> FALSE
                    [] OTHER -> tracked
    /\ owner' = IF t.by = "repair" THEN "active" ELSE owner
    /\ task' = IF t.by = "drain" THEN "drained" ELSE task
    /\ finalizer' = CASE t.by \in {"manual", "finalize"} /\ r.op.phase = "write-accepted" ->
                            Scheduled(t.id)
                      [] t.by = "drain" -> -1
                      [] t.by \in {"manual", "finalize"} /\ finalizer = t.id -> -1
                      [] OTHER -> finalizer

ThrowsUntracked(t, auto) ==  \* mutant: a failed turn is not observed again
    /\ turn' = Idle /\ tracked' = FALSE
    /\ lease' = [auto |-> auto, manual |-> "none"]
    /\ owner' = IF t.by = "repair" THEN "down" ELSE owner
    /\ finalizer' = IF t.by = "manual" THEN Scheduled(t.id) ELSE finalizer
    /\ UNCHANGED task

\* The turn t rejects: the runtime observes again, a manual send is probed later, an
\* activation has failed.
Throws(t, auto) ==
    /\ turn' = Idle
    /\ lease' = [auto |-> auto, manual |-> "none"]
    /\ owner' = IF t.by = "repair" THEN "down" ELSE owner
    /\ finalizer' = IF t.by = "manual" THEN Scheduled(t.id) ELSE finalizer
    /\ UNCHANGED <<tracked, task>>

GoesOn(t, at, r) == turn' = [t EXCEPT !.at = at, !.r = r]
                    /\ UNCHANGED <<lease, tracked, owner, task, finalizer>>

Fault(kind) == kind \in Faults /\ faults < MaxFaults /\ faults' = faults + 1

\* The deadline that may have passed is over when the record has another or waits no more.
Becomes(r) ==
    /\ rec' = r
    /\ late' = /\ late /\ ~Terminal(r) /\ r.deadline = rec.deadline
               /\ (r.status = "verifying") = (rec.status = "verifying")

StoreAny(t, r, Then) ==  \* mutant: the journal takes any record
    \/ Becomes(r) /\ Then /\ UNCHANGED faults
    \/ Fault("save") /\ Throws(t, lease.auto) /\ UNCHANGED <<rec, late>>

\* The turn t saves the record r, and then does what Then says.
Store(t, r, Then) ==
    \/ Coherent(r) /\ Becomes(r) /\ Then /\ UNCHANGED faults
    \/ Coherent(r) /\ Fault("save") /\ Throws(t, lease.auto) /\ UNCHANGED <<rec, late>>
    \/ ~Coherent(r) /\ Throws(t, lease.auto) /\ UNCHANGED <<rec, late, faults>>

NoStore == UNCHANGED <<rec, late, faults>>

\* The draft is cleared if it still is revision rev, and the edits are sealed with it.
Cleared(rev) ==
    IF draft # NoDraft /\ draft.rev # rev THEN rec
    ELSE IF task = "removed" \/ rec = NoRecord THEN rec
    ELSE [rec EXCEPT !.hw = rev, !.edits = "sealed"]

Clear(t, rev, Then, Else) ==
    \/ /\ Coherent(Cleared(rev)) /\ Becomes(Cleared(rev)) /\ Then
       /\ draft' = IF draft.rev = rev THEN NoDraft ELSE draft
       /\ UNCHANGED faults
    \/ ~Coherent(Cleared(rev)) /\ Else /\ UNCHANGED <<rec, late, draft, faults>>
    \/ Fault("clear") /\ Else /\ UNCHANGED <<rec, late, draft>>

-----------------------------------------------------------------------------
(* Automatic delivery.  An observation carries what the supervision said when it    *)
(* was taken; what it decides is stored, and may lead to a write.                   *)

Queue ==
    /\ NoTurn /\ Open /\ rec = NoRecord /\ draft.mode = "automatic"
    /\ rec' = NewRecord /\ tracked' = TRUE
    /\ UNCHANGED <<task, owner, draft, agent, late, lease, turn, finalizer, faults, screen>>

Due(r) == late /\ r.status \in Waiting \cup {"verifying"}

SettlesKeepingLease(t, event) ==  \* mutant: settling does not give the lease back
    LET r == Reduce(t.r, event) IN Store(t, r, Ends(t, r, lease.auto))

Settles(t, event) == LET r == Reduce(t.r, event) IN Store(t, r, Ends(t, r, "none"))

\* No runtime: only what is overdue or unsafe is settled.
Expire(t) ==
    CASE t.r.status = "retry-wait" -> Settles(t, "retry-not-safe")
      [] Due(t.r) -> Settles(t, "verification-inconclusive")
      [] OTHER -> Ends(t, t.r, lease.auto) /\ NoStore

\* The first session, or another generation: a deadline starts, and is extended once.
NewSession(t) ==
    LET first == t.r.status = "waiting-agent-session"
        moves == first \/ (~t.r.began /\ t.r.attempts = 0 /\ t.r.deadline = "first")
        event == IF first THEN "session-available" ELSE "generation-changed"
        next == Reduce(t.r, event)
        r == [next EXCEPT !.gen = IF Terminal(next) THEN @ ELSE agent.gen,
                          !.deadline = IF moves THEN IF first THEN "first" ELSE "extended"
                                                ELSE @]
    IN Store(t, r, IF Terminal(r) THEN Ends(t, r, "none") ELSE GoesOn(t, "deadline", r))

\* Positive evidence counts at any time, its absence only before the deadline.
Verify(t) ==
    \/ LET r == Reduce(t.r, "evidence-delivered") IN
       Store(t, r, GoesOn(t, "clear", r)) /\ UNCHANGED screen
    \/ Due(t.r) /\ Settles(t, "verification-inconclusive") /\ UNCHANGED screen
    \/ ~Due(t.r) /\ Ends(t, t.r, lease.auto) /\ NoStore /\ UNCHANGED screen
    \/ LET r == Reduce(t.r, "evidence-absence-proven") IN
       /\ ~Due(t.r)
       /\ Store(t, r, IF Terminal(r) THEN Ends(t, r, "none") ELSE GoesOn(t, "dispatch", r))
       /\ screen' = [screen EXCEPT !.absent = TRUE]

Ready(t) ==
    \/ LET r == Reduce(t.r, "ready-stable") IN
       agent.state = "idle" /\ Store(t, r, GoesOn(t, "dispatch", r))
    \/ IF t.r.status = "retry-wait" THEN Settles(t, "retry-not-safe")
                                    ELSE Ends(t, t.r, lease.auto) /\ NoStore

Observe ==
    LET t == Turn("observe", rec, -1) IN
    /\ NoTurn /\ Open /\ tracked /\ rec # NoRecord
    /\ CASE Terminal(rec) ->
              /\ IF rec.status = "delivered" THEN GoesOn(t, "clear", rec)
                                             ELSE Ends(t, rec, "none")
              /\ NoStore /\ UNCHANGED screen
         [] rec.status = "writing" ->
              Settles(t, "write-outcome-ambiguous") /\ UNCHANGED screen
         [] ~Terminal(rec) /\ rec.status # "writing" /\ agent.state = "gone" ->
              /\ \/ Expire(t)
                 \/ agent.gen > 0 /\ Settles(t, "agent-exited")
              /\ UNCHANGED screen
         [] ~Terminal(rec) /\ rec.status # "writing" /\ agent.state \in {"busy", "idle"} ->
              IF rec.gen # agent.gen THEN NewSession(t) /\ UNCHANGED screen
              ELSE IF Due(rec) /\ rec.status # "verifying"
                THEN Settles(t, "verification-inconclusive") /\ UNCHANGED screen
              ELSE IF rec.status = "verifying" THEN Verify(t)
              ELSE Ready(t) /\ UNCHANGED screen
    /\ UNCHANGED <<draft, agent>>

At(pc) == turn # Idle /\ turn.at = pc
Quiet == UNCHANGED <<draft, agent, screen>>

\* A new session that is already overdue is given up in the same turn.
Deadline ==
    /\ At("deadline") /\ Quiet
    /\ IF Due(turn.r) THEN Settles(turn, "verification-inconclusive")
                      ELSE Ends(turn, turn.r, lease.auto) /\ NoStore

\* A delivered draft is cleared; the leases go whatever comes of it.
ClearDelivered ==
    /\ At("clear") /\ UNCHANGED <<agent, screen>>
    /\ Clear(turn, turn.r.rev, Ends(turn, turn.r, "none"), Throws(turn, "none"))

\* The exact draft is loaded and the command lease acquired, or the turn is over.
\* The returns for a closed service are out of reach: the runtime waits for its
\* observations before it closes the service.
Dispatch ==
    /\ At("dispatch") /\ Quiet
    /\ \/ Due(turn.r) /\ Settles(turn, "verification-inconclusive")
       \/ ~Due(turn.r) /\ lease.auto = "none" /\ Ends(turn, turn.r, "none") /\ NoStore
       \/ /\ ~Due(turn.r) /\ (lease.auto # "none" \/ Open)
          /\ turn' = [turn EXCEPT !.at = "intent"]
          /\ lease' = [lease EXCEPT !.auto = IF @ = "none" THEN "held" ELSE @]
          /\ NoStore /\ UNCHANGED <<tracked, owner, task, finalizer>>

\* The intent to write is durable before the first byte.
Intent ==
    /\ At("intent") /\ turn.by = "observe" /\ Quiet
    /\ IF Due(turn.r) THEN Settles(turn, "verification-inconclusive")
       ELSE LET r == Reduce(turn.r, "write-started") IN Store(turn, r, GoesOn(turn, "begin", r))

BeginUnsaved ==  \* mutant: the write begins before the journal says so
    At("begin") /\ Quiet /\ GoesOn(turn, "admit", [turn.r EXCEPT !.began = TRUE]) /\ NoStore

Begin ==
    /\ At("begin") /\ Quiet
    /\ LET r == [turn.r EXCEPT !.began = TRUE] IN Store(turn, r, GoesOn(turn, "admit", r))

-----------------------------------------------------------------------------
(* Admission: the two frames of a prompt, evaluated before each. *)

Mine == IF turn.by = "observe" THEN lease.auto ELSE lease.manual

Rejection ==
    IF agent.state = "gone" \/ turn.moved = "generation" THEN "agent"
    ELSE IF Mine # "held" THEN "lease"
    ELSE IF turn.moved = "version" THEN "agent"
    ELSE IF ~Open THEN "closing"
    ELSE IF agent.state # "idle" THEN "agent" ELSE "none"

\* The terminal receives the first frame of turn t, which may be all of it.
Received(t, whole) ==
    IF t.by = "observe"
    THEN [screen EXCEPT !.auto = @ + 1, !.absent = FALSE,
                        !.whole = IF whole THEN @ \cup {t.r.rev} ELSE @]
    ELSE [screen EXCEPT !.manual[t.id] = @ + 1, !.open = @ \cup {t.id},
                        !.whole = IF whole THEN @ \cup {t.id} ELSE @]

Admit ==
    /\ At("admit") /\ UNCHANGED <<draft, late, agent>>
    /\ UNCHANGED <<lease, tracked, owner, task, finalizer, rec>>
    /\ \/ \E why \in {Rejection} \cup (IF Open THEN {} ELSE {"closing"}) :
            /\ why # "none"
            /\ turn' = [turn EXCEPT !.at = "rejected", !.why = why, !.moved = "no"]
            /\ UNCHANGED <<screen, faults>>
       \/ /\ Rejection = "none" /\ UNCHANGED faults
          /\ \E whole \in BOOLEAN :
               /\ turn' = [turn EXCEPT !.at = IF whole THEN "accepted" ELSE "submit"]
               /\ screen' = Received(turn, whole)
       \/ /\ Rejection = "none" /\ Fault("write")
          /\ turn' = [turn EXCEPT !.at = "ambiguous", !.moved = "no"]
          /\ screen' \in {screen, Received(turn, FALSE)}

Submit ==
    /\ At("submit") /\ UNCHANGED <<draft, late, agent>>
    /\ UNCHANGED <<lease, tracked, owner, task, finalizer, rec>>
    /\ \/ /\ Rejection # "none" /\ UNCHANGED <<screen, faults>>
          /\ turn' = [turn EXCEPT !.at = "ambiguous", !.moved = "no"]
       \/ /\ Rejection = "none" /\ UNCHANGED faults
          /\ turn' = [turn EXCEPT !.at = "accepted"]
          /\ screen' = [screen EXCEPT !.whole = @ \cup {IF turn.by = "observe" THEN turn.r.rev
                                                                             ELSE turn.id}]
       \/ /\ Rejection = "none" /\ Fault("write") /\ UNCHANGED screen
          /\ turn' = [turn EXCEPT !.at = "ambiguous", !.moved = "no"]

\* Nothing was written: the intent is taken back.
Rejected ==
    /\ At("rejected") /\ Quiet
    /\ IF turn.by # "observe"
       THEN LET r == Failed(turn.r, turn.why = "closing")
            IN Store(turn, r, Ends(turn, r, lease.auto))
       ELSE LET r == [Reduce(turn.r, "write-rejected-before-bytes") EXCEPT
                        !.began = turn.r.attempts > 0]
            IN Store(turn, r, IF turn.why = "agent" THEN Ends(turn, r, "none")
                                                    ELSE GoesOn(turn, "withdrawn", r))

Withdrawn ==
    /\ At("withdrawn") /\ Quiet
    /\ Settles(turn, IF turn.why = "closing" THEN "task-closing" ELSE "lease-taken-over")

AmbiguousIsAccepted ==  \* mutant: a failed write after the first frame counts as accepted
    At("ambiguous") /\ Quiet /\ GoesOn(turn, "accepted", turn.r) /\ NoStore

OutcomeAmbiguous ==
    /\ At("ambiguous") /\ Quiet
    /\ IF turn.by = "observe" THEN Settles(turn, "write-outcome-ambiguous")
       ELSE Store(turn, Ambiguous(turn.r), Ends(turn, Ambiguous(turn.r), lease.auto))

\* The write is accepted: an automatic one is verified, a manual one clears the draft.
Accepted ==
    /\ At("accepted") /\ UNCHANGED <<draft, screen, agent>>
    /\ IF turn.by = "observe"
       THEN LET r == Reduce(turn.r, "write-accepted")
            IN Store(turn, r, Ends(turn, r, lease.auto))
       ELSE LET r == OpAt(turn.r, "write-accepted")
            IN Store(turn, r, GoesOn(turn, "settle", r))

-----------------------------------------------------------------------------
(* Manual sends. *)

\* A request for draft revision id, to send it or to retry a proven failure; the user
\* may confirm that an earlier automatic write is possible.  Refused requests that
\* change nothing are left out.
Operation(r, id, confirm) ==
    [id |-> id, attempt |-> 1, closed |-> FALSE,
     phase |-> IF PriorWrite(r) /\ ~confirm THEN "confirmation-required"
                                           ELSE "automation-sealed"]

Superseded(r) == IF r.op = NoOp THEN r.floor ELSE r.op.id
MaySupersede(op) == \/ op = NoOp \/ PreIntent(op) \/ op.phase = "failed-before-write"
                    \/ op.phase \in {"completed", "reconciled"}

Seal(r, id, confirm) ==
    LET s == [r EXCEPT !.sealed = TRUE, !.op = Operation(r, id, confirm),
                       !.floor = Superseded(r)]
    IN [s EXCEPT !.status = NextStatus(r, "automation-sealed")]

Renewed(r, more) == [r EXCEPT !.op.phase = "automation-sealed", !.op.attempt = @ + more]

Continues(t, id, confirm, retry) ==
    LET r == t.r IN
    \/ r.op.phase = "failed-before-write" /\ retry /\ r.op.attempt < MaxAttempts
       /\ Store(t, Renewed(r, 1), GoesOn(t, "check", Renewed(r, 1)))
    \/ r.op.phase = "confirmation-required" /\ confirm
       /\ Store(t, Renewed(r, 0), GoesOn(t, "check", Renewed(r, 0)))
    \/ r.op.phase = "automation-sealed" /\ GoesOn(t, "check", r) /\ NoStore

SendManually(id, confirm, retry) ==
    LET t == Turn("manual", rec, id)
        same == rec.op # NoOp /\ rec.op.id = id IN
    /\ NoTurn /\ Open /\ rec # NoRecord /\ UNCHANGED <<draft, agent>>
    /\ confirm => PriorWrite(rec)
    /\ \/ same /\ Settled(rec.op) /\ rec.op.phase # "failed-before-write"
          /\ finalizer = id /\ Ends(t, rec, lease.auto) /\ NoStore /\ UNCHANGED screen
       \/ same /\ rec.op.phase = "write-accepted"
          /\ GoesOn(t, "settle", rec) /\ NoStore /\ UNCHANGED screen
       \/ same /\ rec.op.phase = "write-intent-persisted"
          /\ Store(t, Ambiguous(rec), Ends(t, Ambiguous(rec), lease.auto)) /\ UNCHANGED screen
       \/ same /\ draft.rev = id /\ Continues(t, id, confirm, retry)
          /\ screen' = [screen EXCEPT !.confirmed = IF confirm THEN @ \cup {id} ELSE @]
       \/ /\ ~same /\ draft.rev = id /\ ~retry
          /\ MaySupersede(rec.op) /\ id > Superseded(rec)
          /\ LET r == Seal(rec, id, confirm) IN
             Store(t, r, IF r.op.phase = "confirmation-required"
                         THEN Ends(t, r, "none")
                         ELSE /\ turn' = [t EXCEPT !.at = "check", !.r = r]
                              /\ lease' = NoHold
                              /\ UNCHANGED <<tracked, owner, task, finalizer>>)
          /\ screen' = [screen EXCEPT !.confirmed = IF confirm THEN @ \cup {id} ELSE @]

\* The agent must be ready, in the generation the user saw, and the command lease free, or
\* the attempt is proven not sent.
Check ==
    /\ At("check") /\ Quiet
    /\ \/ Store(turn, Failed(turn.r, FALSE), Ends(turn, Failed(turn.r, FALSE), lease.auto))
       \/ /\ agent.state = "idle" /\ Open
          /\ turn' = [turn EXCEPT !.at = "intent"]
          /\ lease' = [lease EXCEPT !.manual = "held"]
          /\ NoStore /\ UNCHANGED <<tracked, owner, task, finalizer>>

ManualIntent ==
    /\ At("intent") /\ turn.by = "manual" /\ Quiet
    /\ LET r == OpAt(turn.r, "write-intent-persisted")
       IN Store(turn, r, GoesOn(turn, "admit", r))

\* The timer of an accepted operation probes it and finishes it.
Finalize ==
    LET t == Turn("finalize", rec, finalizer) IN
    /\ NoTurn /\ finalizer # -1 /\ owner = "active" /\ UNCHANGED <<draft, screen, agent>>
    /\ IF rec.op.id = finalizer /\ rec.op.phase = "write-accepted"
       THEN Open /\ GoesOn(t, "settle", rec) /\ NoStore
       ELSE /\ finalizer' = -1 /\ NoStore
            /\ UNCHANGED <<turn, lease, tracked, owner, task>>

\* An accepted operation clears its draft, and is then complete.
Settle ==
    /\ At("settle") /\ UNCHANGED <<agent, screen>>
    /\ Clear(turn, turn.r.op.id, GoesOn(turn, "complete", Cleared(turn.r.op.id)),
             IF turn.by \in {"manual", "finalize"} THEN Ends(turn, turn.r, lease.auto)
                                                   ELSE Throws(turn, "none"))

Complete ==
    /\ At("complete") /\ UNCHANGED <<draft, agent>>
    /\ LET r == [OpAt(turn.r, "completed") EXCEPT !.floor = turn.r.op.id]
       IN Store(turn, r, Ends(turn, r, IF turn.by = "drain" THEN "none" ELSE lease.auto))
    /\ screen' = [screen EXCEPT !.open = @ \ {turn.r.op.id}]

ResolveClears(sent) ==  \* mutant: whatever the user says, the draft goes
    LET t == Turn("resolve", rec, -1) IN
    /\ NoTurn /\ Open /\ rec.op.phase = "manual-reconciliation-required"
    /\ sent => screen.manual[rec.op.id] > 0
    /\ screen' = [screen EXCEPT !.said = IF sent THEN @ \cup {rec.op.id} ELSE @]
    /\ UNCHANGED <<draft, agent>> /\ NoStore
    /\ GoesOn(t, "observed-sent", rec)

\* The user says what became of an ambiguous operation; that it was sent clears the draft.
Resolve(sent) ==
    LET t == Turn("resolve", rec, -1) IN
    /\ NoTurn /\ Open /\ rec.op.phase = "manual-reconciliation-required"
    /\ sent => screen.manual[rec.op.id] > 0
    /\ screen' = [screen EXCEPT !.said = IF sent THEN @ \cup {rec.op.id} ELSE @]
    /\ UNCHANGED <<draft, agent>> /\ NoStore
    /\ GoesOn(t, IF sent THEN "observed-sent" ELSE "reconcile", rec)

ClearObserved ==
    /\ At("observed-sent") /\ UNCHANGED <<agent, screen>>
    /\ Clear(turn, turn.r.op.id, GoesOn(turn, "reconcile", Cleared(turn.r.op.id)),
             Throws(turn, lease.auto))

Reconcile ==
    /\ At("reconcile") /\ UNCHANGED <<draft, agent>>
    /\ LET r == [OpAt(turn.r, "reconciled") EXCEPT !.floor = turn.r.op.id]
       IN Store(turn, r, Ends(turn, r, lease.auto))
    /\ screen' = [screen EXCEPT !.open = @ \ {turn.r.op.id}]

\* An edit revises draft and record in one mutation.
EditedRecord == [Reduce(rec, "edit-accepted") EXCEPT !.rev = draft.rev + 1,
                                                     !.hw = draft.rev + 1, !.edits = "open"]

CanEdit == NoTurn /\ Open /\ rec # NoRecord /\ draft # NoDraft /\ rec.edits = "open"

Edit ==
    /\ CanEdit /\ draft.rev < MaxRevision
    /\ IF Coherent(EditedRecord)
       THEN /\ Becomes(EditedRecord) /\ draft' = [rev |-> draft.rev + 1, mode |-> "manual-only"]
            /\ lease' = [lease EXCEPT !.auto = "none"]
       ELSE UNCHANGED <<rec, late, draft, lease>>
    /\ UNCHANGED <<task, owner, agent, turn, tracked, finalizer, faults, screen>>

-----------------------------------------------------------------------------
(* Removal of the task. *)

OpenMatters == LooksAt({"dispatch", "admit", "submit"})

CloseTask == task = "open" /\ OpenMatters /\ task' = "closing" /\ UNCHANGED <<rec, late>>
             /\ UNCHANGED <<owner, lease, turn, tracked, finalizer, faults>> /\ Quiet

\* A removal that has not begun to drain may be given up.
ReopenTask == task = "closing" /\ OpenMatters /\ Fault("reopen")
              /\ task' = "open" /\ UNCHANGED <<rec, late>>
              /\ UNCHANGED <<owner, lease, turn, tracked, finalizer>> /\ Quiet

Drained(r) ==
    LET s == IF Terminal(r) THEN r ELSE Reduce(r, "task-closing") IN
    IF r.op = NoOp \/ Settled(r.op) THEN s
    ELSE IF r.op.phase = "write-intent-persisted" THEN Ambiguous(s) ELSE Failed(s, TRUE)

Drain ==
    LET t == Turn("drain", rec, -1) IN
    /\ NoTurn /\ task = "closing" /\ owner = "active" /\ Quiet
    /\ IF rec.op.phase = "write-accepted" THEN GoesOn(t, "settle", rec) /\ NoStore
       ELSE IF rec = NoRecord \/ Drained(rec) = rec THEN Ends(t, rec, "none") /\ NoStore
       ELSE Store(t, Drained(rec), Ends(t, Drained(rec), "none"))

\* The canonical removal takes the draft away; the record is deleted afterwards.
CommitRemoval ==
    /\ task = "drained" /\ NoTurn /\ owner = "active"
    /\ task' = "removed" /\ draft' = NoDraft
    /\ UNCHANGED <<owner, rec, agent, late, lease, turn, tracked, finalizer, faults, screen>>

FinalizeRemoval ==
    /\ task = "removed" /\ NoTurn /\ owner = "active" /\ rec # NoRecord
    /\ rec' = NoRecord /\ tracked' = FALSE /\ finalizer' = -1
    /\ UNCHANGED <<task, owner, draft, agent, late, lease, turn, faults, screen>>

-----------------------------------------------------------------------------
(* The server dies or is stopped, and repairs the journal when it starts again. *)

Dies == owner' = "down" /\ turn' = Idle /\ lease' = NoHold /\ tracked' = FALSE /\ finalizer' = -1
        /\ agent' = [agent EXCEPT !.state = "gone"]

Crash == /\ owner # "down" /\ Fault("crash") /\ Dies
         /\ UNCHANGED <<task, draft, rec, late, screen>>

\* Stopping, the owner goes dark at once; it waits for a turn of the runtime's own, and
\* not for one that a request or a removal runs.
Stop == /\ owner = "active" /\ Fault("stop") /\ owner' = "stopping" /\ finalizer' = -1
        /\ UNCHANGED <<task, draft, rec, agent, late, lease, turn, tracked, screen>>

Exit == /\ owner = "stopping" /\ (NoTurn \/ turn.by \in {"manual", "resolve", "drain"}) /\ Dies
        /\ UNCHANGED <<task, draft, rec, late, faults, screen>>

Start ==
    LET t == Turn("repair", rec, -1) IN
    /\ owner = "down" /\ Quiet /\ NoStore
    /\ UNCHANGED <<lease, tracked, task, finalizer>>
    /\ IF rec = NoRecord THEN owner' = "active" /\ UNCHANGED turn
                         ELSE owner' = "repair" /\ turn' = [t EXCEPT !.at = "repair"]

\* An unfinished delivery that may have written is left to the user.
Repair ==
    /\ At("repair") /\ Quiet
    /\ LET r == [turn.r EXCEPT !.status = "manual-required"] IN
       IF ~Terminal(turn.r) /\ (turn.r.began \/ turn.r.attempts > 0
                                \/ turn.r.status \in {"writing", "verifying", "retry-wait"})
       THEN Store(turn, r, GoesOn(turn, "repair-op", r))
       ELSE GoesOn(turn, "repair-op", turn.r) /\ NoStore

\* A manual operation before its intent was not sent, one after it may have been.
RepairOperation ==
    LET r == turn.r
        fixed == IF r.op.phase = "automation-sealed" THEN Failed(r, FALSE)
                 ELSE IF r.op.phase = "write-intent-persisted" THEN Ambiguous(r) ELSE r
    IN /\ At("repair-op") /\ Quiet
       /\ CASE r.op = NoOp \/ Settled(r.op) ->
                 (IF r.status = "delivered" THEN GoesOn(turn, "clear", r)
                                            ELSE Ends(turn, r, "none")) /\ NoStore
            [] r.op.phase = "confirmation-required" -> Ends(turn, r, "none") /\ NoStore
            [] r.op.phase = "write-accepted" -> GoesOn(turn, "settle", r) /\ NoStore
            [] OTHER -> Store(turn, fixed, Ends(turn, fixed, "none"))

-----------------------------------------------------------------------------
(* The agent, the user who takes control, and time. *)
Outside == UNCHANGED <<task, owner, draft, rec, tracked, finalizer, faults, screen>>
AgentMatters == IF NoTurn THEN rec # NoRecord /\ ~Terminal(rec)
                          ELSE turn.at \in {"check", "admit", "submit"}
Moves(what) == turn' = IF NoTurn \/ turn.at = "check" THEN turn ELSE [turn EXCEPT !.moved = what]

\* A session starts, or one that was out of sight is found again in its generation.
AgentStarts ==
    /\ owner # "down" /\ agent.state = "gone" /\ AgentMatters /\ Outside
    /\ \E gen \in {agent.gen + 1} \cup {agent.gen} :
          /\ gen \in 1 .. MaxGeneration
          /\ agent' = [gen |-> gen, state |-> "busy"]
          /\ Moves(IF gen = agent.gen THEN turn.moved ELSE "generation")
    /\ UNCHANGED <<late, lease>>

AgentTurns ==
    /\ agent.state # "gone" /\ AgentMatters /\ Outside
    /\ \E s \in {"busy", "idle", "gone"} \ {agent.state} : agent' = [agent EXCEPT !.state = s]
    /\ Moves(IF turn.moved = "generation" THEN "generation" ELSE "version")
    /\ UNCHANGED <<late, lease>>

TakeControl ==
    /\ "held" \in {lease.auto, lease.manual} /\ LooksAt({"admit", "submit"}) /\ ~NoTurn
    /\ Outside
    /\ lease' = [k \in DOMAIN lease |-> IF lease[k] = "held" THEN "lost" ELSE lease[k]]
    /\ UNCHANGED <<agent, late, turn>>

\* The deadline passes: the one for readiness, kept when a write is rejected, or the one
\* for verification, which starts afresh.
Elapse ==
    /\ ~late /\ rec.status \in Waiting \cup {"verifying"} /\ late' = TRUE
    /\ LooksAt({"deadline", "dispatch", "intent"})
    /\ Outside /\ UNCHANGED <<agent, lease, turn>>

-----------------------------------------------------------------------------

Work == \/ Deadline \/ ClearDelivered \/ Dispatch \/ Intent \/ Begin
        \/ Admit \/ Submit \/ Rejected \/ Withdrawn \/ OutcomeAmbiguous \/ Accepted
        \/ Check \/ ManualIntent \/ Settle \/ Complete \/ ClearObserved \/ Reconcile
        \/ Repair \/ RepairOperation

User == \/ \E id \in Revisions, confirm, retry \in BOOLEAN : SendManually(id, confirm, retry)
        \/ \E sent \in BOOLEAN : Resolve(sent)
        \/ Edit

Removal == CloseTask \/ ReopenTask \/ Drain \/ CommitRemoval \/ FinalizeRemoval

Environment == AgentStarts \/ AgentTurns \/ TakeControl \/ Elapse \/ Crash \/ Stop

Next == \/ Queue \/ Observe \/ Finalize \/ Work \/ User \/ Removal
        \/ Exit \/ Start \/ Environment

\* An observation that does not hang on what the agent shows: nothing is forced by the
\* timers that fire while the delivery waits for evidence within its deadline.
Overdue == /\ Observe
           /\ rec.status \in Waiting \cup {"verifying"} => Due(rec) \/ rec.gen # agent.gen

\* The server's one event loop: a running turn goes on, the runtime's timers fire, a removal
\* resumes, a server that stopped is started again.  Deadlines pass: strongly fair, for the
\* model lets time pass only at the steps that look at the clock.
Server == Work \/ Overdue \/ Finalize \/ Drain \/ CommitRemoval \/ FinalizeRemoval
            \/ Exit \/ Start

Spec == Init /\ [][Next]_vars /\ WF_vars(Server) /\ SF_vars(Elapse)

-----------------------------------------------------------------------------
(* Properties. *)

TypeOK ==
    /\ task \in {"open", "closing", "drained", "removed"}
    /\ owner \in {"down", "repair", "active", "stopping"}
    /\ draft = NoDraft \/ draft.rev \in Revisions
    /\ rec = NoRecord \/ (Coherent(rec) /\ rec.status \in Statuses)
    /\ rec.op = NoOp \/ rec.op.id \in 0 .. rec.rev
    /\ finalizer \in Revisions \cup {-1}
    /\ \A k \in DOMAIN lease : lease[k] \in {"none", "held", "lost"}
    /\ tracked \in BOOLEAN

\* No write is repeated blindly.  The server writes a second time only after it has seen
\* that the first write did not arrive, and never after the user has sent by hand; a
\* manual operation writes once, only if the user has confirmed that an automatic write
\* may have come first, and not while what became of another operation is open.
NoBlindRewrite ==
    [][/\ screen.auto' # screen.auto =>
             /\ screen.auto = 0 \/ screen.absent
             /\ \A i \in Revisions : screen.manual[i] = 0
       /\ \A i \in Revisions : screen.manual'[i] # screen.manual[i] =>
             /\ screen.manual[i] = 0 /\ screen.open = {}
             /\ screen.auto = 0 \/ i \in screen.confirmed]_vars

\* The journal never says less than the terminal knows: once a byte was written the durable
\* record admits a prior write, and an operation it calls proven not sent has sent nothing.
JournalAdmitsWrites ==
    rec # NoRecord =>
        /\ screen.auto > 0 => PriorWrite(rec)
        /\ rec.op # NoOp /\ screen.manual[rec.op.id] > 0 =>
              ~PreIntent(rec.op) /\ rec.op.phase # "failed-before-write"

\* What is reported as done was done: a delivered prompt and a completed operation have
\* reached the terminal whole.
DoneWasWritten ==
    /\ rec.status = "delivered" => 0 \in screen.whole
    /\ rec.op.phase \in {"write-accepted", "completed"} => rec.op.id \in screen.whole

\* No text is lost: the canonical draft is cleared only in the revision that the terminal
\* received whole or the user reported as sent, or with its task.  The exception is a
\* delivered prompt whose clear failed at first: a revision made in between goes with it.
ClearsOnlySentText ==
    [][draft # NoDraft /\ draft' = NoDraft /\ task' # "removed" =>
          \/ draft.rev \in screen.whole \cup screen.said
          \/ rec.status = "delivered" /\ screen.whole # {}]_vars

\* Between turns a delivery that is over retains no command lease, and a manual send none.
LeaseGivenBack ==
    NoTurn => /\ lease.manual = "none"
              /\ rec = NoRecord \/ Terminal(rec) => lease.auto = "none"

\* An automatic delivery that has begun comes to an end, by evidence or by its deadline.
DeliverySettles == rec.status \in Waiting \cup {"writing", "verifying", "retry-wait"}
                       ~> rec = NoRecord \/ Terminal(rec)

\* An edit the service admits can be stored: the journal demands nothing of a record that
\* the reducer of the delivery does not grant it.
EditsAreStorable == CanEdit => Coherent(EditedRecord)

=============================================================================
