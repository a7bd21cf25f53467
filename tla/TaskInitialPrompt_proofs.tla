---------------------- MODULE TaskInitialPrompt_proofs ----------------------
(***************************************************************************)
(* Proofs about the delivery of the initial prompt, for any bounds, faults *)
(* and starting histories: the server never repeats a write blindly, the   *)
(* journal never says less than the terminal has received, no lease is     *)
(* kept, and no text is lost.                                              *)
(*                                                                         *)
(* The inductive invariant relates five things: the record, the history of *)
(* the terminal, the running turn's copy and place, the leases, the draft. *)
(***************************************************************************)
EXTENDS TaskInitialPrompt, TLAPS

Phases == {"none", "automation-sealed", "confirmation-required", "write-intent-persisted",
           "write-accepted", "completed", "manual-reconciliation-required", "reconciled",
           "failed-before-write"}
Holds == {"none", "held", "lost"}
Operators == {"observe", "manual", "finalize", "resolve", "drain", "repair"}

Operations == [id : Int, phase : Phases, attempt : Int, closed : BOOLEAN]

Records == [status : Statuses \cup {"none"}, attempts : Int, began : BOOLEAN,
            sealed : BOOLEAN, prior : BOOLEAN, gen : Int,
            deadline : {"none", "first", "extended"}, rev : Int, hw : Int,
            edits : {"open", "sealed"}, op : Operations, floor : Int]

Places == {"start", "deadline", "withdrawn", "dispatch", "intent", "begin", "admit", "rejected",
           "submit", "ambiguous", "accepted", "clear", "check", "settle", "complete",
           "observed-sent", "reconcile", "repair", "repair-op"}

Turns == [at : Places, by : Operators, r : Records, id : Int,
          moved : {"no", "version", "generation"}, why : {"none", "agent", "lease", "closing"}]

Screens == [auto : Nat, absent : BOOLEAN, manual : [Revisions -> Nat], whole : SUBSET Int,
            confirmed : SUBSET Int, open : SUBSET Int, said : SUBSET Int]

\* The values of the variables that no other conjunct speaks of.
Kinds ==
    /\ task \in {"open", "closing", "drained", "removed"}
    /\ owner \in {"down", "repair", "active", "stopping"}
    /\ agent \in [gen : Int, state : {"gone", "busy", "idle"}]
    /\ agent.state # "gone" => agent.gen > 0
    /\ tracked \in BOOLEAN
    /\ finalizer \in Revisions \cup {-1}
    /\ late \in BOOLEAN

\* The draft and the record are of one revision, and the draft of a removed task is gone.
DraftInv(d, r, k) ==
    /\ d = NoDraft \/ (d \in [rev : Revisions, mode : {"automatic", "manual-only"}]
                       /\ d.rev = r.rev)
    /\ k = "removed" => d = NoDraft

\* A stored record: what the journal demanded of it, and where its operation came from.
Stored(r) ==
    /\ r \in Records
    /\ r.rev \in Revisions
    /\ r # NoRecord => Coherent(r) /\ r.status \in Statuses
    /\ r # NoRecord /\ ~Terminal(r) => r.rev = 0
    /\ r.op # NoOp => r.op.id \in 0 .. r.rev /\ r.op.phase # "none"

\* The history s of the terminal is not beyond what the record r says of automatic writes,
\* nor of manual ones while the task is in state k.
AutoRecorded(r, s) ==
    /\ s.auto > 0 => PriorWrite(r)
    /\ r.status \in Waiting \cup {"waiting-agent-session", "retry-wait"} => s.auto = 0 \/ s.absent
    /\ r.status \in {"verifying", "delivered"} => 0 \in s.whole
ManualRecorded(r, s, k) ==
    /\ \A i \in Revisions : s.manual[i] > 0 => r.op # NoOp /\ i <= r.op.id
    /\ r.op # NoOp /\ s.manual[r.op.id] > 0 =>
          ~PreIntent(r.op) /\ r.op.phase # "failed-before-write"
    /\ r.op.phase \in {"write-accepted", "completed"} => r.op.id \in s.whole
    /\ \A i \in s.open : i = r.op.id /\ i \in Revisions /\ s.manual[i] > 0
    /\ r.op.phase \in {"completed", "reconciled"} => s.open = {}
    /\ r.op # NoOp => \/ r.op.phase = "confirmation-required" \/ s.auto = 0
                      \/ r.op.id \in s.confirmed \/ k \in {"drained", "removed"}

Untouched(s) == s.auto = 0 /\ s.open = {} /\ \A i \in Revisions : s.manual[i] = 0

HistoryInv(r, s, k) ==
    /\ s \in Screens
    /\ r # NoRecord => AutoRecorded(r, s) /\ ManualRecorded(r, s, k)
    /\ r = NoRecord => k = "removed" \/ Untouched(s)

\* A task that has drained has no delivery that could go on.
DrainedInv(r, k) == k \in {"drained", "removed"} => r = NoRecord \/ Terminal(r)

\* Where an automatic turn stands, and what the record r and the terminal s then say.
Writing(r, s) == /\ r.status = "writing"
                 /\ s.auto = 0 \/ s.absent
                 /\ s.auto > 0 => r.attempts > 0
AutoAt(at, r, s) ==
    \/ at \in {"deadline", "withdrawn"} /\ r.status = "waiting-ready"
    \/ at \in {"dispatch", "intent"} /\ r.status \in {"waiting-lease", "retry-wait"}
    \/ at = "begin" /\ Writing(r, s)
    \/ at \in {"admit", "rejected"} /\ Writing(r, s) /\ r.began
    \/ at \in {"submit", "ambiguous"} /\ r.status = "writing" /\ r.began
    \/ at = "accepted" /\ r.status = "writing" /\ r.began /\ 0 \in s.whole
    \/ at = "clear" /\ r.status = "delivered"

\* Where a manual send of operation i stands.
ManualAt(at, i, r, s) ==
    /\ r.op # NoOp /\ i = r.op.id
    /\ \/ at \in {"check", "intent"} /\ r.op.phase = "automation-sealed"
       \/ at \in {"admit", "rejected"} /\ r.op.phase = "write-intent-persisted" /\ s.manual[i] = 0
       \/ at \in {"submit", "ambiguous"} /\ r.op.phase = "write-intent-persisted"
       \/ at = "accepted" /\ r.op.phase = "write-intent-persisted" /\ i \in s.whole
       \/ at \in {"settle", "complete"} /\ r.op.phase = "write-accepted"

\* Where a turn run by who, for operation i, may stand.
Placed(who, at, i, r, s) ==
    \/ who = "observe" /\ AutoAt(at, r, s)
    \/ who = "manual" /\ ManualAt(at, i, r, s)
    \/ /\ who \in {"finalize", "drain", "repair"} /\ at \in {"settle", "complete"}
       /\ r.op.phase = "write-accepted"
       /\ who = "finalize" => i \in Revisions
    \/ /\ who = "resolve" /\ at \in {"observed-sent", "reconcile"}
       /\ r.op.phase = "manual-reconciliation-required"
       /\ at = "observed-sent" => r.op.id \in s.said
    \/ who = "repair" /\ at \in {"repair", "repair-op"}
    \/ who = "repair" /\ at = "clear" /\ r.status = "delivered"

\* A turn works on a copy of the record that nobody else has changed.
TurnInv(u, r, s) ==
    u # Idle => u \in Turns /\ u.r = r /\ r # NoRecord /\ Placed(u.by, u.at, u.id, r, s)

\* A delivery that is over keeps its lease at most until its draft is cleared.
LeaseInv(l, u, r) ==
    /\ l \in [auto : Holds, manual : Holds]
    /\ r = NoRecord \/ Terminal(r) => l.auto = "none" \/ (u # Idle /\ u.at = "clear")
    /\ u = Idle => l.manual = "none"

IInv ==
    /\ Kinds
    /\ Stored(rec)
    /\ DraftInv(draft, rec, task)
    /\ HistoryInv(rec, screen, task)
    /\ DrainedInv(rec, task)
    /\ TurnInv(turn, rec, screen)
    /\ LeaseInv(lease, turn, rec)

-----------------------------------------------------------------------------
(* The operators on records. *)

\* "No record" and "no operation" are told apart from stored ones by their status and id.
LEMMA Nothing ==
    /\ NoRecord \in Records /\ NoRecord.op = NoOp /\ NoRecord.rev = 0
    /\ NoRecord.status = "none" /\ ~Terminal(NoRecord)
    /\ NoRecord.hw = -1
    /\ NoOp \in Operations /\ NoOp.id = -1 /\ NoOp.phase = "none"
  <1>1. NoOp \in Operations /\ NoOp.id = -1 /\ NoOp.phase = "none"
    BY DEF NoOp, Operations, Phases
  <1>2. /\ NoRecord.op = NoOp /\ NoRecord.rev = 0 /\ NoRecord.status = "none" /\ NoRecord.hw = -1
    BY DEF NoRecord, NewRecord
  <1>3. NewRecord \in Records
    BY <1>1 DEF NewRecord, Records, Statuses
  <1>4. NoRecord \in Records
    BY <1>3 DEF NoRecord, Records
  <1> QED
    BY <1>1, <1>2, <1>4 DEF Terminal, TerminalStatuses

\* The reducer moves the status and, when a write is accepted, the attempts; nothing else.
LEMMA ReduceFields ==
    ASSUME NEW r \in Records, NEW e
    PROVE  /\ Reduce(r, e).status = NextStatus(r, e)
           /\ Reduce(r, e).attempts =
                IF e = "write-accepted" /\ r.status = "writing" /\ r.attempts < 2
                THEN r.attempts + 1 ELSE r.attempts
           /\ Reduce(r, e).began = r.began /\ Reduce(r, e).sealed = r.sealed
           /\ Reduce(r, e).prior = r.prior /\ Reduce(r, e).gen = r.gen
           /\ Reduce(r, e).deadline = r.deadline /\ Reduce(r, e).rev = r.rev
           /\ Reduce(r, e).hw = r.hw /\ Reduce(r, e).edits = r.edits
           /\ Reduce(r, e).op = r.op /\ Reduce(r, e).floor = r.floor
           /\ NextStatus(r, e) \in Statuses \cup {"none"} => Reduce(r, e) \in Records
  <1>1. /\ Reduce(r, e).status = NextStatus(r, e)
        /\ Reduce(r, e).attempts =
             IF e = "write-accepted" /\ r.status = "writing" /\ r.attempts < 2
             THEN r.attempts + 1 ELSE r.attempts
    BY DEF Reduce, Records
  <1>2. /\ Reduce(r, e).began = r.began /\ Reduce(r, e).sealed = r.sealed
        /\ Reduce(r, e).prior = r.prior /\ Reduce(r, e).gen = r.gen
        /\ Reduce(r, e).deadline = r.deadline /\ Reduce(r, e).rev = r.rev
        /\ Reduce(r, e).hw = r.hw /\ Reduce(r, e).edits = r.edits
        /\ Reduce(r, e).op = r.op /\ Reduce(r, e).floor = r.floor
    BY DEF Reduce, Records
  <1>3. ASSUME NextStatus(r, e) \in Statuses \cup {"none"}
        PROVE  Reduce(r, e) \in Records
    <2> DEFINE a == IF e = "write-accepted" /\ r.status = "writing" /\ r.attempts < 2
                    THEN r.attempts + 1 ELSE r.attempts
    <2>1. a \in Int
      BY DEF Records
    <2>2. Reduce(r, e) = [r EXCEPT !.status = NextStatus(r, e), !.attempts = a]
      BY DEF Reduce, Records
    <2> HIDE DEF a
    <2> QED
      BY <1>3, <2>1, <2>2 DEF Records
  <1> QED
    BY <1>1, <1>2, <1>3

\* What the events of a delivery make of its status.
LEMMA Outcomes ==
    ASSUME NEW r, r.status \in Statuses
    PROVE  /\ NextStatus(r, "session-available") =
                IF r.status = "waiting-agent-session" THEN "waiting-ready" ELSE r.status
           /\ NextStatus(r, "ready-stable") =
                IF r.status = "waiting-ready" THEN "waiting-lease" ELSE r.status
           /\ NextStatus(r, "write-started") =
                IF r.status \in {"waiting-lease", "retry-wait"} THEN "writing" ELSE r.status
           /\ NextStatus(r, "write-rejected-before-bytes") =
                IF r.status = "writing" THEN "waiting-ready" ELSE r.status
           /\ NextStatus(r, "write-accepted") =
                IF r.status = "writing" /\ r.attempts < 2 THEN "verifying" ELSE r.status
           /\ NextStatus(r, "evidence-delivered") =
                IF r.status = "verifying" THEN "delivered" ELSE r.status
           /\ NextStatus(r, "evidence-absence-proven") =
                IF r.status # "verifying" THEN r.status
                ELSE IF r.attempts = 1 THEN "retry-wait" ELSE "manual-required"
           /\ NextStatus(r, "retry-not-safe") =
                IF r.status = "retry-wait" THEN "manual-required" ELSE r.status
           /\ NextStatus(r, "verification-inconclusive") =
                IF r.status \in Waiting \cup {"verifying"} THEN "manual-required" ELSE r.status
           /\ \A e \in {"write-outcome-ambiguous", "agent-exited", "lease-taken-over"} :
                NextStatus(r, e) = IF Terminal(r) THEN r.status ELSE "manual-required"
           /\ NextStatus(r, "generation-changed") =
                IF Terminal(r) THEN r.status
                ELSE IF PossibleWrite(r) THEN "manual-required" ELSE "waiting-ready"
           /\ NextStatus(r, "edit-accepted") =
                IF r.status \in {"delivered", "cancelled"} THEN r.status
                ELSE IF PossibleWrite(r) THEN "manual-required" ELSE "cancelled"
           /\ NextStatus(r, "automation-sealed") =
                IF Terminal(r) THEN r.status
                ELSE IF PriorWrite(r) \/ PossibleWrite(r) THEN "manual-required" ELSE "cancelled"
           /\ NextStatus(r, "task-closing") =
                IF Terminal(r) THEN r.status
                ELSE IF PossibleWrite(r) THEN "manual-required" ELSE "cancelled"
  <1> QED BY DEF NextStatus, Statuses, Waiting, TerminalStatuses, Terminal

\* q differs from r in its operation, and in what seals the edits, at most.
SameDelivery(r, q) ==
    /\ q.status = r.status /\ q.attempts = r.attempts /\ q.began = r.began
    /\ q.sealed = r.sealed /\ q.prior = r.prior /\ q.gen = r.gen /\ q.rev = r.rev

\* A manual operation moves to another phase, and nothing else changes.
LEMMA OpAtFields ==
    ASSUME NEW r \in Records, NEW p \in Phases
    PROVE  /\ OpAt(r, p) \in Records /\ SameDelivery(r, OpAt(r, p))
           /\ OpAt(r, p).op.id = r.op.id /\ OpAt(r, p).op.phase = p
  <1>1. [r.op EXCEPT !.phase = p] \in Operations
    BY DEF Records, Operations
  <1>2. OpAt(r, p) = [r EXCEPT !.op = [r.op EXCEPT !.phase = p]]
    BY DEF OpAt, Records
  <1> DEFINE o == [r.op EXCEPT !.phase = p]
  <1>3. o.id = r.op.id /\ o.phase = p
    BY DEF Records, Operations
  <1> HIDE DEF o
  <1>4. [r EXCEPT !.op = o] \in Records /\ SameDelivery(r, [r EXCEPT !.op = o])
        /\ [r EXCEPT !.op = o].op = o
    BY <1>1 DEF Records, SameDelivery, o
  <1> QED
    BY <1>2, <1>3, <1>4 DEF o

\* An operation proven not sent may also be closed for good.
LEMMA FailedFields ==
    ASSUME NEW r \in Records, NEW c \in BOOLEAN
    PROVE  /\ Failed(r, c) \in Records /\ SameDelivery(r, Failed(r, c))
           /\ Failed(r, c).op.id = r.op.id /\ Failed(r, c).op.phase = "failed-before-write"
  <1> DEFINE o == [r.op EXCEPT !.phase = "failed-before-write", !.closed = c]
  <1>1. o \in Operations /\ o.id = r.op.id /\ o.phase = "failed-before-write"
    BY DEF Records, Operations, Phases
  <1>2. Failed(r, c) = [r EXCEPT !.op = o]
    BY DEF Failed, Records
  <1> HIDE DEF o
  <1>3. [r EXCEPT !.op = o] \in Records /\ SameDelivery(r, [r EXCEPT !.op = o])
        /\ [r EXCEPT !.op = o].op = o
    BY <1>1 DEF Records, SameDelivery
  <1> QED
    BY <1>1, <1>2, <1>3

\* What the journal demands of the automatic delivery in each status.
LEMMA CoherentDelivery ==
    ASSUME NEW r, Coherent(r), r.status \in Statuses
    PROVE  /\ r.attempts > 0 => r.began
           /\ r.prior => r.sealed /\ r.status = "manual-required"
           /\ r.sealed => Terminal(r)
           /\ r.op # NoOp => r.sealed
           /\ r.status = "waiting-agent-session" => r.gen = 0 /\ r.attempts = 0
           /\ r.status \in Waiting => (r.began <=> r.attempts > 0)
           /\ r.status = "writing" => r.attempts <= 1
           /\ r.status = "retry-wait" => r.attempts = 1
  BY DEF Coherent, Statuses, Waiting, TerminalStatuses, Terminal

-----------------------------------------------------------------------------
(* How a step leaves the invariant: the record it leaves behind is sound, and the *)
(* turn ends, rejects or goes on.                                                 *)

\* The step leaves the record q of an existing delivery, and the history agrees with it.
Leaves(q) ==
    /\ rec # NoRecord
    /\ rec' = q /\ q # NoRecord /\ Stored(q)
    /\ q.rev = rec.rev
    /\ Terminal(rec) => Terminal(q)
    /\ HistoryInv(q, screen', task)
    /\ draft' \in {draft, NoDraft}
    /\ late' \in BOOLEAN
    /\ UNCHANGED agent

\* What the step must guarantee besides storing a coherent record.
LEMMA LeavesRecord ==
    ASSUME IInv, rec # NoRecord, NEW q \in Records, rec' = q, Coherent(q), q.status \in Statuses,
           q.rev = rec.rev, Terminal(rec) => Terminal(q),
           q.op # NoOp => q.op.id \in 0 .. q.rev /\ q.op.phase # "none",
           screen' \in Screens, AutoRecorded(q, screen'), ManualRecorded(q, screen', task),
           draft' \in {draft, NoDraft}, late' \in BOOLEAN, UNCHANGED agent
    PROVE  Leaves(q)
  <1>1. q # NoRecord
    BY Nothing DEF Statuses, Waiting, TerminalStatuses
  <1>2. Stored(q)
    BY DEF IInv, Stored
  <1> QED
    BY <1>1, <1>2 DEF Leaves, HistoryInv

\* A step of the automatic delivery leaves the manual operation alone.
LEMMA LeavesDelivery ==
    ASSUME IInv, rec # NoRecord, NEW q \in Records, rec' = q, Coherent(q), q.status \in Statuses,
           q.rev = rec.rev, q.op = rec.op, Terminal(rec) => Terminal(q),
           screen' \in {screen, [screen EXCEPT !.absent = TRUE]},
           screen.auto > 0 => PriorWrite(q),
           q.status \in Waiting \cup {"waiting-agent-session", "retry-wait"} =>
              screen.auto = 0 \/ screen'.absent,
           q.status \in {"verifying", "delivered"} => 0 \in screen.whole,
           draft' \in {draft, NoDraft}, late' \in BOOLEAN, UNCHANGED agent
    PROVE  Leaves(q)
  <1>1. screen \in Screens /\ ManualRecorded(rec, screen, task)
    BY DEF IInv, HistoryInv
  <1>2. /\ screen' \in Screens /\ screen'.auto = screen.auto /\ screen'.manual = screen.manual
        /\ screen'.whole = screen.whole /\ screen'.open = screen.open
        /\ screen'.confirmed = screen.confirmed
    BY <1>1 DEF Screens
  <1>3. AutoRecorded(q, screen')
    BY <1>2 DEF AutoRecorded
  <1>4. ManualRecorded(q, screen', task)
    BY <1>1, <1>2 DEF ManualRecorded
  <1>5. q.op # NoOp => q.op.id \in 0 .. q.rev /\ q.op.phase # "none"
    BY DEF IInv, Stored
  <1> QED
    BY <1>2, <1>3, <1>4, <1>5, LeavesRecord

\* A step of a manual operation leaves the automatic delivery alone.
LEMMA LeavesOperation ==
    ASSUME IInv, rec # NoRecord, NEW q \in Records, rec' = q, Coherent(q),
           q.status = rec.status, q.attempts = rec.attempts, q.began = rec.began,
           q.prior = rec.prior, q.rev = rec.rev,
           q.op # NoOp => q.op.id \in 0 .. q.rev /\ q.op.phase # "none",
           screen' \in Screens, screen'.auto = screen.auto, screen'.absent = screen.absent,
           screen'.whole = screen.whole, ManualRecorded(q, screen', task),
           draft' \in {draft, NoDraft}, late' \in BOOLEAN, UNCHANGED agent
    PROVE  Leaves(q)
  <1>1. AutoRecorded(rec, screen) /\ rec.status \in Statuses
    BY DEF IInv, HistoryInv, Stored
  <1>2. AutoRecorded(q, screen')
    BY <1>1 DEF AutoRecorded, PriorWrite
  <1>3. Terminal(rec) => Terminal(q)
    BY DEF Terminal
  <1> QED
    BY <1>1, <1>2, <1>3, LeavesRecord

\* A step that saves nothing.
LEMMA LeavesAsIs ==
    ASSUME IInv, rec # NoRecord, rec' = rec, screen' = screen, draft' \in {draft, NoDraft},
           late' \in BOOLEAN, UNCHANGED agent
    PROVE  Leaves(rec)
  BY DEF IInv, Leaves

\* Once its delivery is over a turn that is not clearing the draft holds no automatic lease.
LEMMA LeaseOver ==
    ASSUME IInv, Terminal(rec), turn.at # "clear"
    PROVE  lease.auto = "none"
  BY DEF IInv, LeaseInv

\* The runner of a turn that names an operation names one of the draft's revisions.
LEMMA PlacedId ==
    ASSUME NEW r, Stored(r), NEW who, NEW at, NEW i, NEW s, Placed(who, at, i, r, s),
           who \in {"manual", "finalize"}
    PROVE  i \in Revisions
  BY PromptAssumption DEF Placed, ManualAt, Stored, Revisions

\* A turn that ends keeps the invariant, if what it leaves does and it gives back the lease of
\* a delivery that is over.
LEMMA TurnEnds ==
    ASSUME IInv, NEW q, Leaves(q), NEW t, NEW p, NEW a \in Holds, Ends(t, p, a),
           t.by \in {"manual", "finalize"} => t.id \in Revisions,
           Terminal(q) => a = "none",
           t.by = "drain" => Terminal(q)
    PROVE  IInv'
  <1>1. turn' = Idle /\ lease' = [auto |-> a, manual |-> "none"] /\ rec' = q
        /\ task' \in {task, "drained"} /\ (task' # task => Terminal(q))
    BY DEF Ends, Leaves
  <1>2. Kinds'
    BY DEF IInv, Kinds, Ends, Scheduled, Leaves
  <1>3. DraftInv(draft, rec, task)' /\ DrainedInv(rec, task)'
    BY <1>1 DEF IInv, DraftInv, DrainedInv, Leaves
  <1>4. HistoryInv(rec, screen, task)'
    BY <1>1 DEF HistoryInv, AutoRecorded, ManualRecorded, Leaves
  <1>5. TurnInv(turn, rec, screen)'
    BY <1>1 DEF TurnInv
  <1>6. LeaseInv(lease, turn, rec)'
    BY <1>1 DEF LeaseInv, Holds, Leaves
  <1> QED
    BY <1>1, <1>2, <1>3, <1>4, <1>5, <1>6 DEF IInv, Leaves

\* A turn that rejects keeps the invariant: the record stays, and so does its lease.
LEMMA TurnThrows ==
    ASSUME IInv, Leaves(rec), NEW t, NEW a \in Holds, Throws(t, a),
           t.by = "manual" => t.id \in Revisions,
           Terminal(rec) => a = "none"
    PROVE  IInv'
  <1>1. turn' = Idle /\ lease' = [auto |-> a, manual |-> "none"] /\ rec' = rec /\ task' = task
    BY DEF Throws, Leaves
  <1>2. Kinds'
    BY DEF IInv, Kinds, Throws, Scheduled, Leaves
  <1>3. DraftInv(draft, rec, task)' /\ DrainedInv(rec, task)'
    BY <1>1 DEF IInv, DraftInv, DrainedInv, Leaves
  <1>4. HistoryInv(rec, screen, task)'
    BY <1>1 DEF Leaves
  <1>5. TurnInv(turn, rec, screen)'
    BY <1>1 DEF TurnInv
  <1>6. LeaseInv(lease, turn, rec)'
    BY <1>1 DEF LeaseInv, Holds, Leaves
  <1> QED
    BY <1>1, <1>2, <1>3, <1>4, <1>5, <1>6 DEF IInv, Leaves

\* A turn that goes on keeps the invariant, if the place it goes to fits what it leaves.
LEMMA TurnGoesOn ==
    ASSUME IInv, NEW q \in Records, Leaves(q), NEW t \in Turns, NEW at \in Places,
           GoesOn(t, at, q), Placed(t.by, at, t.id, q, screen'),
           Terminal(q) => lease.auto = "none" \/ at = "clear"
    PROVE  IInv'
  <1>1. /\ UNCHANGED <<lease, tracked, owner, task, finalizer>>
        /\ rec' = q /\ turn' = [t EXCEPT !.at = at, !.r = q]
    BY DEF GoesOn, Leaves
  <1>2. /\ turn' \in Turns /\ turn'.at = at /\ turn'.r = q /\ turn'.by = t.by
        /\ turn'.id = t.id
    BY <1>1 DEF Turns
  <1>3. turn' # Idle
    BY <1>2, Nothing DEF Idle, Turns, Operators
  <1>4. Kinds' /\ DraftInv(draft, rec, task)' /\ DrainedInv(rec, task)'
    BY <1>1 DEF IInv, Kinds, DraftInv, DrainedInv, Leaves
  <1>5. HistoryInv(rec, screen, task)'
    BY <1>1 DEF Leaves
  <1>6. TurnInv(turn, rec, screen)'
    BY <1>1, <1>2 DEF TurnInv, Leaves
  <1>7. LeaseInv(lease, turn, rec)'
    BY <1>1, <1>2, <1>3 DEF IInv, LeaseInv, Leaves
  <1> QED
    BY <1>1, <1>4, <1>5, <1>6, <1>7 DEF IInv, Leaves

\* A save that fails, or that the journal refuses, rejects the turn; the lease can stay, for the
\* delivery goes on.
LEMMA SaveFails ==
    ASSUME IInv, rec # NoRecord, turn.at # "clear", NEW t, Throws(t, lease.auto),
           UNCHANGED <<rec, late, draft, agent>>, HistoryInv(rec, screen', task),
           t.by = "manual" => t.id \in Revisions
    PROVE  IInv'
  <1>1. Leaves(rec)
    BY DEF IInv, Leaves, Kinds
  <1>2. lease.auto \in Holds
    BY DEF IInv, LeaseInv
  <1>3. Terminal(rec) => lease.auto = "none"
    BY LeaseOver
  <1> QED
    BY <1>1, <1>2, <1>3, TurnThrows

\* A turn that saves the record q and goes on.
LEMMA SavesAndGoesOn ==
    ASSUME IInv, rec # NoRecord, turn.at # "clear", NEW t \in Turns, NEW q \in Records,
           NEW at \in Places, Store(t, q, GoesOn(t, at, q)), UNCHANGED <<draft, agent>>,
           HistoryInv(rec, screen', task), t.by = "manual" => t.id \in Revisions,
           Coherent(q) /\ Becomes(q) => Leaves(q),
           Placed(t.by, at, t.id, q, screen'),
           Terminal(q) => lease.auto = "none" \/ at = "clear"
    PROVE  IInv'
  <1>1. \/ Coherent(q) /\ Becomes(q) /\ GoesOn(t, at, q)
        \/ Throws(t, lease.auto) /\ UNCHANGED <<rec, late>>
    BY DEF Store
  <1>2. CASE Coherent(q) /\ Becomes(q) /\ GoesOn(t, at, q)
    BY <1>2, TurnGoesOn
  <1>3. CASE Throws(t, lease.auto) /\ UNCHANGED <<rec, late>>
    BY <1>3, SaveFails
  <1> QED
    BY <1>1, <1>2, <1>3

\* A turn that saves the record q and ends.
LEMMA SavesAndEnds ==
    ASSUME IInv, rec # NoRecord, turn.at # "clear", NEW t \in Turns, NEW q \in Records,
           NEW a \in Holds, Store(t, q, Ends(t, q, a)), UNCHANGED <<draft, agent>>,
           HistoryInv(rec, screen', task),
           t.by \in {"manual", "finalize"} => t.id \in Revisions,
           Coherent(q) /\ Becomes(q) => Leaves(q),
           Terminal(q) => a = "none",
           t.by = "drain" => Terminal(q)
    PROVE  IInv'
  <1>1. \/ Coherent(q) /\ Becomes(q) /\ Ends(t, q, a)
        \/ Throws(t, lease.auto) /\ UNCHANGED <<rec, late>>
    BY DEF Store
  <1>2. CASE Coherent(q) /\ Becomes(q) /\ Ends(t, q, a)
    BY <1>2, TurnEnds
  <1>3. CASE Throws(t, lease.auto) /\ UNCHANGED <<rec, late>>
    BY <1>3, SaveFails
  <1> QED
    BY <1>1, <1>2, <1>3

\* An automatic turn that settles the delivery ends it and gives the lease back.
LEMMA SettlesEnds ==
    ASSUME IInv, rec # NoRecord, turn.at # "clear", NEW t, t.r = rec, t.by = "observe",
           NEW e, NextStatus(rec, e) \in {"manual-required", "cancelled"},
           Settles(t, e), UNCHANGED <<draft, agent, screen>>
    PROVE  IInv'
  <1> DEFINE q == Reduce(rec, e)
  <1>1. \/ Coherent(q) /\ Becomes(q) /\ Ends(t, q, "none")
        \/ Throws(t, lease.auto) /\ UNCHANGED <<rec, late>>
    BY DEF Settles, Store
  <1>2. rec \in Records /\ rec.status \in Statuses
    BY DEF IInv, Stored
  <1>3. /\ q \in Records /\ q.status = NextStatus(rec, e) /\ q.rev = rec.rev /\ q.op = rec.op
        /\ q.status \in Statuses /\ Terminal(q)
        /\ q.status \notin Waiting \cup {"waiting-agent-session", "retry-wait"}
        /\ q.status \notin {"verifying", "delivered"}
        /\ PriorWrite(rec) => PriorWrite(q)
    <2>1. NextStatus(rec, e) \in Statuses \cup {"none"}
      BY DEF Statuses, TerminalStatuses
    <2> QED
      BY <1>2, <2>1, ReduceFields
         DEF PriorWrite, Terminal, TerminalStatuses, Statuses, Waiting, Records
  <1>4. HistoryInv(rec, screen, task) /\ AutoRecorded(rec, screen)
    BY DEF IInv, HistoryInv
  <1> HIDE DEF q
  <1>5. CASE Coherent(q) /\ Becomes(q) /\ Ends(t, q, "none")
    <2>1. rec' = q /\ late' \in BOOLEAN
      BY <1>5 DEF Becomes
    <2>2. Leaves(q)
      BY <1>3, <1>4, <1>5, <2>1, LeavesDelivery DEF AutoRecorded
    <2> QED
      BY <1>3, <1>5, <2>2, TurnEnds DEF Holds
  <1>6. CASE Throws(t, lease.auto) /\ UNCHANGED <<rec, late>>
    BY <1>4, <1>6, SaveFails
  <1> QED
    BY <1>1, <1>5, <1>6

-----------------------------------------------------------------------------
(* The steps of an automatic delivery. *)

\* A new turn: it starts from the record, and nobody else has one.
LEMMA NewTurn ==
    ASSUME IInv, NoTurn, rec # NoRecord, NEW who \in Operators, NEW i \in Int
    PROVE  LET t == Turn(who, rec, i) IN
           /\ t \in Turns /\ t.r = rec /\ t.by = who /\ t.id = i
           /\ turn.at # "clear"
           /\ Terminal(rec) => lease.auto = "none"
           /\ lease.auto \in Holds
  <1>1. turn = Idle /\ turn.at = "idle"
    BY DEF NoTurn, Idle
  <1>2. lease.auto \in Holds /\ (Terminal(rec) => lease.auto = "none")
    BY <1>1, LeaseOver DEF IInv, LeaseInv
  <1>3. Turn(who, rec, i) \in Turns
    BY DEF IInv, Stored, Turn, Turns, Places
  <1> QED
    BY <1>1, <1>2, <1>3 DEF Turn

\* A turn that ends without having done anything.
LEMMA EndsAsIs ==
    ASSUME IInv, rec # NoRecord, NEW t, NEW a \in {"none", lease.auto}, Ends(t, rec, a),
           turn.at # "clear" \/ a = "none", t.by # "drain",
           t.by \in {"manual", "finalize"} => t.id \in Revisions,
           NoStore, UNCHANGED <<draft, agent, screen>>
    PROVE  IInv'
  <1>1. Leaves(rec)
    BY LeavesAsIs DEF NoStore, IInv, Kinds
  <1>2. a \in Holds /\ (Terminal(rec) => a = "none")
    BY LeaseOver DEF IInv, LeaseInv, Holds
  <1> QED
    BY <1>1, <1>2, TurnEnds

\* An observation, and the facts about the record it starts from.
LEMMA Observation ==
    ASSUME IInv, NoTurn, rec # NoRecord
    PROVE  LET t == Turn("observe", rec, -1) IN
           /\ t \in Turns /\ t.r = rec /\ t.by = "observe" /\ turn.at # "clear"
           /\ Terminal(rec) => lease.auto = "none"
           /\ lease.auto \in Holds
           /\ rec \in Records /\ rec.status \in Statuses /\ Coherent(rec)
           /\ HistoryInv(rec, screen, task) /\ AutoRecorded(rec, screen)
  <1>1. "observe" \in Operators /\ -1 \in Int
    BY DEF Operators
  <1>2. /\ rec \in Records /\ rec.status \in Statuses /\ Coherent(rec)
        /\ HistoryInv(rec, screen, task) /\ AutoRecorded(rec, screen)
    BY DEF IInv, Stored, HistoryInv
  <1> QED
    BY <1>1, <1>2, NewTurn

\* Without a runtime only what is overdue or unsafe is settled.
LEMMA ExpireStep ==
    ASSUME IInv, NoTurn, rec # NoRecord, ~Terminal(rec), Expire(Turn("observe", rec, -1)),
           UNCHANGED <<draft, agent, screen>>
    PROVE  IInv'
  <1> DEFINE t == Turn("observe", rec, -1)
  <1>1. t.r = rec /\ t.by = "observe" /\ turn.at # "clear" /\ rec.status \in Statuses
    BY Observation
  <1>. Expire(t)
    OBVIOUS
  <1> HIDE DEF t
  <1>2. CASE rec.status = "retry-wait"
    <2>1. Settles(t, "retry-not-safe")
      BY <1>1, <1>2 DEF Expire, Due, Waiting
    <2>2. NextStatus(rec, "retry-not-safe") = "manual-required"
      BY <1>1, <1>2, Outcomes
    <2> QED
      BY <1>1, <2>1, <2>2, SettlesEnds
  <1>3. CASE rec.status # "retry-wait" /\ Due(rec)
    <2>1. Settles(t, "verification-inconclusive")
      BY <1>1, <1>3 DEF Expire
    <2>2. NextStatus(rec, "verification-inconclusive") = "manual-required"
      BY <1>1, <1>3, Outcomes DEF Due
    <2> QED
      BY <1>1, <2>1, <2>2, SettlesEnds
  <1>4. CASE rec.status # "retry-wait" /\ ~Due(rec)
    <2>1. Ends(t, rec, lease.auto) /\ NoStore
      BY <1>1, <1>4 DEF Expire
    <2> QED
      BY <1>1, <2>1, EndsAsIs
  <1> QED
    BY <1>2, <1>3, <1>4

\* The first session or another generation: a delivery that may have written is left to the
\* user, any other starts to wait, and what the terminal has received does not change.
LEMMA NewSessionStep ==
    ASSUME IInv, NoTurn, rec # NoRecord, ~Terminal(rec), rec.status # "writing",
           agent.state # "gone", rec.gen # agent.gen,
           NewSession(Turn("observe", rec, -1)), UNCHANGED <<draft, agent, screen>>
    PROVE  IInv'
  <1> DEFINE t == Turn("observe", rec, -1)
             first == t.r.status = "waiting-agent-session"
             moves == first \/ (~t.r.began /\ t.r.attempts = 0 /\ t.r.deadline = "first")
             event == IF first THEN "session-available" ELSE "generation-changed"
             next == Reduce(t.r, event)
             q == [next EXCEPT !.gen = IF Terminal(next) THEN @ ELSE agent.gen,
                               !.deadline = IF moves THEN IF first THEN "first" ELSE "extended"
                                                     ELSE @]
  <1>1. /\ t \in Turns /\ t.r = rec /\ t.by = "observe" /\ turn.at # "clear"
        /\ rec \in Records /\ rec.status \in Statuses
        /\ HistoryInv(rec, screen, task) /\ AutoRecorded(rec, screen)
    BY Observation
  <1>2. Store(t, q, IF Terminal(q) THEN Ends(t, q, "none") ELSE GoesOn(t, "deadline", q))
    BY DEF NewSession
  <1>3. /\ next \in Records /\ next.began = rec.began /\ next.attempts = rec.attempts
        /\ next.prior = rec.prior /\ next.rev = rec.rev /\ next.op = rec.op
        /\ next.status \in {"waiting-ready", "manual-required"}
        /\ next.status = "waiting-ready" => first \/ ~PossibleWrite(rec)
    <2>1. event \notin {"write-accepted"}
      OBVIOUS
    <2>2. /\ NextStatus(rec, event) \in {"waiting-ready", "manual-required"}
          /\ NextStatus(rec, event) = "waiting-ready" => first \/ ~PossibleWrite(rec)
      <3>1. CASE first
        BY <1>1, <3>1, Outcomes
      <3>2. CASE ~first
        BY <1>1, <3>2, Outcomes
      <3> QED
        BY <3>1, <3>2
    <2>3. NextStatus(rec, event) \in Statuses
      BY <2>2 DEF Statuses, Waiting, TerminalStatuses
    <2> QED
      BY <1>1, <2>1, <2>2, <2>3, ReduceFields
  <1>4. /\ q \in Records /\ q.began = rec.began /\ q.attempts = rec.attempts
        /\ q.prior = rec.prior /\ q.rev = rec.rev /\ q.op = rec.op /\ q.status = next.status
    <2>1. agent.gen \in Int
      BY DEF IInv, Kinds
    <2> HIDE DEF next, moves, first
    <2> QED
      BY <1>3, <2>1 DEF Records
  <1>5. q.status \in Statuses /\ q.status \notin {"verifying", "delivered"}
    BY <1>3, <1>4 DEF Statuses, Waiting, TerminalStatuses
  <1>6. q.status = "waiting-ready" => screen.auto = 0 \/ screen.absent
    <2>1. ~PossibleWrite(rec) => rec.status \in Waiting \cup {"waiting-agent-session", "retry-wait"}
      BY <1>1 DEF PossibleWrite, Terminal, Statuses, TerminalStatuses
    <2> QED
      BY <1>1, <1>3, <1>4, <2>1 DEF AutoRecorded
  <1>7. screen.auto > 0 => PriorWrite(q)
    BY <1>1, <1>4 DEF AutoRecorded, PriorWrite
  <1>8. Coherent(q) /\ Becomes(q) => Leaves(q)
    <2> SUFFICES ASSUME Coherent(q), Becomes(q) PROVE Leaves(q)
      OBVIOUS
    <2>1. rec' = q /\ late' \in BOOLEAN
      BY DEF Becomes
    <2>2. q.status \in Waiting \cup {"waiting-agent-session", "retry-wait"} =>
             screen.auto = 0 \/ screen'.absent
      BY <1>3, <1>4, <1>6 DEF Waiting
    <2> HIDE DEF q
    <2> QED
      BY <1>4, <1>5, <1>7, <2>1, <2>2, LeavesDelivery
  <1>9. Terminal(q) \/ Placed("observe", "deadline", t.id, q, screen)
    BY <1>3, <1>4 DEF Terminal, TerminalStatuses, Placed, AutoAt
  <1> HIDE DEF q, t
  <1>10. CASE Terminal(q)
    BY <1>1, <1>2, <1>4, <1>8, <1>10, SavesAndEnds DEF Holds
  <1>11. CASE ~Terminal(q)
    BY <1>1, <1>2, <1>4, <1>8, <1>9, <1>11, SavesAndGoesOn DEF Places
  <1> QED
    BY <1>10, <1>11

\* An event of the delivery leaves a sound record, if what it makes of the status is so.
LEMMA EventLeaves ==
    ASSUME IInv, rec # NoRecord, NEW e, Coherent(Reduce(rec, e)), Becomes(Reduce(rec, e)),
           NextStatus(rec, e) \in Statuses,
           Terminal(rec) => NextStatus(rec, e) \in TerminalStatuses,
           screen' \in {screen, [screen EXCEPT !.absent = TRUE]},
           NextStatus(rec, e) \in Waiting \cup {"waiting-agent-session", "retry-wait"} =>
              screen.auto = 0 \/ screen'.absent,
           NextStatus(rec, e) \in {"verifying", "delivered"} => 0 \in screen.whole,
           UNCHANGED <<draft, agent>>
    PROVE  Leaves(Reduce(rec, e))
  <1> DEFINE q == Reduce(rec, e)
  <1>1. rec \in Records /\ AutoRecorded(rec, screen)
    BY DEF IInv, Stored, HistoryInv
  <1>2. /\ q \in Records /\ q.status = NextStatus(rec, e) /\ q.rev = rec.rev /\ q.op = rec.op
        /\ PriorWrite(rec) => PriorWrite(q)
    BY <1>1, ReduceFields DEF PriorWrite, Records
  <1>3. rec' = q /\ late' \in BOOLEAN
    BY DEF Becomes
  <1>4. Coherent(q)
    OBVIOUS
  <1> HIDE DEF q
  <1>5. Leaves(q)
    BY <1>1, <1>2, <1>3, <1>4, LeavesDelivery DEF AutoRecorded, Terminal
  <1> QED
    BY <1>5 DEF q

\* What has been seen of the screen does not contradict the record.
LEMMA AbsenceSeen ==
    ASSUME HistoryInv(rec, screen, task), screen' = [screen EXCEPT !.absent = TRUE]
    PROVE  HistoryInv(rec, screen', task) /\ screen'.absent /\ screen'.auto = screen.auto
  <1>1. screen \in Screens
    BY DEF HistoryInv
  <1>2. /\ screen' \in Screens /\ screen'.auto = screen.auto /\ screen'.manual = screen.manual
        /\ screen'.whole = screen.whole /\ screen'.open = screen.open
        /\ screen'.confirmed = screen.confirmed /\ screen'.absent
    BY <1>1 DEF Screens
  <1> QED
    BY <1>2 DEF HistoryInv, AutoRecorded, ManualRecorded, Untouched

\* The write is verified: it is delivered, or its absence is proven and seen, or it is left open.
LEMMA VerifyStep ==
    ASSUME IInv, NoTurn, rec # NoRecord, rec.status = "verifying",
           Verify(Turn("observe", rec, -1)), UNCHANGED <<draft, agent>>
    PROVE  IInv'
  <1> DEFINE t == Turn("observe", rec, -1)
             d == Reduce(t.r, "evidence-delivered")
             n == Reduce(t.r, "evidence-absence-proven")
  <1>1. /\ t \in Turns /\ t.r = rec /\ t.by = "observe" /\ turn.at # "clear"
        /\ rec \in Records /\ rec.status \in Statuses
        /\ HistoryInv(rec, screen, task) /\ AutoRecorded(rec, screen) /\ ~Terminal(rec)
    BY Observation DEF Terminal, TerminalStatuses
  <1>2. \/ Store(t, d, GoesOn(t, "clear", d)) /\ UNCHANGED screen
        \/ Due(t.r) /\ Settles(t, "verification-inconclusive") /\ UNCHANGED screen
        \/ Ends(t, t.r, lease.auto) /\ NoStore /\ UNCHANGED screen
        \/ /\ Store(t, n, IF Terminal(n) THEN Ends(t, n, "none") ELSE GoesOn(t, "dispatch", n))
           /\ screen' = [screen EXCEPT !.absent = TRUE]
    BY DEF Verify
  <1>3. NextStatus(rec, "evidence-delivered") = "delivered" /\ 0 \in screen.whole
    BY <1>1, Outcomes DEF AutoRecorded
  <1>4. NextStatus(rec, "evidence-absence-proven") \in {"retry-wait", "manual-required"}
    BY <1>1, Outcomes
  <1>5. NextStatus(rec, "verification-inconclusive") = "manual-required"
    BY <1>1, Outcomes
  <1>6. {"delivered", "retry-wait", "manual-required"} \subseteq Statuses
    BY DEF Statuses, TerminalStatuses
  <1>7. /\ d \in Records /\ d.status = "delivered"
        /\ n \in Records /\ n.status \in {"retry-wait", "manual-required"}
    BY <1>1, <1>3, <1>4, <1>6, ReduceFields
  <1>8. CASE Store(t, d, GoesOn(t, "clear", d)) /\ UNCHANGED screen
    <2>1. Coherent(d) /\ Becomes(d) => Leaves(d)
      BY <1>1, <1>3, <1>6, <1>8, EventLeaves DEF TerminalStatuses, Waiting
    <2>2. Placed(t.by, "clear", t.id, d, screen')
      BY <1>1, <1>7 DEF Placed, AutoAt
    <2> HIDE DEF d, t
    <2> QED
      BY <1>1, <1>7, <1>8, <2>1, <2>2, SavesAndGoesOn DEF Places
  <1>9. CASE Due(t.r) /\ Settles(t, "verification-inconclusive") /\ UNCHANGED screen
    <2> HIDE DEF t
    <2> QED
      BY <1>1, <1>5, <1>9, SettlesEnds
  <1>10. CASE Ends(t, t.r, lease.auto) /\ NoStore /\ UNCHANGED screen
    <2> HIDE DEF t
    <2> QED
      BY <1>1, <1>10, EndsAsIs
  <1>11. CASE /\ Store(t, n, IF Terminal(n) THEN Ends(t, n, "none") ELSE GoesOn(t, "dispatch", n))
              /\ screen' = [screen EXCEPT !.absent = TRUE]
    <2>1. HistoryInv(rec, screen', task) /\ screen'.absent
      BY <1>1, <1>11, AbsenceSeen
    <2>2. Coherent(n) /\ Becomes(n) => Leaves(n)
      BY <1>1, <1>4, <1>6, <1>11, <2>1, EventLeaves
    <2>3. n.status = "retry-wait" => Placed(t.by, "dispatch", t.id, n, screen')
      BY <1>1 DEF Placed, AutoAt
    <2>4. Terminal(n) <=> n.status # "retry-wait"
      BY <1>7 DEF Terminal, TerminalStatuses
    <2>5. "dispatch" \in Places /\ "none" \in Holds
      BY DEF Places, Holds
    <2> HIDE DEF n, t
    <2>6. CASE Terminal(n)
      BY <1>1, <1>7, <1>11, <2>1, <2>2, <2>5, <2>6, SavesAndEnds
    <2>7. CASE ~Terminal(n)
      BY <1>1, <1>7, <1>11, <2>1, <2>2, <2>3, <2>4, <2>5, <2>7, SavesAndGoesOn
    <2> QED
      BY <2>6, <2>7
  <1> QED
    BY <1>2, <1>8, <1>9, <1>10, <1>11

\* The agent is ready: the delivery is dispatched, or waits on, or can no longer be retried.
LEMMA ReadyStep ==
    ASSUME IInv, NoTurn, rec # NoRecord, rec.status \in Waiting \cup {"retry-wait"},
           Ready(Turn("observe", rec, -1)), UNCHANGED <<draft, agent, screen>>
    PROVE  IInv'
  <1> DEFINE t == Turn("observe", rec, -1)
             q == Reduce(t.r, "ready-stable")
  <1>1. /\ t \in Turns /\ t.r = rec /\ t.by = "observe" /\ turn.at # "clear"
        /\ rec \in Records /\ rec.status \in Statuses
        /\ HistoryInv(rec, screen, task) /\ AutoRecorded(rec, screen) /\ ~Terminal(rec)
    BY Observation DEF Terminal, TerminalStatuses, Waiting
  <1>2. \/ Store(t, q, GoesOn(t, "dispatch", q))
        \/ t.r.status = "retry-wait" /\ Settles(t, "retry-not-safe")
        \/ Ends(t, t.r, lease.auto) /\ NoStore
    BY DEF Ready
  <1>3. NextStatus(rec, "ready-stable") \in {"waiting-lease", "retry-wait"}
    BY <1>1, Outcomes DEF Waiting
  <1>4. {"waiting-lease", "retry-wait"} \subseteq Statuses \ TerminalStatuses
    BY DEF Statuses, TerminalStatuses, Waiting
  <1>5. q \in Records /\ q.status \in {"waiting-lease", "retry-wait"}
    BY <1>1, <1>3, <1>4, ReduceFields
  <1>6. CASE Store(t, q, GoesOn(t, "dispatch", q))
    <2>1. Coherent(q) /\ Becomes(q) => Leaves(q)
      BY <1>1, <1>3, <1>4, EventLeaves DEF AutoRecorded
    <2>2. Placed(t.by, "dispatch", t.id, q, screen') /\ ~Terminal(q)
      BY <1>1, <1>4, <1>5 DEF Placed, AutoAt, Terminal
    <2>3. "dispatch" \in Places
      BY DEF Places
    <2> HIDE DEF q, t
    <2> QED
      BY <1>1, <1>5, <1>6, <2>1, <2>2, <2>3, SavesAndGoesOn
  <1>7. CASE t.r.status = "retry-wait" /\ Settles(t, "retry-not-safe")
    <2>1. NextStatus(rec, "retry-not-safe") = "manual-required"
      BY <1>1, <1>7, Outcomes
    <2> HIDE DEF t
    <2> QED
      BY <1>1, <1>7, <2>1, SettlesEnds
  <1>8. CASE Ends(t, t.r, lease.auto) /\ NoStore
    <2> HIDE DEF t
    <2> QED
      BY <1>1, <1>8, EndsAsIs
  <1> QED
    BY <1>2, <1>6, <1>7, <1>8

\* Every observation keeps the invariant.
LEMMA ObserveStep ==
    ASSUME IInv, Observe
    PROVE  IInv'
  <1> DEFINE t == Turn("observe", rec, -1)
  <1>1. NoTurn /\ rec # NoRecord /\ UNCHANGED <<draft, agent>>
    BY DEF Observe
  <1>2. /\ t \in Turns /\ t.r = rec /\ t.by = "observe" /\ turn.at # "clear"
        /\ rec \in Records /\ rec.status \in Statuses /\ Coherent(rec)
        /\ Terminal(rec) => lease.auto = "none"
    BY <1>1, Observation
  <1>3. CASE Terminal(rec)
    <2>1. /\ IF rec.status = "delivered" THEN GoesOn(t, "clear", rec) ELSE Ends(t, rec, "none")
          /\ NoStore /\ UNCHANGED screen
      BY <1>3 DEF Observe, Terminal, TerminalStatuses
    <2>2. Leaves(rec)
      BY <1>1, <2>1, LeavesAsIs DEF NoStore, IInv, Kinds
    <2>3. "none" \in Holds /\ "clear" \in Places
      BY DEF Holds, Places
    <2>4. rec.status = "delivered" => Placed(t.by, "clear", t.id, rec, screen')
      BY <1>2 DEF Placed, AutoAt
    <2> HIDE DEF t
    <2> QED
      BY <1>1, <1>2, <2>1, <2>2, <2>3, <2>4, TurnGoesOn, EndsAsIs
  <1>4. CASE rec.status = "writing"
    <2>1. Settles(t, "write-outcome-ambiguous") /\ UNCHANGED screen
      BY <1>4 DEF Observe, Terminal, TerminalStatuses
    <2>2. NextStatus(rec, "write-outcome-ambiguous") = "manual-required"
      BY <1>2, <1>4, Outcomes DEF Terminal, TerminalStatuses
    <2> HIDE DEF t
    <2> QED
      BY <1>1, <1>2, <2>1, <2>2, SettlesEnds
  <1>5. CASE ~Terminal(rec) /\ rec.status # "writing" /\ agent.state = "gone"
    <2>1. /\ Expire(t) \/ Settles(t, "agent-exited")
          /\ UNCHANGED screen
      BY <1>5 DEF Observe
    <2>2. NextStatus(rec, "agent-exited") = "manual-required"
      BY <1>2, <1>5, Outcomes
    <2>3. CASE Expire(t)
      BY <1>1, <1>5, <2>1, <2>3, ExpireStep
    <2>4. CASE Settles(t, "agent-exited")
      <3> HIDE DEF t
      <3> QED
        BY <1>1, <1>2, <2>1, <2>2, <2>4, SettlesEnds
    <2> QED
      BY <2>1, <2>3, <2>4
  <1>6. CASE ~Terminal(rec) /\ rec.status # "writing" /\ agent.state # "gone"
    <2>1. agent.state \in {"busy", "idle"} /\ agent.gen > 0
      BY <1>6 DEF IInv, Kinds
    <2>2. IF rec.gen # agent.gen THEN NewSession(t) /\ UNCHANGED screen
          ELSE IF Due(rec) /\ rec.status # "verifying"
            THEN Settles(t, "verification-inconclusive") /\ UNCHANGED screen
          ELSE IF rec.status = "verifying" THEN Verify(t)
          ELSE Ready(t) /\ UNCHANGED screen
      BY <1>6, <2>1 DEF Observe
    <2>3. CASE rec.gen # agent.gen
      BY <1>1, <1>6, <2>2, <2>3, NewSessionStep
    <2>4. CASE rec.gen = agent.gen /\ Due(rec) /\ rec.status # "verifying"
      <3>1. NextStatus(rec, "verification-inconclusive") = "manual-required"
        BY <1>2, <2>4, Outcomes DEF Due
      <3>2. Settles(t, "verification-inconclusive") /\ UNCHANGED screen
        BY <2>2, <2>4
      <3> HIDE DEF t
      <3> QED
        BY <1>1, <1>2, <3>1, <3>2, SettlesEnds
    <2>5. CASE rec.gen = agent.gen /\ rec.status = "verifying"
      BY <1>1, <2>2, <2>5, VerifyStep
    <2>6. CASE rec.gen = agent.gen /\ ~Due(rec) /\ rec.status # "verifying"
      <3>1. rec.status # "waiting-agent-session"
        BY <1>2, <2>1, <2>6, CoherentDelivery
      <3>2. rec.status \in Waiting \cup {"retry-wait"}
        BY <1>2, <1>6, <2>6, <3>1 DEF Statuses, Terminal
      <3> QED
        BY <1>1, <2>2, <2>6, <3>2, ReadyStep
    <2> QED
      BY <2>3, <2>4, <2>5, <2>6
  <1> QED
    BY <1>3, <1>4, <1>5, <1>6

\* A running turn: its copy is the record, and it stands where the record says it may.
LEMMA Running ==
    ASSUME IInv, NEW at, At(at)
    PROVE  /\ turn \in Turns /\ turn.r = rec /\ turn.at = at /\ rec # NoRecord
           /\ Placed(turn.by, at, turn.id, rec, screen)
           /\ turn.by \in {"manual", "finalize"} => turn.id \in Revisions
           /\ rec \in Records /\ rec.status \in Statuses /\ Coherent(rec)
           /\ HistoryInv(rec, screen, task) /\ AutoRecorded(rec, screen)
           /\ ManualRecorded(rec, screen, task) /\ screen \in Screens
           /\ lease.auto \in Holds /\ lease.manual \in Holds
           /\ at # "clear" /\ Terminal(rec) => lease.auto = "none"
  <1>1. /\ turn \in Turns /\ turn.r = rec /\ turn.at = at /\ rec # NoRecord
        /\ Placed(turn.by, at, turn.id, rec, screen)
    BY DEF At, IInv, TurnInv
  <1>2. /\ rec \in Records /\ rec.status \in Statuses /\ Coherent(rec) /\ Stored(rec)
        /\ HistoryInv(rec, screen, task) /\ AutoRecorded(rec, screen)
        /\ ManualRecorded(rec, screen, task) /\ screen \in Screens
        /\ lease.auto \in Holds /\ lease.manual \in Holds
    BY <1>1 DEF IInv, Stored, HistoryInv, LeaseInv
  <1>3. turn.by \in {"manual", "finalize"} => turn.id \in Revisions
    BY <1>1, <1>2, PlacedId
  <1>4. at # "clear" /\ Terminal(rec) => lease.auto = "none"
    BY <1>1, LeaseOver
  <1> QED
    BY <1>1, <1>2, <1>3, <1>4

\* A manual operation moves on in the record q: what its new phase says of the terminal holds.
LEMMA PhaseLeaves ==
    ASSUME IInv, rec # NoRecord, rec.op # NoOp, NEW q \in Records, Becomes(q), Coherent(q),
           SameDelivery(rec, q), q.op.id = rec.op.id, q.op.phase # "none",
           screen' \in Screens, screen'.auto = screen.auto, screen'.absent = screen.absent,
           screen'.whole = screen.whole, screen'.manual = screen.manual,
           screen'.open \subseteq screen.open, screen.confirmed \subseteq screen'.confirmed,
           PreIntent(q.op) \/ q.op.phase = "failed-before-write" => screen.manual[q.op.id] = 0,
           q.op.phase \in {"write-accepted", "completed"} => q.op.id \in screen.whole,
           q.op.phase \in {"completed", "reconciled"} => screen'.open = {},
           \/ q.op.phase = "confirmation-required" \/ screen.auto = 0
           \/ q.op.id \in screen'.confirmed \/ task \in {"drained", "removed"},
           draft' \in {draft, NoDraft}, UNCHANGED agent
    PROVE  Leaves(q)
  <1>1. ManualRecorded(rec, screen, task) /\ screen \in Screens /\ Stored(rec)
    BY DEF IInv, HistoryInv
  <1>2. rec.op.id \in 0 .. rec.rev /\ rec.op.id \in Revisions /\ rec.rev \in Int
    BY <1>1, PromptAssumption DEF Stored, Revisions
  <1>3. q.op # NoOp
    BY <1>2, Nothing
  <1>4. ManualRecorded(q, screen', task)
    <2>1. \A i \in Revisions : screen'.manual[i] > 0 => q.op # NoOp /\ i <= q.op.id
      BY <1>1, <1>3 DEF ManualRecorded
    <2>2. q.op # NoOp /\ screen'.manual[q.op.id] > 0 =>
             ~PreIntent(q.op) /\ q.op.phase # "failed-before-write"
      OBVIOUS
    <2>3. \A i \in screen'.open : i = q.op.id /\ i \in Revisions /\ screen'.manual[i] > 0
      BY <1>1 DEF ManualRecorded
    <2> QED
      BY <1>3, <2>1, <2>2, <2>3 DEF ManualRecorded
  <1>5. rec' = q /\ late' \in BOOLEAN
    BY DEF Becomes
  <1> QED
    BY <1>2, <1>4, <1>5, LeavesOperation DEF SameDelivery

\* A running turn goes to another place without saving anything.
LEMMA TurnMoves ==
    ASSUME IInv, rec # NoRecord, NEW u \in Turns, turn' = u, u.r = rec,
           Placed(u.by, u.at, u.id, rec, screen'), HistoryInv(rec, screen', task),
           lease' \in [auto : Holds, manual : Holds],
           Terminal(rec) => lease'.auto = "none" \/ u.at = "clear",
           UNCHANGED <<rec, late, draft, agent, tracked, owner, task, finalizer>>
    PROVE  IInv'
  <1>1. u # Idle
    BY DEF Idle, Turns, Operators
  <1>2. /\ Kinds' /\ Stored(rec)' /\ DraftInv(draft, rec, task)' /\ DrainedInv(rec, task)'
        /\ HistoryInv(rec, screen, task)'
    BY DEF IInv, Kinds
  <1>3. TurnInv(turn, rec, screen)'
    BY DEF TurnInv
  <1>4. LeaseInv(lease, turn, rec)'
    BY <1>1 DEF LeaseInv
  <1> QED
    BY <1>2, <1>3, <1>4 DEF IInv

\* A new session that is already overdue is given up, any other turn ends.
LEMMA DeadlineStep ==
    ASSUME IInv, Deadline
    PROVE  IInv'
  <1>1. At("deadline") /\ UNCHANGED <<draft, agent, screen>>
    BY DEF Deadline, Quiet
  <1>2. /\ turn \in Turns /\ turn.r = rec /\ turn.at = "deadline" /\ rec # NoRecord
        /\ Placed(turn.by, "deadline", turn.id, rec, screen) /\ rec.status \in Statuses
    BY <1>1, Running
  <1>3. turn.by = "observe" /\ rec.status = "waiting-ready"
    BY <1>2 DEF Placed, AutoAt, ManualAt
  <1>4. NextStatus(rec, "verification-inconclusive") = "manual-required"
    BY <1>2, <1>3, Outcomes DEF Waiting
  <1>5. CASE Due(turn.r)
    BY <1>1, <1>2, <1>3, <1>4, <1>5, SettlesEnds DEF Deadline
  <1>6. CASE ~Due(turn.r)
    <2>1. Ends(turn, rec, lease.auto) /\ NoStore
      BY <1>2, <1>6 DEF Deadline
    <2> QED
      BY <1>1, <1>2, <1>3, <2>1, EndsAsIs
  <1> QED
    BY <1>5, <1>6

\* The command lease is acquired, or the turn is over.
LEMMA DispatchStep ==
    ASSUME IInv, Dispatch
    PROVE  IInv'
  <1>1. At("dispatch") /\ UNCHANGED <<draft, agent, screen>>
    BY DEF Dispatch, Quiet
  <1>2. /\ turn \in Turns /\ turn.r = rec /\ turn.at = "dispatch" /\ rec # NoRecord
        /\ Placed(turn.by, "dispatch", turn.id, rec, screen) /\ rec.status \in Statuses
        /\ HistoryInv(rec, screen, task)
    BY <1>1, Running
  <1>3. turn.by = "observe" /\ rec.status \in {"waiting-lease", "retry-wait"}
    BY <1>2 DEF Placed, AutoAt, ManualAt
  <1>4. CASE Due(turn.r) /\ Settles(turn, "verification-inconclusive")
    <2>1. NextStatus(rec, "verification-inconclusive") = "manual-required"
      BY <1>2, <1>3, <1>4, Outcomes DEF Due
    <2> QED
      BY <1>1, <1>2, <1>3, <1>4, <2>1, SettlesEnds
  <1>5. CASE Ends(turn, turn.r, "none") /\ NoStore
    BY <1>1, <1>2, <1>3, <1>5, EndsAsIs
  <1>6. CASE /\ turn' = [turn EXCEPT !.at = "intent"]
             /\ lease' = [lease EXCEPT !.auto = IF @ = "none" THEN "held" ELSE @]
             /\ NoStore /\ UNCHANGED <<tracked, owner, task, finalizer>>
    <2> DEFINE u == [turn EXCEPT !.at = "intent"]
    <2>1. u \in Turns /\ u.at = "intent" /\ u.by = "observe" /\ u.r = rec
      BY <1>2, <1>3 DEF Turns, Places
    <2>2. Placed(u.by, u.at, u.id, rec, screen') /\ ~Terminal(rec)
      BY <1>1, <1>3, <2>1 DEF Placed, AutoAt, Terminal, TerminalStatuses
    <2>3. lease' \in [auto : Holds, manual : Holds]
      BY <1>6 DEF IInv, LeaseInv, Holds
    <2> HIDE DEF u
    <2>4. UNCHANGED <<rec, late, draft, agent, tracked, owner, task, finalizer, screen>>
      BY <1>1, <1>6 DEF NoStore
    <2> QED
      BY <1>2, <1>6, <2>1, <2>2, <2>3, <2>4, TurnMoves DEF u
  <1> QED
    BY <1>4, <1>5, <1>6 DEF Dispatch

\* The intent to write becomes durable; it is the first write, or the last was seen not to arrive.
LEMMA IntentStep ==
    ASSUME IInv, Intent
    PROVE  IInv'
  <1> DEFINE q == Reduce(turn.r, "write-started")
  <1>1. At("intent") /\ turn.by = "observe" /\ UNCHANGED <<draft, agent, screen>>
    BY DEF Intent, Quiet
  <1>2. /\ turn \in Turns /\ turn.r = rec /\ turn.at = "intent" /\ rec # NoRecord
        /\ Placed(turn.by, "intent", turn.id, rec, screen)
        /\ rec \in Records /\ rec.status \in Statuses /\ Coherent(rec)
        /\ HistoryInv(rec, screen, task) /\ AutoRecorded(rec, screen)
    BY <1>1, Running
  <1>3. rec.status \in {"waiting-lease", "retry-wait"}
    BY <1>1, <1>2 DEF Placed, AutoAt
  <1>4. CASE Due(turn.r)
    <2>1. NextStatus(rec, "verification-inconclusive") = "manual-required"
      BY <1>2, <1>3, <1>4, Outcomes DEF Due
    <2>2. Settles(turn, "verification-inconclusive")
      BY <1>4 DEF Intent
    <2> QED
      BY <1>1, <1>2, <2>1, <2>2, SettlesEnds
  <1>5. CASE ~Due(turn.r)
    <2>1. Store(turn, q, GoesOn(turn, "begin", q))
      BY <1>5 DEF Intent
    <2>2. NextStatus(rec, "write-started") = "writing" /\ "writing" \in Statuses
      BY <1>2, <1>3, Outcomes DEF Statuses
    <2>3. q \in Records /\ q.status = "writing" /\ q.attempts = rec.attempts
      BY <1>2, <2>2, ReduceFields
    <2>4. Coherent(q) /\ Becomes(q) => Leaves(q)
      BY <1>1, <1>2, <1>3, <2>2, EventLeaves DEF Waiting, Terminal, TerminalStatuses
    <2>5. Writing(q, screen')
      <3>1. screen.auto = 0 \/ screen.absent
        BY <1>2, <1>3 DEF AutoRecorded, Waiting
      <3>2. rec.attempts > 0 \/ (~rec.began /\ ~rec.prior /\ ~(rec.attempts > 0))
        BY <1>2, <1>3, CoherentDelivery DEF Waiting
      <3>3. screen.auto > 0 => rec.attempts > 0
        BY <1>2, <3>2 DEF AutoRecorded, PriorWrite
      <3> QED
        BY <1>1, <2>3, <3>1, <3>3 DEF Writing
    <2>6. Placed(turn.by, "begin", turn.id, q, screen') /\ ~Terminal(q) /\ "begin" \in Places
      BY <1>1, <2>3, <2>5 DEF Placed, AutoAt, Terminal, TerminalStatuses, Places
    <2> HIDE DEF q
    <2> QED
      BY <1>1, <1>2, <2>1, <2>3, <2>4, <2>6, SavesAndGoesOn
  <1> QED
    BY <1>4, <1>5

\* The record says that a write has begun before its first byte.
LEMMA BeginStep ==
    ASSUME IInv, Begin
    PROVE  IInv'
  <1> DEFINE q == [turn.r EXCEPT !.began = TRUE]
  <1>1. /\ At("begin") /\ UNCHANGED <<draft, agent, screen>>
        /\ Store(turn, q, GoesOn(turn, "admit", q))
    BY DEF Begin, Quiet
  <1>2. /\ turn \in Turns /\ turn.r = rec /\ turn.at = "begin" /\ rec # NoRecord
        /\ Placed(turn.by, "begin", turn.id, rec, screen)
        /\ rec \in Records /\ rec.status \in Statuses
        /\ HistoryInv(rec, screen, task) /\ AutoRecorded(rec, screen)
    BY <1>1, Running
  <1>3. turn.by = "observe" /\ Writing(rec, screen)
    BY <1>2 DEF Placed, AutoAt, ManualAt
  <1>4. /\ q \in Records /\ q.status = rec.status /\ q.rev = rec.rev /\ q.op = rec.op /\ q.began
        /\ q.attempts = rec.attempts
    BY <1>2 DEF Records
  <1>5. PriorWrite(q)
    BY <1>4 DEF PriorWrite
  <1>6. Coherent(q) /\ Becomes(q) => Leaves(q)
    <2> SUFFICES ASSUME Coherent(q), Becomes(q) PROVE Leaves(q)
      OBVIOUS
    <2>1. rec' = q /\ late' \in BOOLEAN
      BY DEF Becomes
    <2>2. q.status = "writing"
      BY <1>3, <1>4 DEF Writing
    <2> HIDE DEF q
    <2> QED
      BY <1>1, <1>2, <1>4, <1>5, <2>1, <2>2, LeavesDelivery DEF Terminal, Waiting
  <1>7. Placed(turn.by, "admit", turn.id, q, screen') /\ ~Terminal(q) /\ "admit" \in Places
    BY <1>1, <1>3, <1>4 DEF Placed, AutoAt, Writing, Terminal, TerminalStatuses, Places
  <1> HIDE DEF q
  <1> QED
    BY <1>1, <1>2, <1>3, <1>4, <1>6, <1>7, SavesAndGoesOn

\* The first frame of an automatic write reaches the terminal: the record already says so, and
\* no manual operation exists.
LEMMA AutomaticFrame ==
    ASSUME IInv, rec # NoRecord, NEW t \in Turns, t.by = "observe", t.r = rec,
           rec.status = "writing", rec.began, NEW whole \in BOOLEAN,
           screen' = Received(t, whole)
    PROVE  /\ HistoryInv(rec, screen', task)
           /\ whole => 0 \in screen'.whole
  <1>1. /\ screen \in Screens /\ ManualRecorded(rec, screen, task) /\ Stored(rec)
        /\ rec.status \in Statuses /\ Coherent(rec)
    BY DEF IInv, HistoryInv, Stored
  <1>2. rec.op = NoOp /\ rec.rev = 0
    BY <1>1, CoherentDelivery DEF Stored, Terminal, TerminalStatuses
  <1> DEFINE w == IF whole THEN screen.whole \cup {0} ELSE screen.whole
  <1>3. screen' = [screen EXCEPT !.auto = screen.auto + 1, !.absent = FALSE, !.whole = w]
    BY <1>1, <1>2 DEF Received, Screens
  <1>4. w \in SUBSET Int /\ screen.auto + 1 \in Nat
    BY <1>1 DEF Screens
  <1> HIDE DEF w
  <1>5. /\ screen' \in Screens /\ screen'.auto = screen.auto + 1 /\ screen'.manual = screen.manual
        /\ screen'.open = screen.open /\ screen'.whole = w
    BY <1>1, <1>3, <1>4 DEF Screens
  <1>6. whole => 0 \in screen'.whole
    BY <1>5 DEF w
  <1>7. AutoRecorded(rec, screen')
    BY DEF AutoRecorded, PriorWrite, Waiting
  <1>8. ManualRecorded(rec, screen', task)
    BY <1>1, <1>2, <1>5, Nothing DEF ManualRecorded
  <1> QED
    BY <1>5, <1>6, <1>7, <1>8 DEF HistoryInv

\* The first frame of a manual send reaches the terminal: its intent is already recorded.
LEMMA ManualFrame ==
    ASSUME IInv, rec # NoRecord, NEW t \in Turns, t.by # "observe", t.id \in Revisions,
           rec.op # NoOp, t.id = rec.op.id, rec.op.phase = "write-intent-persisted",
           NEW whole \in BOOLEAN, screen' = Received(t, whole)
    PROVE  /\ HistoryInv(rec, screen', task)
           /\ whole => t.id \in screen'.whole
  <1>1. /\ screen \in Screens /\ ManualRecorded(rec, screen, task) /\ AutoRecorded(rec, screen)
    BY DEF IInv, HistoryInv
  <1> DEFINE w == IF whole THEN screen.whole \cup {t.id} ELSE screen.whole
             m == [screen.manual EXCEPT ![t.id] = @ + 1]
  <1>2. screen' = [screen EXCEPT !.manual = m, !.open = screen.open \cup {t.id}, !.whole = w]
    BY <1>1 DEF Received, Screens
  <1>3. /\ w \in SUBSET Int /\ screen.whole \subseteq w /\ m \in [Revisions -> Nat]
        /\ \A i \in Revisions : m[i] = IF i = t.id THEN screen.manual[i] + 1 ELSE screen.manual[i]
        /\ screen.open \cup {t.id} \in SUBSET Int
        /\ whole => t.id \in w
    BY <1>1, PromptAssumption DEF Screens, Revisions
  <1> HIDE DEF w, m
  <1>4. /\ screen' \in Screens /\ screen'.auto = screen.auto /\ screen'.absent = screen.absent
        /\ screen'.manual = m /\ screen'.open = screen.open \cup {t.id} /\ screen'.whole = w
        /\ screen'.confirmed = screen.confirmed
    BY <1>1, <1>2, <1>3 DEF Screens
  <1>5. AutoRecorded(rec, screen')
    BY <1>1, <1>3, <1>4 DEF AutoRecorded
  <1>6. ManualRecorded(rec, screen', task)
    <2>1. \A i \in Revisions : screen.manual[i] \in Nat /\ i \in Int
      BY <1>1, PromptAssumption DEF Screens, Revisions
    <2>2. \A i \in Revisions : screen'.manual[i] > 0 => rec.op # NoOp /\ i <= rec.op.id
      BY <1>1, <1>3, <1>4, <2>1 DEF ManualRecorded
    <2>3. \A i \in screen'.open : i = rec.op.id /\ i \in Revisions /\ screen'.manual[i] > 0
      BY <1>1, <1>3, <1>4, <2>1 DEF ManualRecorded
    <2>4. ~PreIntent(rec.op)
      BY DEF PreIntent
    <2> QED
      BY <1>1, <1>4, <2>2, <2>3, <2>4 DEF ManualRecorded
  <1> QED
    BY <1>3, <1>4, <1>5, <1>6 DEF HistoryInv

\* The place a turn at one of these steps has, in short.
LEMMA AtTheTerminal ==
    ASSUME IInv, NEW at \in {"admit", "submit", "rejected", "ambiguous", "accepted"}, At(at)
    PROVE  \/ /\ turn.by = "observe" /\ rec.status = "writing" /\ rec.began /\ ~Terminal(rec)
              /\ at \in {"admit", "rejected"} => Writing(rec, screen)
              /\ at = "accepted" => 0 \in screen.whole
           \/ /\ turn.by = "manual" /\ rec.op # NoOp /\ turn.id = rec.op.id
              /\ rec.op.phase = "write-intent-persisted" /\ Terminal(rec)
              /\ at \in {"admit", "rejected"} => screen.manual[turn.id] = 0
              /\ at = "accepted" => turn.id \in screen.whole
  <1>1. Placed(turn.by, at, turn.id, rec, screen) /\ rec.status \in Statuses /\ Coherent(rec)
    BY Running
  <1>2. rec.op # NoOp => Terminal(rec)
    BY <1>1, CoherentDelivery
  <1> QED
    BY <1>1, <1>2 DEF Placed, AutoAt, ManualAt, Writing, Terminal, TerminalStatuses

\* The admission of the first frame keeps the invariant.
LEMMA AdmitStep ==
    ASSUME IInv, Admit
    PROVE  IInv'
  <1>1. /\ At("admit")
        /\ UNCHANGED <<draft, late, agent, lease, tracked, owner, task, finalizer, rec>>
    BY DEF Admit
  <1>2. /\ turn \in Turns /\ turn.r = rec /\ turn.at = "admit" /\ rec # NoRecord
        /\ HistoryInv(rec, screen, task) /\ (Terminal(rec) => lease.auto = "none")
        /\ turn.by \in {"manual", "finalize"} => turn.id \in Revisions
    BY <1>1, Running
  <1>3. lease' \in [auto : Holds, manual : Holds]
    BY <1>1 DEF IInv, LeaseInv
  <1>4. \/ /\ turn.by = "observe" /\ rec.status = "writing" /\ rec.began /\ ~Terminal(rec)
           /\ Writing(rec, screen)
        \/ /\ turn.by = "manual" /\ rec.op # NoOp /\ turn.id = rec.op.id
           /\ rec.op.phase = "write-intent-persisted" /\ screen.manual[turn.id] = 0
    BY <1>1, AtTheTerminal
  <1>5. ASSUME NEW why \in {"agent", "lease", "closing"},
               turn' = [turn EXCEPT !.at = "rejected", !.why = why, !.moved = "no"],
               UNCHANGED screen
        PROVE  IInv'
    <2> DEFINE u == [turn EXCEPT !.at = "rejected", !.why = why, !.moved = "no"]
    <2>1. u \in Turns /\ u.at = "rejected" /\ u.by = turn.by /\ u.id = turn.id /\ u.r = rec
      BY <1>2 DEF Turns, Places
    <2>2. Placed(u.by, u.at, u.id, rec, screen')
      BY <1>4, <1>5, <2>1 DEF Placed, AutoAt, ManualAt
    <2> HIDE DEF u
    <2> QED
      BY <1>1, <1>2, <1>3, <1>5, <2>1, <2>2, TurnMoves DEF u
  <1>6. ASSUME NEW whole \in BOOLEAN, screen' = Received(turn, whole)
        PROVE  /\ HistoryInv(rec, screen', task)
               /\ Placed(turn.by, "submit", turn.id, rec, screen')
               /\ Placed(turn.by, "ambiguous", turn.id, rec, screen')
               /\ whole => Placed(turn.by, "accepted", turn.id, rec, screen')
    <2>1. CASE turn.by = "observe"
      <3>1. HistoryInv(rec, screen', task) /\ (whole => 0 \in screen'.whole)
        BY <1>2, <1>4, <1>6, <2>1, AutomaticFrame
      <3> QED
        BY <1>4, <2>1, <3>1 DEF Placed, AutoAt
    <2>2. CASE turn.by = "manual"
      <3>1. HistoryInv(rec, screen', task) /\ (whole => turn.id \in screen'.whole)
        BY <1>2, <1>4, <1>6, <2>2, ManualFrame
      <3> QED
        BY <1>4, <2>2, <3>1 DEF Placed, ManualAt
    <2> QED
      BY <1>4, <2>1, <2>2
  <1>7. ASSUME NEW whole \in BOOLEAN, screen' = Received(turn, whole),
               turn' = [turn EXCEPT !.at = IF whole THEN "accepted" ELSE "submit"]
        PROVE  IInv'
    <2> DEFINE p == IF whole THEN "accepted" ELSE "submit"
               u == [turn EXCEPT !.at = p]
    <2>1. p \in Places /\ HistoryInv(rec, screen', task)
          /\ Placed(turn.by, p, turn.id, rec, screen')
      BY <1>6, <1>7 DEF Places
    <2> HIDE DEF p
    <2>2. u \in Turns /\ u.at = p /\ u.by = turn.by /\ u.id = turn.id /\ u.r = rec
      BY <1>2, <2>1 DEF Turns
    <2>3. turn' = u
      BY <1>7 DEF p
    <2> HIDE DEF u
    <2> QED
      BY <1>1, <1>2, <1>3, <2>1, <2>2, <2>3, TurnMoves
  <1>8. ASSUME turn' = [turn EXCEPT !.at = "ambiguous", !.moved = "no"],
               screen' \in {screen, Received(turn, FALSE)}
        PROVE  IInv'
    <2> DEFINE u == [turn EXCEPT !.at = "ambiguous", !.moved = "no"]
    <2>1. u \in Turns /\ u.at = "ambiguous" /\ u.by = turn.by /\ u.id = turn.id /\ u.r = rec
      BY <1>2 DEF Turns, Places
    <2>2. Placed(turn.by, "ambiguous", turn.id, rec, screen)
      BY <1>4 DEF Placed, AutoAt, ManualAt
    <2>3. HistoryInv(rec, screen', task) /\ Placed(turn.by, "ambiguous", turn.id, rec, screen')
      BY <1>2, <1>6, <1>8, <2>2
    <2> HIDE DEF u
    <2> QED
      BY <1>1, <1>2, <1>3, <1>8, <2>1, <2>3, TurnMoves DEF u
  <1>9. \/ \E why \in {Rejection} \cup (IF Open THEN {} ELSE {"closing"}) :
             /\ why # "none" /\ UNCHANGED screen
             /\ turn' = [turn EXCEPT !.at = "rejected", !.why = why, !.moved = "no"]
        \/ \E whole \in BOOLEAN :
             /\ turn' = [turn EXCEPT !.at = IF whole THEN "accepted" ELSE "submit"]
             /\ screen' = Received(turn, whole)
        \/ /\ turn' = [turn EXCEPT !.at = "ambiguous", !.moved = "no"]
           /\ screen' \in {screen, Received(turn, FALSE)}
    BY DEF Admit
  <1>10. Rejection \in {"agent", "lease", "closing", "none"}
    BY DEF Rejection
  <1> QED
    BY <1>5, <1>7, <1>8, <1>9, <1>10

\* The history may only gain whole texts that the record can speak of.
LEMMA WholeGrows ==
    ASSUME IInv, rec # NoRecord, NEW i \in Int, screen' = [screen EXCEPT !.whole = @ \cup {i}]
    PROVE  HistoryInv(rec, screen', task) /\ i \in screen'.whole
  <1>1. screen \in Screens /\ HistoryInv(rec, screen, task)
    BY DEF IInv, HistoryInv
  <1>2. /\ screen' \in Screens /\ screen'.auto = screen.auto /\ screen'.absent = screen.absent
        /\ screen'.manual = screen.manual /\ screen'.whole = screen.whole \cup {i}
        /\ screen'.open = screen.open /\ screen'.confirmed = screen.confirmed
    BY <1>1 DEF Screens
  <1> QED
    BY <1>1, <1>2 DEF HistoryInv, AutoRecorded, ManualRecorded, Untouched

\* The second frame.
LEMMA SubmitStep ==
    ASSUME IInv, Submit
    PROVE  IInv'
  <1>1. /\ At("submit")
        /\ UNCHANGED <<draft, late, agent, lease, tracked, owner, task, finalizer, rec>>
    BY DEF Submit
  <1>2. /\ turn \in Turns /\ turn.r = rec /\ turn.at = "submit" /\ rec # NoRecord
        /\ HistoryInv(rec, screen, task) /\ (Terminal(rec) => lease.auto = "none")
        /\ turn.by \in {"manual", "finalize"} => turn.id \in Revisions
        /\ rec \in Records
    BY <1>1, Running
  <1>3. lease' \in [auto : Holds, manual : Holds]
    BY <1>1 DEF IInv, LeaseInv
  <1>4. \/ /\ turn.by = "observe" /\ rec.status = "writing" /\ rec.began /\ ~Terminal(rec)
        \/ /\ turn.by = "manual" /\ rec.op # NoOp /\ turn.id = rec.op.id
           /\ rec.op.phase = "write-intent-persisted"
    BY <1>1, AtTheTerminal
  <1>5. CASE turn' = [turn EXCEPT !.at = "ambiguous", !.moved = "no"] /\ UNCHANGED screen
    <2> DEFINE u == [turn EXCEPT !.at = "ambiguous", !.moved = "no"]
    <2>1. u \in Turns /\ u.at = "ambiguous" /\ u.by = turn.by /\ u.id = turn.id /\ u.r = rec
      BY <1>2 DEF Turns, Places
    <2>2. Placed(u.by, u.at, u.id, rec, screen')
      BY <1>4, <1>5, <2>1 DEF Placed, AutoAt, ManualAt
    <2> HIDE DEF u
    <2> QED
      BY <1>1, <1>2, <1>3, <1>5, <2>1, <2>2, TurnMoves DEF u
  <1>6. CASE /\ turn' = [turn EXCEPT !.at = "accepted"]
             /\ screen' = [screen EXCEPT !.whole = @ \cup {IF turn.by = "observe" THEN turn.r.rev
                                                                                 ELSE turn.id}]
    <2> DEFINE u == [turn EXCEPT !.at = "accepted"]
               i == IF turn.by = "observe" THEN turn.r.rev ELSE turn.id
    <2>1. u \in Turns /\ u.at = "accepted" /\ u.by = turn.by /\ u.id = turn.id /\ u.r = rec
      BY <1>2 DEF Turns, Places
    <2>2. i \in Int /\ (turn.by = "observe" => i = 0)
      BY <1>2, <1>4 DEF IInv, Stored, Records, Turns
    <2>3. turn.by # "observe" => i = turn.id
      OBVIOUS
    <2>4. screen' = [screen EXCEPT !.whole = @ \cup {i}]
      BY <1>6
    <2> HIDE DEF i, u
    <2>5. HistoryInv(rec, screen', task) /\ i \in screen'.whole
      BY <1>2, <2>2, <2>4, WholeGrows
    <2>6. Placed(u.by, u.at, u.id, rec, screen')
      BY <1>4, <2>1, <2>2, <2>3, <2>5 DEF Placed, AutoAt, ManualAt
    <2> QED
      BY <1>1, <1>2, <1>3, <1>6, <2>1, <2>5, <2>6, TurnMoves DEF u
  <1> QED
    BY <1>5, <1>6 DEF Submit

\* Nothing was written: the record takes the intent back, and still admits earlier writes.
LEMMA RejectedStep ==
    ASSUME IInv, Rejected
    PROVE  IInv'
  <1>1. At("rejected") /\ UNCHANGED <<draft, agent, screen>>
    BY DEF Rejected, Quiet
  <1>2. /\ turn \in Turns /\ turn.r = rec /\ turn.at = "rejected" /\ rec # NoRecord
        /\ HistoryInv(rec, screen, task) /\ AutoRecorded(rec, screen)
        /\ ManualRecorded(rec, screen, task) /\ screen \in Screens
        /\ lease.auto \in Holds /\ (Terminal(rec) => lease.auto = "none")
        /\ turn.by \in {"manual", "finalize"} => turn.id \in Revisions
        /\ rec \in Records /\ rec.status \in Statuses /\ Coherent(rec)
    BY <1>1, Running
  <1>3. \/ turn.by = "observe" /\ ~Terminal(rec) /\ Writing(rec, screen)
        \/ /\ turn.by = "manual" /\ rec.op # NoOp /\ turn.id = rec.op.id
           /\ rec.op.phase = "write-intent-persisted" /\ Terminal(rec)
           /\ screen.manual[turn.id] = 0
    BY <1>1, AtTheTerminal
  <1>4. CASE turn.by = "observe"
    <2> DEFINE n == Reduce(turn.r, "write-rejected-before-bytes")
               b == turn.r.attempts > 0
               q == [n EXCEPT !.began = b]
    <2>1. Store(turn, q, IF turn.why = "agent" THEN Ends(turn, q, "none")
                                               ELSE GoesOn(turn, "withdrawn", q))
      BY <1>4 DEF Rejected
    <2>2. NextStatus(rec, "write-rejected-before-bytes") = "waiting-ready"
      BY <1>2, <1>3, <1>4, Outcomes DEF Writing
    <2>3. "waiting-ready" \in Statuses \ TerminalStatuses /\ "waiting-ready" \in Waiting
      BY DEF Statuses, Waiting, TerminalStatuses
    <2>4. /\ n \in Records /\ n.status = "waiting-ready" /\ n.rev = rec.rev /\ n.op = rec.op
          /\ n.attempts = rec.attempts
      BY <1>2, <2>2, <2>3, ReduceFields
    <2>b. b \in BOOLEAN
      OBVIOUS
    <2> HIDE DEF n, b
    <2>5. /\ q \in Records /\ q.status = "waiting-ready" /\ q.rev = rec.rev /\ q.op = rec.op
          /\ q.attempts = rec.attempts
      BY <1>2, <2>4, <2>b DEF Records
    <2>6. screen.auto > 0 => PriorWrite(q)
      BY <1>3, <1>4, <2>5 DEF Writing, PriorWrite
    <2>7. screen.auto = 0 \/ screen'.absent
      BY <1>1, <1>3, <1>4 DEF Writing
    <2> HIDE DEF q
    <2>8. Coherent(q) /\ Becomes(q) => Leaves(q)
      <3> SUFFICES ASSUME Coherent(q), Becomes(q) PROVE Leaves(q)
        OBVIOUS
      <3>1. rec' = q /\ late' \in BOOLEAN
        BY DEF Becomes
      <3> QED
        BY <1>1, <1>2, <1>3, <1>4, <2>3, <2>5, <2>6, <2>7, <3>1, LeavesDelivery
    <2>9. Placed(turn.by, "withdrawn", turn.id, q, screen') /\ ~Terminal(q)
      BY <1>4, <2>3, <2>5 DEF Placed, AutoAt, Terminal
    <2>10. "withdrawn" \in Places /\ "none" \in Holds
      BY DEF Places, Holds
    <2>11. CASE turn.why = "agent"
      BY <1>1, <1>2, <1>4, <2>1, <2>5, <2>8, <2>9, <2>10, <2>11, SavesAndEnds
    <2>12. CASE turn.why # "agent"
      BY <1>1, <1>2, <1>4, <2>1, <2>5, <2>8, <2>9, <2>10, <2>12, SavesAndGoesOn
    <2> QED
      BY <2>11, <2>12
  <1>5. CASE turn.by = "manual"
    <2> DEFINE c == turn.why = "closing"
               q == Failed(turn.r, c)
    <2>1. Store(turn, q, Ends(turn, q, lease.auto))
      BY <1>5 DEF Rejected
    <2>2. c \in BOOLEAN
      OBVIOUS
    <2> HIDE DEF c
    <2>3. /\ q \in Records /\ SameDelivery(rec, q) /\ q.op.id = rec.op.id
          /\ q.op.phase = "failed-before-write"
      BY <1>2, <2>2, FailedFields
    <2> HIDE DEF q
    <2>4. Coherent(q) /\ Becomes(q) => Leaves(q)
      BY <1>1, <1>2, <1>3, <1>5, <2>3, PhaseLeaves DEF ManualRecorded
    <2> QED
      BY <1>1, <1>2, <1>3, <1>5, <2>1, <2>3, <2>4, SavesAndEnds
  <1> QED
    BY <1>3, <1>4, <1>5

\* A withdrawn write gives the delivery up.
LEMMA WithdrawnStep ==
    ASSUME IInv, Withdrawn
    PROVE  IInv'
  <1>1. /\ At("withdrawn") /\ UNCHANGED <<draft, agent, screen>>
        /\ Settles(turn, IF turn.why = "closing" THEN "task-closing" ELSE "lease-taken-over")
    BY DEF Withdrawn, Quiet
  <1>2. /\ turn.r = rec /\ turn.at = "withdrawn" /\ rec # NoRecord
        /\ Placed(turn.by, "withdrawn", turn.id, rec, screen) /\ rec.status \in Statuses
    BY <1>1, Running
  <1>3. turn.by = "observe" /\ ~Terminal(rec)
    BY <1>2 DEF Placed, AutoAt, ManualAt, Terminal, TerminalStatuses
  <1>4. /\ NextStatus(rec, "task-closing") \in {"manual-required", "cancelled"}
        /\ NextStatus(rec, "lease-taken-over") = "manual-required"
    BY <1>2, <1>3, Outcomes
  <1>5. CASE turn.why = "closing"
    BY <1>1, <1>2, <1>3, <1>4, <1>5, SettlesEnds
  <1>6. CASE turn.why # "closing"
    BY <1>1, <1>2, <1>3, <1>4, <1>6, SettlesEnds
  <1> QED
    BY <1>5, <1>6

\* Nobody knows what was written: the user must say.
LEMMA OutcomeAmbiguousStep ==
    ASSUME IInv, OutcomeAmbiguous
    PROVE  IInv'
  <1>1. At("ambiguous") /\ UNCHANGED <<draft, agent, screen>>
    BY DEF OutcomeAmbiguous, Quiet
  <1>2. /\ turn \in Turns /\ turn.r = rec /\ turn.at = "ambiguous" /\ rec # NoRecord
        /\ HistoryInv(rec, screen, task) /\ ManualRecorded(rec, screen, task)
        /\ screen \in Screens
        /\ lease.auto \in Holds /\ (Terminal(rec) => lease.auto = "none")
        /\ turn.by \in {"manual", "finalize"} => turn.id \in Revisions
        /\ rec \in Records /\ rec.status \in Statuses
    BY <1>1, Running
  <1>3. \/ turn.by = "observe" /\ ~Terminal(rec)
        \/ /\ turn.by = "manual" /\ rec.op # NoOp
           /\ rec.op.phase = "write-intent-persisted" /\ Terminal(rec)
    BY <1>1, AtTheTerminal
  <1>4. CASE turn.by = "observe"
    <2>1. Settles(turn, "write-outcome-ambiguous")
      BY <1>4 DEF OutcomeAmbiguous
    <2>2. NextStatus(rec, "write-outcome-ambiguous") = "manual-required"
      BY <1>2, <1>3, <1>4, Outcomes
    <2> QED
      BY <1>1, <1>2, <1>4, <2>1, <2>2, SettlesEnds
  <1>5. CASE turn.by = "manual"
    <2> DEFINE q == Ambiguous(turn.r)
    <2>1. Store(turn, q, Ends(turn, q, lease.auto))
      BY <1>5 DEF OutcomeAmbiguous
    <2>2. /\ q \in Records /\ SameDelivery(rec, q) /\ q.op.id = rec.op.id
          /\ q.op.phase = "manual-reconciliation-required"
      BY <1>2, OpAtFields DEF Ambiguous, Phases
    <2> HIDE DEF q
    <2>3. Coherent(q) /\ Becomes(q) => Leaves(q)
      BY <1>1, <1>2, <1>3, <1>5, <2>2, PhaseLeaves DEF ManualRecorded, PreIntent
    <2> QED
      BY <1>1, <1>2, <1>3, <1>5, <2>1, <2>2, <2>3, SavesAndEnds
  <1> QED
    BY <1>3, <1>4, <1>5

\* The terminal has received the whole text: the record may say so.
LEMMA AcceptedStep ==
    ASSUME IInv, Accepted
    PROVE  IInv'
  <1>1. At("accepted") /\ UNCHANGED <<draft, agent, screen>>
    BY DEF Accepted
  <1>2. /\ turn \in Turns /\ turn.r = rec /\ turn.at = "accepted" /\ rec # NoRecord
        /\ HistoryInv(rec, screen, task) /\ ManualRecorded(rec, screen, task)
        /\ screen \in Screens
        /\ lease.auto \in Holds /\ (Terminal(rec) => lease.auto = "none")
        /\ turn.by \in {"manual", "finalize"} => turn.id \in Revisions
        /\ rec \in Records /\ rec.status \in Statuses /\ Coherent(rec)
    BY <1>1, Running
  <1>3. \/ turn.by = "observe" /\ ~Terminal(rec) /\ rec.status = "writing" /\ 0 \in screen.whole
        \/ /\ turn.by = "manual" /\ rec.op # NoOp /\ turn.id = rec.op.id
           /\ rec.op.phase = "write-intent-persisted" /\ Terminal(rec)
           /\ turn.id \in screen.whole
    BY <1>1, AtTheTerminal
  <1>4. CASE turn.by = "observe"
    <2> DEFINE q == Reduce(turn.r, "write-accepted")
    <2>1. Store(turn, q, Ends(turn, q, lease.auto))
      BY <1>4 DEF Accepted
    <2>2. rec.attempts <= 1 /\ rec.attempts \in Int
      BY <1>2, <1>3, <1>4, CoherentDelivery DEF Records
    <2>3. NextStatus(rec, "write-accepted") = "verifying"
      BY <1>2, <1>3, <1>4, <2>2, Outcomes
    <2>4. "verifying" \in Statuses \ TerminalStatuses /\ "verifying" \notin Waiting
      BY DEF Statuses, TerminalStatuses, Waiting
    <2>5. q \in Records /\ ~Terminal(q)
      BY <1>2, <2>3, <2>4, ReduceFields DEF Terminal
    <2>6. Coherent(q) /\ Becomes(q) => Leaves(q)
      BY <1>1, <1>2, <1>3, <1>4, <2>3, <2>4, EventLeaves
    <2> HIDE DEF q
    <2> QED
      BY <1>1, <1>2, <1>4, <2>1, <2>5, <2>6, SavesAndEnds
  <1>5. CASE turn.by = "manual"
    <2> DEFINE q == OpAt(turn.r, "write-accepted")
    <2>1. Store(turn, q, GoesOn(turn, "settle", q))
      BY <1>5 DEF Accepted
    <2>2. /\ q \in Records /\ SameDelivery(rec, q) /\ q.op.id = rec.op.id
          /\ q.op.phase = "write-accepted"
      BY <1>2, OpAtFields DEF Phases
    <2> HIDE DEF q
    <2>3. Coherent(q) /\ Becomes(q) => Leaves(q)
      BY <1>1, <1>2, <1>3, <1>5, <2>2, PhaseLeaves DEF ManualRecorded, PreIntent
    <2>4. q.op # NoOp
      BY <2>2, Nothing
    <2>5. Placed(turn.by, "settle", turn.id, q, screen') /\ "settle" \in Places
      BY <1>3, <1>5, <2>2, <2>4 DEF Placed, ManualAt, Places
    <2> QED
      BY <1>1, <1>2, <1>3, <1>5, <2>1, <2>2, <2>3, <2>5, SavesAndGoesOn
  <1> QED
    BY <1>3, <1>4, <1>5

-----------------------------------------------------------------------------
(* Clearing the draft, and the end of a manual operation. *)

\* Sealing the edits touches neither the delivery nor the operation.
LEMMA ClearedFields ==
    ASSUME NEW i \in Int, rec \in Records
    PROVE  /\ Cleared(i) \in Records /\ SameDelivery(rec, Cleared(i))
           /\ Cleared(i).op = rec.op
  BY DEF Cleared, Records, SameDelivery

\* A clear of the draft leaves a sound record.
LEMMA ClearLeaves ==
    ASSUME IInv, rec # NoRecord, NEW i \in Int, Coherent(Cleared(i)), Becomes(Cleared(i)),
           draft' \in {draft, NoDraft}, UNCHANGED <<agent, screen>>
    PROVE  Leaves(Cleared(i))
  <1> DEFINE q == Cleared(i)
  <1>1. rec \in Records /\ Stored(rec) /\ screen \in Screens /\ ManualRecorded(rec, screen, task)
    BY DEF IInv, HistoryInv, Stored
  <1>2. q \in Records /\ SameDelivery(rec, q) /\ q.op = rec.op
    BY <1>1, ClearedFields
  <1>3. rec' = q /\ late' \in BOOLEAN
    BY DEF Becomes
  <1>4. Coherent(q)
    OBVIOUS
  <1> HIDE DEF q
  <1>5. ManualRecorded(q, screen', task)
    BY <1>1, <1>2 DEF ManualRecorded
  <1>6. q.op # NoOp => q.op.id \in 0 .. q.rev /\ q.op.phase # "none"
    BY <1>1, <1>2 DEF Stored, SameDelivery
  <1>7. Leaves(q)
    BY <1>1, <1>2, <1>3, <1>4, <1>5, <1>6, LeavesOperation DEF SameDelivery
  <1> QED
    BY <1>7 DEF q

\* A delivered draft is cleared, and the leases go.
LEMMA ClearDeliveredStep ==
    ASSUME IInv, ClearDelivered
    PROVE  IInv'
  <1> DEFINE i == turn.r.rev
  <1>1. At("clear") /\ UNCHANGED <<agent, screen>>
        /\ Clear(turn, i, Ends(turn, turn.r, "none"), Throws(turn, "none"))
    BY DEF ClearDelivered
  <1>2. /\ turn \in Turns /\ turn.r = rec /\ rec # NoRecord /\ rec \in Records
        /\ Placed(turn.by, "clear", turn.id, rec, screen)
        /\ turn.by \in {"manual", "finalize"} => turn.id \in Revisions
    BY <1>1, Running
  <1>3. turn.by # "drain"
    BY <1>2 DEF Placed, ManualAt
  <1>4. i \in Int /\ "none" \in Holds
    BY <1>2 DEF Records, Holds
  <1> HIDE DEF i
  <1>5. CASE /\ Coherent(Cleared(i)) /\ Becomes(Cleared(i)) /\ Ends(turn, turn.r, "none")
             /\ draft' = IF draft.rev = i THEN NoDraft ELSE draft
    <2>1. Leaves(Cleared(i))
      BY <1>1, <1>2, <1>4, <1>5, ClearLeaves
    <2> QED
      BY <1>2, <1>3, <1>4, <1>5, <2>1, TurnEnds
  <1>6. CASE Throws(turn, "none") /\ UNCHANGED <<rec, late, draft>>
    <2>1. Leaves(rec)
      BY <1>1, <1>2, <1>6, LeavesAsIs DEF IInv, Kinds
    <2> QED
      BY <1>2, <1>4, <1>6, <2>1, TurnThrows
  <1> QED
    BY <1>1, <1>5, <1>6 DEF Clear

\* An accepted operation is over for the automatic delivery, and so is one to reconcile.
LEMMA OperationOver ==
    ASSUME IInv, rec # NoRecord, rec.op.phase # "none"
    PROVE  rec.op # NoOp /\ Terminal(rec) /\ rec.op.id \in Revisions
  <1>1. rec.op # NoOp
    BY Nothing
  <1>2. Coherent(rec) /\ rec.status \in Statuses /\ Stored(rec)
    BY DEF IInv, Stored
  <1> QED
    BY <1>1, <1>2, CoherentDelivery, PromptAssumption DEF Stored, Revisions

\* An accepted operation clears its draft.
LEMMA SettleStep ==
    ASSUME IInv, Settle
    PROVE  IInv'
  <1> DEFINE i == turn.r.op.id
  <1>1. /\ At("settle") /\ UNCHANGED <<agent, screen>>
        /\ Clear(turn, i, GoesOn(turn, "complete", Cleared(i)),
                  IF turn.by \in {"manual", "finalize"} THEN Ends(turn, turn.r, lease.auto)
                                                        ELSE Throws(turn, "none"))
    BY DEF Settle
  <1>2. /\ turn \in Turns /\ turn.r = rec /\ turn.at = "settle" /\ rec # NoRecord
        /\ rec \in Records /\ Placed(turn.by, "settle", turn.id, rec, screen)
        /\ lease.auto \in Holds /\ (Terminal(rec) => lease.auto = "none")
        /\ turn.by \in {"manual", "finalize"} => turn.id \in Revisions
    BY <1>1, Running
  <1>3. rec.op.phase = "write-accepted"
    BY <1>2 DEF Placed, ManualAt, AutoAt
  <1>4. Terminal(rec) /\ i \in Int /\ "none" \in Holds /\ "complete" \in Places
    BY <1>2, <1>3, OperationOver DEF Records, Operations, Holds, Places
  <1> HIDE DEF i
  <1>5. CASE /\ Coherent(Cleared(i)) /\ Becomes(Cleared(i))
             /\ GoesOn(turn, "complete", Cleared(i))
             /\ draft' = IF draft.rev = i THEN NoDraft ELSE draft
    <2>1. Leaves(Cleared(i))
      BY <1>1, <1>2, <1>4, <1>5, ClearLeaves
    <2>2. Cleared(i) \in Records /\ Cleared(i).op = rec.op
      BY <1>2, <1>4, ClearedFields
    <2>3. Placed(turn.by, "complete", turn.id, Cleared(i), screen')
      BY <1>2, <1>3, <2>2 DEF Placed, ManualAt, AutoAt
    <2> QED
      BY <1>2, <1>4, <1>5, <2>1, <2>2, <2>3, TurnGoesOn
  <1>6. CASE /\ UNCHANGED <<rec, late, draft>>
             /\ IF turn.by \in {"manual", "finalize"} THEN Ends(turn, turn.r, lease.auto)
                                                       ELSE Throws(turn, "none")
    <2>1. Leaves(rec)
      BY <1>1, <1>2, <1>6, LeavesAsIs DEF IInv, Kinds
    <2>2. CASE turn.by \in {"manual", "finalize"}
      BY <1>2, <1>6, <2>1, <2>2, TurnEnds
    <2>3. CASE turn.by \notin {"manual", "finalize"}
      BY <1>2, <1>4, <1>6, <2>1, <2>3, TurnThrows
    <2> QED
      BY <2>2, <2>3
  <1> QED
    BY <1>1, <1>5, <1>6 DEF Clear

\* What became of the operation is no longer open, whether or not the save succeeds.
LEMMA NoLongerOpen ==
    ASSUME IInv, rec # NoRecord, screen' = [screen EXCEPT !.open = @ \ {rec.op.id}]
    PROVE  /\ HistoryInv(rec, screen', task) /\ screen' \in Screens
           /\ screen'.auto = screen.auto /\ screen'.absent = screen.absent
           /\ screen'.whole = screen.whole /\ screen'.manual = screen.manual
           /\ screen'.confirmed = screen.confirmed /\ screen'.open = {}
  <1>1. screen \in Screens /\ AutoRecorded(rec, screen) /\ ManualRecorded(rec, screen, task)
    BY DEF IInv, HistoryInv
  <1>2. /\ screen' \in Screens
        /\ screen'.auto = screen.auto /\ screen'.absent = screen.absent
        /\ screen'.whole = screen.whole /\ screen'.manual = screen.manual
        /\ screen'.confirmed = screen.confirmed /\ screen'.open = screen.open \ {rec.op.id}
    BY <1>1 DEF Screens
  <1>3. screen'.open = {}
    BY <1>1, <1>2 DEF ManualRecorded
  <1> QED
    BY <1>1, <1>2, <1>3 DEF HistoryInv, AutoRecorded, ManualRecorded

\* An operation whose draft was cleared ends, completed or reconciled.
LEMMA OperationEnds ==
    ASSUME IInv, NEW at \in {"complete", "reconcile"}, At(at),
           NEW p \in {"completed", "reconciled"},
           p = "completed" => rec.op.phase = "write-accepted",
           rec.op.phase \in {"write-accepted", "manual-reconciliation-required"},
           NEW a \in {"none", lease.auto}, NEW q,
           q = [OpAt(turn.r, p) EXCEPT !.floor = turn.r.op.id], Store(turn, q, Ends(turn, q, a)),
           UNCHANGED <<draft, agent>>, screen' = [screen EXCEPT !.open = @ \ {turn.r.op.id}]
    PROVE  IInv'
  <1>1. /\ turn \in Turns /\ turn.r = rec /\ turn.at = at /\ rec # NoRecord /\ rec \in Records
        /\ lease.auto \in Holds /\ (Terminal(rec) => lease.auto = "none")
        /\ turn.by \in {"manual", "finalize"} => turn.id \in Revisions
        /\ ManualRecorded(rec, screen, task)
    BY Running
  <1>2. rec.op # NoOp /\ Terminal(rec)
    BY <1>1, OperationOver
  <1>3. /\ HistoryInv(rec, screen', task) /\ screen' \in Screens
        /\ screen'.auto = screen.auto /\ screen'.absent = screen.absent
        /\ screen'.whole = screen.whole /\ screen'.manual = screen.manual
        /\ screen'.confirmed = screen.confirmed /\ screen'.open = {}
    BY <1>1, NoLongerOpen
  <1> DEFINE n == OpAt(rec, p)
  <1>4. /\ n \in Records /\ SameDelivery(rec, n) /\ n.op.id = rec.op.id /\ n.op.phase = p
    BY <1>1, OpAtFields DEF Phases
  <1>5. rec.op.id \in Int
    BY <1>1 DEF Records, Operations
  <1>6. q = [n EXCEPT !.floor = rec.op.id]
    BY <1>1
  <1> HIDE DEF n
  <1>7. /\ q \in Records /\ SameDelivery(rec, q) /\ q.op.id = rec.op.id /\ q.op.phase = p
    BY <1>4, <1>5, <1>6 DEF Records, SameDelivery
  <1>8. Coherent(q) /\ Becomes(q) => Leaves(q)
    BY <1>1, <1>2, <1>3, <1>7, PhaseLeaves DEF ManualRecorded, PreIntent
  <1>9. a = "none" /\ a \in Holds /\ Terminal(q)
    BY <1>1, <1>2, <1>7 DEF Holds, SameDelivery, Terminal
  <1> QED
    BY <1>1, <1>3, <1>7, <1>8, <1>9, SavesAndEnds

LEMMA CompleteStep ==
    ASSUME IInv, Complete
    PROVE  IInv'
  <1> DEFINE q == [OpAt(turn.r, "completed") EXCEPT !.floor = turn.r.op.id]
  <1>1. /\ At("complete") /\ UNCHANGED <<draft, agent>>
        /\ Store(turn, q, Ends(turn, q, IF turn.by = "drain" THEN "none" ELSE lease.auto))
        /\ screen' = [screen EXCEPT !.open = @ \ {turn.r.op.id}]
    BY DEF Complete
  <1>2. rec.op.phase = "write-accepted"
    BY <1>1, Running DEF Placed, ManualAt, AutoAt
  <1> QED
    BY <1>1, <1>2, OperationEnds

LEMMA ReconcileStep ==
    ASSUME IInv, Reconcile
    PROVE  IInv'
  <1> DEFINE q == [OpAt(turn.r, "reconciled") EXCEPT !.floor = turn.r.op.id]
  <1>1. /\ At("reconcile") /\ UNCHANGED <<draft, agent>>
        /\ Store(turn, q, Ends(turn, q, lease.auto))
        /\ screen' = [screen EXCEPT !.open = @ \ {turn.r.op.id}]
    BY DEF Reconcile
  <1>2. rec.op.phase = "manual-reconciliation-required"
    BY <1>1, Running DEF Placed, ManualAt, AutoAt
  <1> QED
    BY <1>1, <1>2, OperationEnds

\* What the user reported as sent is cleared.
LEMMA ClearObservedStep ==
    ASSUME IInv, ClearObserved
    PROVE  IInv'
  <1> DEFINE i == turn.r.op.id
  <1>1. /\ At("observed-sent") /\ UNCHANGED <<agent, screen>>
        /\ Clear(turn, i, GoesOn(turn, "reconcile", Cleared(i)), Throws(turn, lease.auto))
    BY DEF ClearObserved
  <1>2. /\ turn \in Turns /\ turn.r = rec /\ turn.at = "observed-sent" /\ rec # NoRecord
        /\ rec \in Records /\ Placed(turn.by, "observed-sent", turn.id, rec, screen)
        /\ lease.auto \in Holds /\ (Terminal(rec) => lease.auto = "none")
        /\ HistoryInv(rec, screen, task)
        /\ turn.by \in {"manual", "finalize"} => turn.id \in Revisions
    BY <1>1, Running
  <1>3. rec.op.phase = "manual-reconciliation-required" /\ turn.by = "resolve"
    BY <1>2 DEF Placed, ManualAt, AutoAt
  <1>4. Terminal(rec) /\ i \in Int /\ "reconcile" \in Places
    BY <1>2, <1>3, OperationOver DEF Records, Operations, Places
  <1> HIDE DEF i
  <1>5. CASE /\ Coherent(Cleared(i)) /\ Becomes(Cleared(i))
             /\ GoesOn(turn, "reconcile", Cleared(i))
             /\ draft' = IF draft.rev = i THEN NoDraft ELSE draft
    <2>1. Leaves(Cleared(i))
      BY <1>1, <1>2, <1>4, <1>5, ClearLeaves
    <2>2. Cleared(i) \in Records /\ Cleared(i).op = rec.op
      BY <1>2, <1>4, ClearedFields
    <2>3. Placed(turn.by, "reconcile", turn.id, Cleared(i), screen')
      BY <1>3, <2>2 DEF Placed
    <2> QED
      BY <1>2, <1>4, <1>5, <2>1, <2>2, <2>3, TurnGoesOn
  <1>6. CASE Throws(turn, lease.auto) /\ UNCHANGED <<rec, late, draft>>
    BY <1>1, <1>2, <1>3, <1>6, SaveFails
  <1> QED
    BY <1>1, <1>5, <1>6 DEF Clear

-----------------------------------------------------------------------------
(* Manual sends. *)

\* A manual send before its intent: nothing was written for it.
LEMMA BeforeIntent ==
    ASSUME IInv, NEW at \in {"check", "intent"}, At(at), turn.by = "manual"
    PROVE  /\ rec.op # NoOp /\ turn.id = rec.op.id /\ rec.op.phase = "automation-sealed"
           /\ Terminal(rec) /\ screen.manual[rec.op.id] = 0
           /\ screen.auto = 0 \/ rec.op.id \in screen.confirmed \/ task \in {"drained", "removed"}
  <1>1. /\ Placed(turn.by, at, turn.id, rec, screen) /\ rec # NoRecord
        /\ ManualRecorded(rec, screen, task) /\ screen \in Screens
    BY Running
  <1>2. rec.op # NoOp /\ turn.id = rec.op.id /\ rec.op.phase = "automation-sealed"
    BY <1>1 DEF Placed, ManualAt
  <1>3. Terminal(rec) /\ rec.op.id \in Revisions
    BY <1>1, <1>2, OperationOver
  <1>4. screen.manual[rec.op.id] \in Nat /\ ~(screen.manual[rec.op.id] > 0)
    BY <1>1, <1>2, <1>3 DEF ManualRecorded, PreIntent, Screens
  <1> QED
    BY <1>1, <1>2, <1>3, <1>4 DEF ManualRecorded

\* The agent is ready and the lease acquired, or the attempt is proven not sent.
LEMMA CheckStep ==
    ASSUME IInv, Check
    PROVE  IInv'
  <1>1. At("check") /\ UNCHANGED <<draft, agent, screen>>
    BY DEF Check, Quiet
  <1>2. /\ turn \in Turns /\ turn.r = rec /\ turn.at = "check" /\ rec # NoRecord
        /\ Placed(turn.by, "check", turn.id, rec, screen)
        /\ HistoryInv(rec, screen, task) /\ screen \in Screens /\ rec \in Records
        /\ lease.auto \in Holds /\ (Terminal(rec) => lease.auto = "none")
        /\ turn.by \in {"manual", "finalize"} => turn.id \in Revisions
    BY <1>1, Running
  <1>3. turn.by = "manual"
    BY <1>2 DEF Placed, AutoAt
  <1>4. /\ rec.op # NoOp /\ turn.id = rec.op.id /\ rec.op.phase = "automation-sealed"
        /\ Terminal(rec) /\ screen.manual[rec.op.id] = 0
        /\ screen.auto = 0 \/ rec.op.id \in screen.confirmed \/ task \in {"drained", "removed"}
    BY <1>1, <1>3, BeforeIntent
  <1>5. CASE Store(turn, Failed(turn.r, FALSE), Ends(turn, Failed(turn.r, FALSE), lease.auto))
    <2> DEFINE q == Failed(turn.r, FALSE)
    <2>1. Store(turn, q, Ends(turn, q, lease.auto))
      BY <1>5
    <2>2. /\ q \in Records /\ SameDelivery(rec, q) /\ q.op.id = rec.op.id
          /\ q.op.phase = "failed-before-write"
      BY <1>2, FailedFields
    <2> HIDE DEF q
    <2>3. Coherent(q) /\ Becomes(q) => Leaves(q)
      BY <1>1, <1>2, <1>4, <2>2, PhaseLeaves
    <2> QED
      BY <1>1, <1>2, <1>3, <1>4, <2>1, <2>2, <2>3, SavesAndEnds
  <1>6. CASE /\ turn' = [turn EXCEPT !.at = "intent"]
             /\ lease' = [lease EXCEPT !.manual = "held"]
             /\ NoStore /\ UNCHANGED <<tracked, owner, task, finalizer>>
    <2> DEFINE u == [turn EXCEPT !.at = "intent"]
    <2>1. u \in Turns /\ u.at = "intent" /\ u.by = turn.by /\ u.id = turn.id /\ u.r = rec
      BY <1>2 DEF Turns, Places
    <2>2. Placed(u.by, u.at, u.id, rec, screen')
      BY <1>3, <1>4, <2>1 DEF Placed, ManualAt
    <2>3. lease' \in [auto : Holds, manual : Holds] /\ lease'.auto = lease.auto
      BY <1>6 DEF IInv, LeaseInv, Holds
    <2> HIDE DEF u
    <2>4. UNCHANGED <<rec, late, draft, agent, tracked, owner, task, finalizer, screen>>
      BY <1>1, <1>6 DEF NoStore
    <2> QED
      BY <1>2, <1>6, <2>1, <2>2, <2>3, <2>4, TurnMoves DEF u
  <1> QED
    BY <1>5, <1>6 DEF Check

\* The intent of a manual send becomes durable before its first byte.
LEMMA ManualIntentStep ==
    ASSUME IInv, ManualIntent
    PROVE  IInv'
  <1> DEFINE q == OpAt(turn.r, "write-intent-persisted")
  <1>1. /\ At("intent") /\ turn.by = "manual" /\ UNCHANGED <<draft, agent, screen>>
        /\ Store(turn, q, GoesOn(turn, "admit", q))
    BY DEF ManualIntent, Quiet
  <1>2. /\ turn \in Turns /\ turn.r = rec /\ turn.at = "intent" /\ rec # NoRecord
        /\ HistoryInv(rec, screen, task) /\ screen \in Screens /\ rec \in Records
        /\ lease.auto \in Holds /\ (Terminal(rec) => lease.auto = "none")
        /\ turn.by \in {"manual", "finalize"} => turn.id \in Revisions
    BY <1>1, Running
  <1>3. /\ rec.op # NoOp /\ turn.id = rec.op.id /\ rec.op.phase = "automation-sealed"
        /\ Terminal(rec) /\ screen.manual[rec.op.id] = 0
        /\ screen.auto = 0 \/ rec.op.id \in screen.confirmed \/ task \in {"drained", "removed"}
    BY <1>1, BeforeIntent
  <1>4. /\ q \in Records /\ SameDelivery(rec, q) /\ q.op.id = rec.op.id
        /\ q.op.phase = "write-intent-persisted"
    BY <1>2, OpAtFields DEF Phases
  <1> HIDE DEF q
  <1>5. q.op # NoOp
    BY <1>4, Nothing
  <1>6. Coherent(q) /\ Becomes(q) => Leaves(q)
    BY <1>1, <1>2, <1>3, <1>4, PhaseLeaves DEF PreIntent
  <1>7. Placed(turn.by, "admit", turn.id, q, screen') /\ "admit" \in Places
    BY <1>1, <1>3, <1>4, <1>5 DEF Placed, ManualAt, Places
  <1> QED
    BY <1>1, <1>2, <1>3, <1>4, <1>6, <1>7, SavesAndGoesOn

\* The timer's turn, for the operation it was armed with.
LEMMA FinalizeStep ==
    ASSUME IInv, Finalize
    PROVE  IInv'
  <1> DEFINE t == Turn("finalize", rec, finalizer)
  <1>1. NoTurn /\ finalizer # -1 /\ UNCHANGED <<draft, screen, agent>>
    BY DEF Finalize
  <1>2. finalizer \in Revisions /\ finalizer \in Int
    BY <1>1, PromptAssumption DEF IInv, Kinds, Revisions
  <1>3. CASE /\ rec.op.id = finalizer /\ rec.op.phase = "write-accepted"
             /\ GoesOn(t, "settle", rec) /\ NoStore
    <2>1. rec # NoRecord
      BY <1>3, Nothing
    <2>2. /\ t \in Turns /\ t.r = rec /\ t.by = "finalize" /\ t.id = finalizer
          /\ turn.at # "clear" /\ (Terminal(rec) => lease.auto = "none")
      BY <1>1, <1>2, <2>1, NewTurn DEF Operators
    <2>3. Leaves(rec) /\ rec \in Records
      BY <1>1, <1>3, <2>1, LeavesAsIs DEF IInv, Kinds, Stored, NoStore
    <2>4. Placed(t.by, "settle", t.id, rec, screen') /\ "settle" \in Places
      BY <1>2, <1>3, <2>2 DEF Placed, Places
    <2> HIDE DEF t
    <2> QED
      BY <1>3, <2>2, <2>3, <2>4, TurnGoesOn
  <1>4. CASE /\ finalizer' = -1 /\ NoStore
             /\ UNCHANGED <<turn, lease, tracked, owner, task>>
    <2>1. Kinds'
      BY <1>1, <1>4 DEF IInv, Kinds, NoStore
    <2> QED
      BY <1>1, <1>4, <2>1 DEF IInv, NoStore
  <1> QED
    BY <1>3, <1>4 DEF Finalize

\* The user reports on the ambiguous operation.
LEMMA ResolveStep ==
    ASSUME IInv, NEW sent \in BOOLEAN, Resolve(sent)
    PROVE  IInv'
  <1> DEFINE t == Turn("resolve", rec, -1)
             at == IF sent THEN "observed-sent" ELSE "reconcile"
             s == IF sent THEN screen.said \cup {rec.op.id} ELSE screen.said
  <1>1. /\ NoTurn /\ rec.op.phase = "manual-reconciliation-required"
        /\ screen' = [screen EXCEPT !.said = s]
        /\ UNCHANGED <<draft, agent>> /\ NoStore /\ GoesOn(t, at, rec)
    <2>1. screen \in Screens
      BY DEF IInv, HistoryInv
    <2> QED
      BY <2>1 DEF Resolve, Screens
  <1>2. rec # NoRecord
    BY <1>1, Nothing
  <1>3. /\ rec \in Records /\ rec.op.id \in Int /\ HistoryInv(rec, screen, task)
        /\ screen \in Screens
    BY DEF IInv, Stored, HistoryInv, Records, Operations
  <1>4. /\ t \in Turns /\ t.r = rec /\ t.by = "resolve" /\ turn.at # "clear"
        /\ Terminal(rec) => lease.auto = "none"
    BY <1>1, <1>2, NewTurn DEF Operators
  <1>5. s \in SUBSET Int /\ (sent => rec.op.id \in s)
    BY <1>3 DEF Screens
  <1>6. at \in Places /\ (at = "observed-sent" => sent) /\ at \in {"observed-sent", "reconcile"}
    BY DEF Places
  <1> HIDE DEF s, at, t
  <1>7. /\ screen' \in Screens /\ screen'.said = s /\ screen'.auto = screen.auto
        /\ screen'.absent = screen.absent /\ screen'.manual = screen.manual
        /\ screen'.whole = screen.whole /\ screen'.open = screen.open
        /\ screen'.confirmed = screen.confirmed
    BY <1>1, <1>3, <1>5 DEF Screens
  <1>8. HistoryInv(rec, screen', task)
    BY <1>3, <1>7 DEF HistoryInv, AutoRecorded, ManualRecorded, Untouched
  <1>9. Leaves(rec)
    BY <1>1, <1>2, <1>8 DEF IInv, Leaves, NoStore, Kinds
  <1>10. Placed(t.by, at, t.id, rec, screen')
    BY <1>1, <1>4, <1>5, <1>6, <1>7 DEF Placed
  <1> QED
    BY <1>1, <1>3, <1>4, <1>6, <1>9, <1>10, TurnGoesOn

\* What the user confirms does not contradict the record.
LEMMA ConfirmedGrows ==
    ASSUME rec # NoRecord, HistoryInv(rec, screen, task), NEW i \in Int, NEW confirm \in BOOLEAN,
           screen' = [screen EXCEPT !.confirmed = IF confirm THEN @ \cup {i} ELSE @]
    PROVE  /\ HistoryInv(rec, screen', task) /\ screen' \in Screens
           /\ screen'.auto = screen.auto /\ screen'.absent = screen.absent
           /\ screen'.whole = screen.whole /\ screen'.manual = screen.manual
           /\ screen'.open = screen.open /\ screen.confirmed \subseteq screen'.confirmed
           /\ confirm => i \in screen'.confirmed
  <1> DEFINE c == IF confirm THEN screen.confirmed \cup {i} ELSE screen.confirmed
  <1>1. screen \in Screens
    BY DEF HistoryInv
  <1>2. screen' = [screen EXCEPT !.confirmed = c]
    BY <1>1 DEF Screens
  <1>3. c \in SUBSET Int /\ screen.confirmed \subseteq c /\ (confirm => i \in c)
    BY <1>1 DEF Screens
  <1> HIDE DEF c
  <1>4. /\ screen' \in Screens /\ screen'.confirmed = c
        /\ screen'.auto = screen.auto /\ screen'.absent = screen.absent
        /\ screen'.whole = screen.whole /\ screen'.manual = screen.manual
        /\ screen'.open = screen.open
    BY <1>1, <1>2, <1>3 DEF Screens
  <1> QED
    BY <1>3, <1>4 DEF HistoryInv, AutoRecorded, ManualRecorded

\* An operation that continues is sealed again, and keeps its id.
LEMMA RenewedFields ==
    ASSUME NEW r \in Records, NEW n \in Int
    PROVE  /\ Renewed(r, n) \in Records /\ SameDelivery(r, Renewed(r, n))
           /\ Renewed(r, n).op.id = r.op.id /\ Renewed(r, n).op.phase = "automation-sealed"
  <1> DEFINE a == r.op.attempt + n
             o == [r.op EXCEPT !.phase = "automation-sealed", !.attempt = a]
  <1>a. r.op \in Operations /\ a \in Int
    BY DEF Records, Operations
  <1>2. Renewed(r, n) = [r EXCEPT !.op = o]
    BY <1>a DEF Renewed, Records, Operations
  <1> HIDE DEF a
  <1>1. o \in Operations /\ o.id = r.op.id /\ o.phase = "automation-sealed"
    BY <1>a DEF Operations, Phases
  <1> HIDE DEF o
  <1>3. [r EXCEPT !.op = o] \in Records /\ SameDelivery(r, [r EXCEPT !.op = o])
        /\ [r EXCEPT !.op = o].op = o
    BY <1>1 DEF Records, SameDelivery
  <1> QED
    BY <1>1, <1>2, <1>3

\* A request continues the operation of its draft revision: it has not written, and whether the
\* user has confirmed is what its phase says.
LEMMA ContinuesStep ==
    ASSUME IInv, NoTurn, rec # NoRecord, NEW i \in Revisions, NEW confirm \in BOOLEAN,
           NEW retry \in BOOLEAN, rec.op # NoOp, rec.op.id = i,
           Continues(Turn("manual", rec, i), i, confirm, retry), UNCHANGED <<draft, agent>>,
           screen' = [screen EXCEPT !.confirmed = IF confirm THEN @ \cup {i} ELSE @]
    PROVE  IInv'
  <1> DEFINE t == Turn("manual", rec, i)
  <1>1. i \in Int
    BY PromptAssumption DEF Revisions
  <1>2. /\ t \in Turns /\ t.r = rec /\ t.by = "manual" /\ t.id = i /\ turn.at # "clear"
        /\ Terminal(rec) => lease.auto = "none"
    BY <1>1, NewTurn DEF Operators
  <1>3. /\ rec \in Records /\ ManualRecorded(rec, screen, task) /\ screen \in Screens
        /\ HistoryInv(rec, screen, task)
    BY DEF IInv, HistoryInv, Stored
  <1>4. /\ HistoryInv(rec, screen', task) /\ screen' \in Screens
        /\ screen'.auto = screen.auto /\ screen'.absent = screen.absent
        /\ screen'.whole = screen.whole /\ screen'.manual = screen.manual
        /\ screen'.open = screen.open /\ screen.confirmed \subseteq screen'.confirmed
        /\ confirm => i \in screen'.confirmed
    BY <1>1, <1>3, ConfirmedGrows
  <1>5. Terminal(rec)
    BY CoherentDelivery DEF IInv, Stored
  <1>6. screen.manual[i] \in Nat
    BY <1>3 DEF Screens
  <1>7. \/ /\ rec.op.phase = "failed-before-write"
           /\ Store(t, Renewed(rec, 1), GoesOn(t, "check", Renewed(rec, 1)))
        \/ /\ rec.op.phase = "confirmation-required" /\ confirm
           /\ Store(t, Renewed(rec, 0), GoesOn(t, "check", Renewed(rec, 0)))
        \/ rec.op.phase = "automation-sealed" /\ GoesOn(t, "check", rec) /\ NoStore
    BY <1>2 DEF Continues
  <1>. "check" \in Places
    BY DEF Places
  <1> HIDE DEF t
  <1>8. ASSUME NEW n \in Int, Store(t, Renewed(rec, n), GoesOn(t, "check", Renewed(rec, n))),
               \/ rec.op.phase = "failed-before-write"
               \/ rec.op.phase = "confirmation-required" /\ confirm
        PROVE  IInv'
    <2> DEFINE q == Renewed(rec, n)
    <2>1. /\ q \in Records /\ SameDelivery(rec, q) /\ q.op.id = i
          /\ q.op.phase = "automation-sealed"
      BY <1>3, RenewedFields
    <2>2. Store(t, q, GoesOn(t, "check", q))
      BY <1>8
    <2> HIDE DEF q
    <2>3. screen.manual[i] = 0
      BY <1>3, <1>6, <1>8 DEF ManualRecorded, PreIntent
    <2>4. screen.auto = 0 \/ i \in screen'.confirmed \/ task \in {"drained", "removed"}
      BY <1>3, <1>4, <1>8 DEF ManualRecorded
    <2>5. Coherent(q) /\ Becomes(q) => Leaves(q)
      BY <1>4, <2>1, <2>3, <2>4, PhaseLeaves
    <2>6. q.op # NoOp
      BY <2>1, Nothing, <1>1, PromptAssumption DEF Revisions
    <2>7. Placed(t.by, "check", t.id, q, screen')
      BY <1>2, <2>1, <2>6 DEF Placed, ManualAt
    <2> QED
      BY <1>2, <1>4, <1>5, <2>1, <2>2, <2>5, <2>7, SavesAndGoesOn
  <1>9. CASE rec.op.phase = "automation-sealed" /\ GoesOn(t, "check", rec) /\ NoStore
    <2>1. Leaves(rec)
      BY <1>4, <1>9 DEF IInv, Leaves, NoStore, Kinds
    <2>2. Placed(t.by, "check", t.id, rec, screen')
      BY <1>2, <1>9 DEF Placed, ManualAt
    <2> QED
      BY <1>2, <1>3, <1>9, <2>1, <2>2, TurnGoesOn
  <1> QED
    BY <1>7, <1>8, <1>9

\* A new operation seals the automation: no byte was ever written for it, what became of the one
\* it supersedes is known, and it may write at once only if no automatic write is possible or
\* the user has confirmed.
LEMMA SealLeaves ==
    ASSUME IInv, rec # NoRecord, NEW i \in Revisions, NEW confirm \in BOOLEAN, draft.rev = i,
           MaySupersede(rec.op), i > Superseded(rec), UNCHANGED <<draft, agent>>,
           screen' = [screen EXCEPT !.confirmed = IF confirm THEN @ \cup {i} ELSE @]
    PROVE  LET q == Seal(rec, i, confirm) IN
           /\ q \in Records /\ Terminal(q) /\ q.op # NoOp /\ q.op.id = i
           /\ q.op.phase \in {"confirmation-required", "automation-sealed"}
           /\ Coherent(q) /\ Becomes(q) => Leaves(q)
  <1> DEFINE q == Seal(rec, i, confirm)
             o == Operation(rec, i, confirm)
             e == NextStatus(rec, "automation-sealed")
             f == Superseded(rec)
  <1>1. /\ rec \in Records /\ rec.status \in Statuses /\ Stored(rec)
        /\ HistoryInv(rec, screen, task) /\ AutoRecorded(rec, screen)
        /\ ManualRecorded(rec, screen, task) /\ screen \in Screens
    BY DEF IInv, HistoryInv, Stored
  <1>2. i \in Nat
    BY PromptAssumption DEF Revisions
  <1>3. /\ screen' \in Screens
        /\ screen'.auto = screen.auto /\ screen'.absent = screen.absent
        /\ screen'.whole = screen.whole /\ screen'.manual = screen.manual
        /\ screen'.open = screen.open /\ screen.confirmed \subseteq screen'.confirmed
        /\ confirm => i \in screen'.confirmed
    BY <1>1, <1>2, ConfirmedGrows
  <1>4. /\ o \in Operations /\ o.id = i
        /\ o.phase \in {"confirmation-required", "automation-sealed"}
        /\ o.phase = "automation-sealed" => ~PriorWrite(rec) \/ confirm
    BY <1>2 DEF Operation, Operations, Phases
  <1>5. e \in TerminalStatuses /\ e \in Statuses /\ (e = "delivered" => rec.status = "delivered")
    BY <1>1, Outcomes DEF TerminalStatuses, Terminal, Statuses
  <1>6. f \in Int /\ (rec.op # NoOp => f = rec.op.id)
    BY <1>1 DEF Superseded, Records, Operations
  <1>7. q = [rec EXCEPT !.sealed = TRUE, !.op = o, !.floor = f, !.status = e]
    BY <1>1 DEF Seal, Records
  <1> HIDE DEF o, e, f, q
  <1>8. /\ q \in Records /\ q.op = o /\ q.status = e /\ q.rev = rec.rev /\ q.began = rec.began
        /\ q.attempts = rec.attempts /\ q.prior = rec.prior
    BY <1>1, <1>4, <1>5, <1>6, <1>7 DEF Records
  <1>9. o # NoOp /\ Terminal(q)
    BY <1>2, <1>4, <1>5, <1>8, Nothing DEF Terminal
  <1>10. draft.rev = rec.rev
    <2>1. draft # NoDraft
      BY <1>2 DEF NoDraft
    <2> QED
      BY <2>1 DEF IInv, DraftInv
  <1>11. q.op.id \in 0 .. q.rev /\ q.op.phase # "none"
    BY <1>2, <1>4, <1>8, <1>10
  <1>12. AutoRecorded(q, screen')
    BY <1>1, <1>3, <1>5, <1>8 DEF AutoRecorded, PriorWrite, TerminalStatuses, Waiting
  <1>13. ManualRecorded(q, screen', task)
    <2>1. \A j \in Revisions : screen.manual[j] > 0 => j < i
      <3> SUFFICES ASSUME NEW j \in Revisions, screen.manual[j] > 0 PROVE j < i
        OBVIOUS
      <3>1. rec.op # NoOp /\ j <= rec.op.id /\ j \in Int
        BY <1>1, PromptAssumption DEF ManualRecorded, Revisions
      <3> QED
        BY <1>2, <1>6, <3>1 DEF f
    <2>2. \A j \in Revisions : j \in Int
      BY PromptAssumption DEF Revisions
    <2>3. screen.open = {}
      BY <1>1 DEF ManualRecorded, MaySupersede, PreIntent
    <2>4. screen.auto = 0 \/ PriorWrite(rec)
      BY <1>1 DEF AutoRecorded, Screens
    <2>5. q.op.phase = "automation-sealed" => screen'.auto = 0 \/ i \in screen'.confirmed
      BY <1>3, <1>4, <1>8, <2>4
    <2>6. ~(screen.manual[i] > 0)
      BY <1>2, <2>1
    <2> QED
      BY <1>2, <1>3, <1>4, <1>8, <1>9, <2>1, <2>2, <2>3, <2>5, <2>6 DEF ManualRecorded
  <1>14. Coherent(q) /\ Becomes(q) => Leaves(q)
    BY <1>3, <1>5, <1>8, <1>9, <1>11, <1>12, <1>13, LeavesRecord DEF Becomes
  <1> QED
    BY <1>4, <1>8, <1>9, <1>14 DEF q

\* A request for an operation that is over, accepted or was interrupted.
LEMMA RepeatStep ==
    ASSUME IInv, NoTurn, rec # NoRecord, NEW i \in Revisions, rec.op # NoOp, rec.op.id = i,
           LET t == Turn("manual", rec, i) IN
             \/ Ends(t, rec, lease.auto) /\ NoStore
             \/ rec.op.phase = "write-accepted" /\ GoesOn(t, "settle", rec) /\ NoStore
             \/ /\ rec.op.phase = "write-intent-persisted"
                /\ Store(t, Ambiguous(rec), Ends(t, Ambiguous(rec), lease.auto)),
           UNCHANGED <<draft, agent, screen>>
    PROVE  IInv'
  <1> DEFINE t == Turn("manual", rec, i)
             q == Ambiguous(rec)
  <1>1. i \in Int
    BY PromptAssumption DEF Revisions
  <1>2. /\ t \in Turns /\ t.r = rec /\ t.by = "manual" /\ t.id = i /\ turn.at # "clear"
        /\ Terminal(rec) => lease.auto = "none"
        /\ lease.auto \in Holds
    BY <1>1, NewTurn DEF Operators
  <1>3. \/ Ends(t, rec, lease.auto) /\ NoStore
        \/ rec.op.phase = "write-accepted" /\ GoesOn(t, "settle", rec) /\ NoStore
        \/ rec.op.phase = "write-intent-persisted" /\ Store(t, q, Ends(t, q, lease.auto))
    OBVIOUS
  <1>4. /\ rec \in Records /\ ManualRecorded(rec, screen, task) /\ screen \in Screens
        /\ HistoryInv(rec, screen, task) /\ Terminal(rec)
    BY CoherentDelivery DEF IInv, HistoryInv, Stored
  <1> HIDE DEF t
  <1>5. CASE Ends(t, rec, lease.auto) /\ NoStore
    BY <1>2, <1>5, EndsAsIs
  <1>6. CASE rec.op.phase = "write-accepted" /\ GoesOn(t, "settle", rec) /\ NoStore
    <2>1. Leaves(rec)
      BY <1>6, LeavesAsIs DEF IInv, Kinds, NoStore
    <2>2. Placed(t.by, "settle", t.id, rec, screen') /\ "settle" \in Places
      BY <1>2, <1>6 DEF Placed, ManualAt, Places
    <2> QED
      BY <1>2, <1>4, <1>6, <2>1, <2>2, TurnGoesOn
  <1>7. CASE rec.op.phase = "write-intent-persisted" /\ Store(t, q, Ends(t, q, lease.auto))
    <2>1. /\ q \in Records /\ SameDelivery(rec, q) /\ q.op.id = rec.op.id
          /\ q.op.phase = "manual-reconciliation-required"
      BY <1>4, OpAtFields DEF Ambiguous, Phases
    <2> HIDE DEF q
    <2>2. Coherent(q) /\ Becomes(q) => Leaves(q)
      BY <1>4, <1>7, <2>1, PhaseLeaves DEF ManualRecorded, PreIntent
    <2> QED
      BY <1>2, <1>4, <1>7, <2>1, <2>2, SavesAndEnds
  <1> QED
    BY <1>3, <1>5, <1>6, <1>7

\* A request for a revision of the draft that has no operation yet.
LEMMA SealStep ==
    ASSUME IInv, NoTurn, rec # NoRecord, NEW i \in Revisions, NEW confirm \in BOOLEAN,
           draft.rev = i, MaySupersede(rec.op), i > Superseded(rec), UNCHANGED <<draft, agent>>,
           LET t == Turn("manual", rec, i)
               r == Seal(rec, i, confirm)
           IN Store(t, r, IF r.op.phase = "confirmation-required"
                          THEN Ends(t, r, "none")
                          ELSE /\ turn' = [t EXCEPT !.at = "check", !.r = r]
                               /\ lease' = NoHold
                               /\ UNCHANGED <<tracked, owner, task, finalizer>>),
           screen' = [screen EXCEPT !.confirmed = IF confirm THEN @ \cup {i} ELSE @]
    PROVE  IInv'
  <1> DEFINE t == Turn("manual", rec, i)
             q == Seal(rec, i, confirm)
             u == [t EXCEPT !.at = "check", !.r = q]
  <1>1. \/ /\ Coherent(q) /\ Becomes(q) /\ q.op.phase = "confirmation-required"
           /\ Ends(t, q, "none")
        \/ /\ Coherent(q) /\ Becomes(q) /\ q.op.phase # "confirmation-required"
           /\ turn' = u /\ lease' = NoHold /\ UNCHANGED <<tracked, owner, task, finalizer>>
        \/ Throws(t, lease.auto) /\ UNCHANGED <<rec, late>>
    BY DEF Store
  <1>2. i \in Int
    BY PromptAssumption DEF Revisions
  <1>3. t \in Turns /\ t.r = rec /\ t.by = "manual" /\ t.id = i /\ turn.at # "clear"
    BY <1>2, NewTurn DEF Operators
  <1>4. HistoryInv(rec, screen', task)
    BY <1>2, ConfirmedGrows DEF IInv
  <1>5. /\ q \in Records /\ Terminal(q) /\ q.op # NoOp /\ q.op.id = i
        /\ q.op.phase \in {"confirmation-required", "automation-sealed"}
        /\ Coherent(q) /\ Becomes(q) => Leaves(q)
    BY SealLeaves
  <1> HIDE DEF t, q
  <1>6. CASE Coherent(q) /\ Becomes(q) /\ Ends(t, q, "none")
    BY <1>3, <1>5, <1>6, TurnEnds DEF Holds
  <1>7. CASE /\ Coherent(q) /\ Becomes(q) /\ q.op.phase # "confirmation-required"
             /\ turn' = u /\ lease' = NoHold /\ UNCHANGED <<tracked, owner, task, finalizer>>
    <2>1. Leaves(q)
      BY <1>5, <1>7
    <2>2. u \in Turns /\ u.at = "check" /\ u.by = "manual" /\ u.id = i /\ u.r = q
      BY <1>3, <1>5 DEF Turns, Places
    <2>3. u # Idle
      BY <2>2 DEF Idle, Turns, Operators
    <2> HIDE DEF u
    <2>4. Kinds' /\ DraftInv(draft, rec, task)' /\ DrainedInv(rec, task)'
      BY <1>7, <2>1 DEF IInv, Kinds, DraftInv, DrainedInv, Leaves
    <2>5. HistoryInv(rec, screen, task)' /\ Stored(rec)'
      BY <1>7, <2>1 DEF Leaves
    <2>6. TurnInv(turn, rec, screen)'
      BY <1>5, <1>7, <2>1, <2>2 DEF TurnInv, Leaves, Placed, ManualAt
    <2>7. LeaseInv(lease, turn, rec)'
      BY <1>7, <2>3 DEF LeaseInv, NoHold, Holds
    <2> QED
      BY <2>4, <2>5, <2>6, <2>7 DEF IInv
  <1>8. CASE Throws(t, lease.auto) /\ UNCHANGED <<rec, late>>
    BY <1>3, <1>4, <1>8, SaveFails
  <1> QED
    BY <1>1, <1>6, <1>7, <1>8

\* A request to send by hand keeps the invariant.
LEMMA SendManuallyStep ==
    ASSUME IInv, NEW i \in Revisions, NEW confirm \in BOOLEAN, NEW retry \in BOOLEAN,
           SendManually(i, confirm, retry)
    PROVE  IInv'
  <1> DEFINE t == Turn("manual", rec, i)
             same == rec.op # NoOp /\ rec.op.id = i
             r == Seal(rec, i, confirm)
  <1>1. NoTurn /\ rec # NoRecord /\ UNCHANGED <<draft, agent>>
    BY DEF SendManually
  <1>2. \/ same /\ Ends(t, rec, lease.auto) /\ NoStore /\ UNCHANGED screen
        \/ same /\ rec.op.phase = "write-accepted"
           /\ GoesOn(t, "settle", rec) /\ NoStore /\ UNCHANGED screen
        \/ same /\ rec.op.phase = "write-intent-persisted"
           /\ Store(t, Ambiguous(rec), Ends(t, Ambiguous(rec), lease.auto)) /\ UNCHANGED screen
        \/ same /\ Continues(t, i, confirm, retry)
           /\ screen' = [screen EXCEPT !.confirmed = IF confirm THEN @ \cup {i} ELSE @]
        \/ /\ draft.rev = i /\ MaySupersede(rec.op) /\ i > Superseded(rec)
           /\ Store(t, r, IF r.op.phase = "confirmation-required"
                          THEN Ends(t, r, "none")
                          ELSE /\ turn' = [t EXCEPT !.at = "check", !.r = r]
                               /\ lease' = NoHold
                               /\ UNCHANGED <<tracked, owner, task, finalizer>>)
           /\ screen' = [screen EXCEPT !.confirmed = IF confirm THEN @ \cup {i} ELSE @]
    BY DEF SendManually
  <1>3. CASE same /\ Ends(t, rec, lease.auto) /\ NoStore /\ UNCHANGED screen
    BY <1>1, <1>3, RepeatStep
  <1>4. CASE same /\ rec.op.phase = "write-accepted"
             /\ GoesOn(t, "settle", rec) /\ NoStore /\ UNCHANGED screen
    BY <1>1, <1>4, RepeatStep
  <1>5. CASE same /\ rec.op.phase = "write-intent-persisted"
             /\ Store(t, Ambiguous(rec), Ends(t, Ambiguous(rec), lease.auto)) /\ UNCHANGED screen
    BY <1>1, <1>5, RepeatStep
  <1>6. CASE same /\ Continues(t, i, confirm, retry)
             /\ screen' = [screen EXCEPT !.confirmed = IF confirm THEN @ \cup {i} ELSE @]
    BY <1>1, <1>6, ContinuesStep
  <1>7. CASE /\ draft.rev = i /\ MaySupersede(rec.op) /\ i > Superseded(rec)
             /\ Store(t, r, IF r.op.phase = "confirmation-required"
                            THEN Ends(t, r, "none")
                            ELSE /\ turn' = [t EXCEPT !.at = "check", !.r = r]
                                 /\ lease' = NoHold
                                 /\ UNCHANGED <<tracked, owner, task, finalizer>>)
             /\ screen' = [screen EXCEPT !.confirmed = IF confirm THEN @ \cup {i} ELSE @]
    BY <1>1, <1>7, SealStep
  <1> QED
    BY <1>2, <1>3, <1>4, <1>5, <1>6, <1>7

-----------------------------------------------------------------------------
(* The draft's edits, and the removal of the task. *)

\* A draft that is there is of the record's revision.
LEMMA DraftRevision ==
    ASSUME IInv, draft # NoDraft
    PROVE  draft.rev = rec.rev /\ draft.rev \in Nat
  BY PromptAssumption DEF IInv, DraftInv, Revisions

\* An edit ends the automatic delivery, whose lease goes, and says no less of earlier writes.
LEMMA EditStep ==
    ASSUME IInv, Edit
    PROVE  IInv'
  <1> DEFINE n == Reduce(rec, "edit-accepted")
             v == draft.rev + 1
             q == [n EXCEPT !.rev = v, !.hw = v, !.edits = "open"]
  <1>1. /\ turn = Idle /\ task = "open" /\ rec # NoRecord /\ draft # NoDraft
        /\ draft.rev < MaxRevision
        /\ UNCHANGED <<task, owner, agent, turn, tracked, finalizer, faults, screen>>
    BY DEF Edit, CanEdit, NoTurn, Open
  <1>2. q = EditedRecord
    BY DEF EditedRecord
  <1>3. \/ /\ Coherent(q) /\ Becomes(q) /\ draft' = [rev |-> v, mode |-> "manual-only"]
           /\ lease' = [lease EXCEPT !.auto = "none"]
        \/ UNCHANGED <<rec, late, draft, lease>>
    BY <1>2 DEF Edit
  <1>4. /\ rec \in Records /\ rec.status \in Statuses /\ Stored(rec)
        /\ HistoryInv(rec, screen, task)
        /\ AutoRecorded(rec, screen) /\ ManualRecorded(rec, screen, task)
    BY <1>1 DEF IInv, Stored, HistoryInv
  <1>5. v \in Revisions /\ v = rec.rev + 1 /\ v \in Nat /\ rec.rev \in Nat
    BY <1>1, DraftRevision, PromptAssumption DEF Revisions
  <1>6. CASE UNCHANGED <<rec, late, draft, lease>>
    BY <1>1, <1>6 DEF IInv, Kinds
  <1>7. CASE /\ Coherent(q) /\ Becomes(q) /\ draft' = [rev |-> v, mode |-> "manual-only"]
             /\ lease' = [lease EXCEPT !.auto = "none"]
    <2>1. /\ NextStatus(rec, "edit-accepted") \in TerminalStatuses
          /\ NextStatus(rec, "edit-accepted") = "delivered" => rec.status = "delivered"
          /\ NextStatus(rec, "edit-accepted") \in Statuses
      BY <1>4, Outcomes DEF TerminalStatuses, Statuses
    <2>2. /\ n \in Records /\ n.status = NextStatus(rec, "edit-accepted") /\ n.op = rec.op
          /\ n.began = rec.began /\ n.attempts = rec.attempts /\ n.prior = rec.prior
      BY <1>4, <2>1, ReduceFields
    <2> HIDE DEF n, v
    <2>3. v \in Int
      BY <1>5
    <2>4. /\ q \in Records /\ q.rev = v /\ q.status = n.status /\ q.op = n.op
          /\ q.began = n.began /\ q.attempts = n.attempts /\ q.prior = n.prior
      BY <2>2, <2>3 DEF Records
    <2> HIDE DEF q
    <2>5. rec' = q /\ late' \in BOOLEAN
      BY <1>7 DEF Becomes
    <2>6. Terminal(q) /\ q # NoRecord
      BY <2>1, <2>2, <2>4, Nothing DEF Terminal
    <2>7. Stored(rec)'
      BY <1>4, <1>5, <1>7, <2>1, <2>2, <2>4, <2>5, <2>6 DEF Stored, Terminal
    <2>8. DraftInv(draft, rec, task)'
      BY <1>1, <1>5, <1>7, <2>4, <2>5 DEF DraftInv
    <2>9. HistoryInv(rec, screen, task)'
      <3>1. AutoRecorded(q, screen)
        BY <1>4, <2>1, <2>2, <2>4 DEF AutoRecorded, PriorWrite, TerminalStatuses, Waiting
      <3>2. ManualRecorded(q, screen, task)
        BY <1>4, <2>2, <2>4 DEF ManualRecorded
      <3> QED
        BY <1>1, <1>4, <2>5, <2>6, <3>1, <3>2 DEF HistoryInv
    <2>10. Kinds' /\ DrainedInv(rec, task)' /\ TurnInv(turn, rec, screen)'
      BY <1>1, <2>5 DEF IInv, Kinds, DrainedInv, TurnInv
    <2>11. LeaseInv(lease, turn, rec)'
      BY <1>1, <1>7 DEF IInv, LeaseInv, Holds
    <2> QED
      BY <2>7, <2>8, <2>9, <2>10, <2>11 DEF IInv
  <1> QED
    BY <1>3, <1>6, <1>7

\* A delivery begins for a draft nothing has been written of.
LEMMA QueueStep ==
    ASSUME IInv, Queue
    PROVE  IInv'
  <1>1. /\ turn = Idle /\ task = "open" /\ rec = NoRecord /\ draft.mode = "automatic"
        /\ rec' = NewRecord /\ tracked' = TRUE
        /\ UNCHANGED <<task, owner, draft, agent, late, lease, turn, finalizer, faults, screen>>
    BY DEF Queue, NoTurn, Open
  <1>2. draft # NoDraft
    BY <1>1 DEF NoDraft
  <1>3. /\ NewRecord \in Records /\ NewRecord # NoRecord /\ NewRecord.rev = 0
        /\ NewRecord.status = "waiting-agent-session" /\ NewRecord.op = NoOp
        /\ ~Terminal(NewRecord) /\ Coherent(NewRecord)
    <2>1. /\ NewRecord \in Records /\ NewRecord.rev = 0 /\ NewRecord.op = NoOp
          /\ NewRecord.status = "waiting-agent-session"
      BY Nothing DEF NewRecord, Records, Statuses
    <2>2. NewRecord # NoRecord
      BY <2>1, Nothing
    <2>3. NoOp.closed = FALSE
      BY DEF NoOp
    <2>4. /\ NewRecord.hw = -1 /\ ~NewRecord.began /\ ~NewRecord.sealed /\ ~NewRecord.prior
          /\ NewRecord.attempts = 0 /\ NewRecord.gen = 0 /\ NewRecord.deadline = "none"
      BY DEF NewRecord
    <2>5. Coherent(NewRecord)
      BY <2>1, <2>3, <2>4 DEF Coherent, Waiting
    <2> QED
      BY <2>1, <2>2, <2>5 DEF Terminal, TerminalStatuses
  <1>4. 0 \in Revisions /\ NewRecord.status \in Statuses
    BY <1>3, PromptAssumption DEF Revisions, Statuses
  <1>5. Stored(rec)' /\ DraftInv(draft, rec, task)'
    BY <1>1, <1>3, <1>4, Nothing DEF IInv, Stored, DraftInv
  <1>6. HistoryInv(rec, screen, task)'
    <2>1. screen \in Screens /\ Untouched(screen)
      BY <1>1 DEF IInv, HistoryInv
    <2>2. AutoRecorded(NewRecord, screen)
      BY <1>3, <2>1 DEF AutoRecorded, Untouched
    <2>3. ManualRecorded(NewRecord, screen, task)
      BY <1>3, <2>1, Nothing DEF ManualRecorded, Untouched
    <2> QED
      BY <1>1, <1>3, <2>1, <2>2, <2>3 DEF HistoryInv
  <1>7. /\ Kinds' /\ DrainedInv(rec, task)'
        /\ TurnInv(turn, rec, screen)' /\ LeaseInv(lease, turn, rec)'
    BY <1>1, <1>3 DEF IInv, Kinds, DrainedInv, TurnInv, LeaseInv
  <1> QED
    BY <1>5, <1>6, <1>7 DEF IInv

\* A removal that has not drained changes nothing of the delivery.
LEMMA CloseStep ==
    ASSUME IInv, CloseTask \/ ReopenTask
    PROVE  IInv'
  <1>1. /\ task \in {"open", "closing"} /\ task' \in {"open", "closing"}
        /\ UNCHANGED <<rec, late, owner, lease, turn, tracked, finalizer, draft, agent, screen>>
    BY DEF CloseTask, ReopenTask, Quiet
  <1>2. Kinds' /\ Stored(rec)' /\ DraftInv(draft, rec, task)' /\ DrainedInv(rec, task)'
    BY <1>1 DEF IInv, Kinds, DraftInv, DrainedInv
  <1>3. HistoryInv(rec, screen, task)'
    BY <1>1 DEF IInv, HistoryInv, ManualRecorded
  <1>4. TurnInv(turn, rec, screen)' /\ LeaseInv(lease, turn, rec)'
    BY <1>1 DEF IInv
  <1> QED
    BY <1>2, <1>3, <1>4 DEF IInv

\* A drained record is over, and its operation is settled.
LEMMA DrainedFields ==
    ASSUME NEW r \in Records, r.status \in Statuses
    PROVE  LET q == Drained(r) IN
           /\ q \in Records /\ Terminal(q) /\ q.status \in Statuses
           /\ q.rev = r.rev /\ q.began = r.began /\ q.attempts = r.attempts /\ q.prior = r.prior
           /\ q.status = "delivered" => r.status = "delivered"
           /\ \/ q.op = r.op /\ (r.op = NoOp \/ Settled(r.op))
              \/ /\ r.op # NoOp /\ ~Settled(r.op) /\ q.op.id = r.op.id
                 /\ q.op.phase = IF r.op.phase = "write-intent-persisted"
                                 THEN "manual-reconciliation-required" ELSE "failed-before-write"
  <1> DEFINE s == IF Terminal(r) THEN r ELSE Reduce(r, "task-closing")
             q == Drained(r)
  <1>1. /\ s \in Records /\ Terminal(s) /\ s.status \in Statuses /\ s.op = r.op
        /\ s.rev = r.rev /\ s.began = r.began /\ s.attempts = r.attempts /\ s.prior = r.prior
        /\ s.status = "delivered" => r.status = "delivered"
    <2>1. CASE Terminal(r)
      BY <2>1
    <2>2. CASE ~Terminal(r)
      <3>1. NextStatus(r, "task-closing") \in {"manual-required", "cancelled"}
        BY <2>2, Outcomes
      <3>2. {"manual-required", "cancelled"} \subseteq Statuses \cap TerminalStatuses
        BY DEF Statuses, TerminalStatuses
      <3> QED
        BY <2>2, <3>1, <3>2, ReduceFields DEF Terminal
    <2> QED
      BY <2>1, <2>2
  <1>2. q = IF r.op = NoOp \/ Settled(r.op) THEN s
            ELSE IF r.op.phase = "write-intent-persisted" THEN Ambiguous(s) ELSE Failed(s, TRUE)
    BY DEF Drained
  <1> HIDE DEF s, q
  <1>3. CASE r.op = NoOp \/ Settled(r.op)
    BY <1>1, <1>2, <1>3 DEF q
  <1>4. CASE r.op # NoOp /\ ~Settled(r.op) /\ r.op.phase = "write-intent-persisted"
    <2>1. /\ q \in Records /\ SameDelivery(s, q) /\ q.op.id = s.op.id
          /\ q.op.phase = "manual-reconciliation-required"
      BY <1>1, <1>2, <1>4, OpAtFields DEF Ambiguous, Phases
    <2> QED
      BY <1>1, <1>4, <2>1 DEF SameDelivery, Terminal, q
  <1>5. CASE r.op # NoOp /\ ~Settled(r.op) /\ r.op.phase # "write-intent-persisted"
    <2>1. /\ q \in Records /\ SameDelivery(s, q) /\ q.op.id = s.op.id
          /\ q.op.phase = "failed-before-write"
      BY <1>1, <1>2, <1>5, FailedFields
    <2> QED
      BY <1>1, <1>5, <2>1 DEF SameDelivery, Terminal, q
  <1> QED
    BY <1>3, <1>4, <1>5

\* The drain gives the delivery up.  The operation it proves not sent may never have been
\* confirmed; it will not be sent again, for the task does not come back.
LEMMA DrainStep ==
    ASSUME IInv, Drain
    PROVE  IInv'
  <1> DEFINE t == Turn("drain", rec, -1)
             q == Drained(rec)
  <1>1. /\ NoTurn /\ task = "closing" /\ UNCHANGED <<draft, agent, screen>>
        /\ t.by = "drain" /\ t.r = rec
    BY DEF Drain, Quiet, Turn
  <1>2. \/ rec.op.phase = "write-accepted" /\ GoesOn(t, "settle", rec) /\ NoStore
        \/ rec = NoRecord /\ Ends(t, rec, "none") /\ NoStore
        \/ rec # NoRecord /\ q = rec /\ Ends(t, rec, "none") /\ NoStore
        \/ rec # NoRecord /\ rec.op.phase # "write-accepted" /\ Store(t, q, Ends(t, q, "none"))
    BY DEF Drain
  <1>3. CASE rec.op.phase = "write-accepted" /\ GoesOn(t, "settle", rec) /\ NoStore
    <2>1. rec # NoRecord
      BY <1>3, Nothing
    <2>2. t \in Turns /\ Terminal(rec) => lease.auto = "none"
      BY <1>1, <2>1, NewTurn DEF Operators
    <2>3. t \in Turns /\ t.id = -1
      BY <1>1, <2>1, NewTurn DEF Operators
    <2>4. Leaves(rec) /\ rec \in Records
      BY <1>1, <1>3, <2>1, LeavesAsIs DEF IInv, Kinds, Stored, NoStore
    <2>5. Placed(t.by, "settle", t.id, rec, screen') /\ "settle" \in Places
      BY <1>1, <1>3 DEF Placed, Places
    <2> HIDE DEF t
    <2> QED
      BY <1>1, <1>3, <2>2, <2>3, <2>4, <2>5, TurnGoesOn
  <1>4. CASE rec = NoRecord /\ Ends(t, rec, "none") /\ NoStore
    <2>1. /\ turn' = Idle /\ lease' = [auto |-> "none", manual |-> "none"] /\ rec' = rec
          /\ task' = "drained" /\ late' = late
      BY <1>1, <1>4 DEF Ends, NoStore
    <2>2. Kinds'
      BY <1>1, <1>4, <2>1 DEF IInv, Kinds, Ends
    <2>3. HistoryInv(rec, screen, task)'
      BY <1>1, <1>4, <2>1 DEF IInv, HistoryInv
    <2>4. Stored(rec)' /\ DraftInv(draft, rec, task)' /\ DrainedInv(rec, task)'
      BY <1>1, <1>4, <2>1 DEF IInv, DraftInv, DrainedInv
    <2>5. TurnInv(turn, rec, screen)' /\ LeaseInv(lease, turn, rec)'
      BY <2>1 DEF TurnInv, LeaseInv, Holds
    <2> QED
      BY <2>2, <2>3, <2>4, <2>5 DEF IInv
  <1>5. ASSUME rec # NoRecord
        PROVE  /\ t \in Turns /\ turn.at # "clear" /\ rec \in Records /\ rec.status \in Statuses
               /\ HistoryInv(rec, screen, task) /\ AutoRecorded(rec, screen)
               /\ ManualRecorded(rec, screen, task) /\ Stored(rec) /\ screen \in Screens
               /\ q \in Records /\ Terminal(q) /\ q.status \in Statuses
               /\ q.rev = rec.rev /\ q.began = rec.began /\ q.attempts = rec.attempts
               /\ q.prior = rec.prior /\ (q.status = "delivered" => rec.status = "delivered")
               /\ \/ q.op = rec.op
                  \/ /\ rec.op # NoOp /\ ~Settled(rec.op) /\ q.op.id = rec.op.id
                     /\ q.op.phase = IF rec.op.phase = "write-intent-persisted"
                                 THEN "manual-reconciliation-required" ELSE "failed-before-write"
    <2>1. /\ rec \in Records /\ rec.status \in Statuses /\ Stored(rec) /\ screen \in Screens
          /\ HistoryInv(rec, screen, task) /\ AutoRecorded(rec, screen)
          /\ ManualRecorded(rec, screen, task)
      BY <1>5 DEF IInv, HistoryInv, Stored
    <2>2. t \in Turns /\ turn.at # "clear"
      BY <1>1, <1>5, NewTurn DEF Operators
    <2> HIDE DEF t
    <2> QED
      BY <2>1, <2>2, DrainedFields
  <1>6. CASE rec # NoRecord /\ q = rec /\ Ends(t, rec, "none") /\ NoStore
    <2>1. Leaves(rec)
      BY <1>1, <1>6, LeavesAsIs DEF IInv, Kinds, NoStore
    <2>2. Terminal(rec)
      BY <1>5, <1>6
    <2> HIDE DEF t, q
    <2> QED
      BY <1>1, <1>6, <2>1, <2>2, TurnEnds DEF Holds
  <1>7. CASE /\ rec # NoRecord /\ rec.op.phase # "write-accepted"
             /\ Store(t, q, Ends(t, q, "none"))
    <2>1. \/ Coherent(q) /\ Becomes(q) /\ Ends(t, q, "none")
          \/ Throws(t, lease.auto) /\ UNCHANGED <<rec, late>>
      BY <1>7 DEF Store
    <2>2. CASE Throws(t, lease.auto) /\ UNCHANGED <<rec, late>>
      BY <1>1, <1>5, <1>7, <2>2, SaveFails
    <2>3. CASE Coherent(q) /\ Becomes(q) /\ Ends(t, q, "none")
      <3>1. /\ turn' = Idle /\ lease' = [auto |-> "none", manual |-> "none"] /\ rec' = q
            /\ task' = "drained" /\ late' \in BOOLEAN
        BY <1>1, <2>3 DEF Ends, Becomes
      <3>2. Kinds'
        BY <1>1, <2>3, <3>1 DEF IInv, Kinds, Ends
      <3>3. q # NoRecord
        BY <1>5, <1>7, Nothing
      <3>4. q.op # NoOp => q.op.id \in 0 .. q.rev /\ q.op.phase # "none"
        BY <1>5, <1>7, Nothing DEF Stored
      <3> HIDE DEF q, t
      <3>5. Stored(rec)'
        BY <1>5, <1>7, <2>3, <3>1, <3>4 DEF Stored
      <3>6. DraftInv(draft, rec, task)' /\ DrainedInv(rec, task)'
        BY <1>1, <1>5, <1>7, <3>1 DEF IInv, DraftInv, DrainedInv
      <3>7. AutoRecorded(q, screen)
        BY <1>5, <1>7 DEF AutoRecorded, PriorWrite, Terminal, TerminalStatuses, Waiting
      <3>8. ManualRecorded(q, screen, "drained")
        <4>1. CASE q.op = rec.op
          BY <1>5, <1>7, <4>1 DEF ManualRecorded
        <4>2. CASE /\ rec.op # NoOp /\ ~Settled(rec.op) /\ q.op.id = rec.op.id
                   /\ q.op.phase = IF rec.op.phase = "write-intent-persisted"
                                 THEN "manual-reconciliation-required" ELSE "failed-before-write"
          <5>1. rec.op.phase \in Phases /\ rec.op.phase # "none"
            BY <1>5, <1>7, <4>2 DEF Records, Operations, Stored
          <5>2. q.op.phase = "failed-before-write" =>
                   PreIntent(rec.op) \/ rec.op.phase = "failed-before-write"
            BY <1>7, <4>2, <5>1 DEF PreIntent, Phases, Settled
          <5>3. q.op # NoOp
            BY <4>2, Nothing
          <5> QED
            BY <1>5, <1>7, <4>2, <5>2, <5>3 DEF ManualRecorded, PreIntent
        <4> QED
          BY <1>5, <1>7, <4>1, <4>2
      <3>9. HistoryInv(rec, screen, task)'
        BY <1>1, <1>5, <1>7, <3>1, <3>3, <3>7, <3>8 DEF HistoryInv
      <3>10. TurnInv(turn, rec, screen)' /\ LeaseInv(lease, turn, rec)'
        BY <3>1 DEF TurnInv, LeaseInv, Holds
      <3> QED
        BY <3>2, <3>5, <3>6, <3>9, <3>10 DEF IInv
    <2> QED
      BY <2>1, <2>2, <2>3
  <1> QED
    BY <1>2, <1>3, <1>4, <1>6, <1>7

\* The canonical removal takes the draft away, and the record goes after it.
LEMMA CommitRemovalStep ==
    ASSUME IInv, CommitRemoval
    PROVE  IInv'
  <1>1. /\ task = "drained" /\ turn = Idle /\ task' = "removed" /\ draft' = NoDraft
        /\ UNCHANGED <<owner, rec, agent, late, lease, turn, tracked, finalizer, faults, screen>>
    BY DEF CommitRemoval, NoTurn
  <1>2. HistoryInv(rec, screen, task)'
    BY <1>1 DEF IInv, HistoryInv, ManualRecorded
  <1> QED
    BY <1>1, <1>2 DEF IInv, Kinds, DraftInv, DrainedInv, TurnInv

LEMMA FinalizeRemovalStep ==
    ASSUME IInv, FinalizeRemoval
    PROVE  IInv'
  <1>1. /\ task = "removed" /\ turn = Idle /\ rec' = NoRecord /\ tracked' = FALSE
        /\ finalizer' = -1
        /\ UNCHANGED <<task, owner, draft, agent, late, lease, turn, faults, screen>>
    BY DEF FinalizeRemoval, NoTurn
  <1>2. Stored(rec)'
    BY <1>1, Nothing, PromptAssumption DEF Stored, Revisions
  <1>3. Kinds' /\ DraftInv(draft, rec, task)' /\ HistoryInv(rec, screen, task)'
        /\ DrainedInv(rec, task)' /\ TurnInv(turn, rec, screen)'
    BY <1>1 DEF IInv, Kinds, DraftInv, HistoryInv, DrainedInv, TurnInv
  <1>4. LeaseInv(lease, turn, rec)'
    BY <1>1 DEF IInv, LeaseInv, DrainedInv
  <1> QED
    BY <1>2, <1>3, <1>4 DEF IInv

-----------------------------------------------------------------------------
(* The server stops and starts, the agent, the user who takes control, and time. *)

\* A server that dies drops its turn, its leases and what it observed; the rest is durable.
LEMMA DiesStep ==
    ASSUME IInv, Dies, UNCHANGED <<task, draft, rec, late, screen>>
    PROVE  IInv'
  <1>1. /\ owner' = "down" /\ turn' = Idle /\ lease' = NoHold /\ tracked' = FALSE
        /\ finalizer' = -1 /\ agent' = [agent EXCEPT !.state = "gone"]
        /\ UNCHANGED <<task, draft, rec, late, screen>>
    BY DEF Dies
  <1>2. agent' \in [gen : Int, state : {"gone", "busy", "idle"}] /\ agent'.state = "gone"
    BY <1>1 DEF IInv, Kinds
  <1>3. Kinds' /\ TurnInv(turn, rec, screen)' /\ LeaseInv(lease, turn, rec)'
    BY <1>1, <1>2 DEF IInv, Kinds, TurnInv, LeaseInv, NoHold, Holds
  <1> QED
    BY <1>1, <1>3 DEF IInv

LEMMA StopStep ==
    ASSUME IInv, Stop
    PROVE  IInv'
  <1>1. /\ owner' = "stopping" /\ finalizer' = -1
        /\ UNCHANGED <<task, draft, rec, agent, late, lease, turn, tracked, screen>>
    BY DEF Stop
  <1>2. Kinds'
    BY <1>1 DEF IInv, Kinds
  <1> QED
    BY <1>1, <1>2 DEF IInv

\* What the owner's state says of turns and leases: one that is down runs nothing, one that
\* repairs runs its repair, and neither has acquired the lease of an automatic write.
OwnerInv ==
    /\ owner = "down" => turn = Idle
    /\ owner = "repair" <=> turn.by = "repair"
    /\ owner \in {"down", "repair"} => lease.auto = "none"

\* A server that starts repairs the record it finds, before it does anything else.
LEMMA StartStep ==
    ASSUME IInv, OwnerInv, Start
    PROVE  IInv'
  <1> DEFINE t == Turn("repair", rec, -1)
             u == [t EXCEPT !.at = "repair"]
  <1>1. /\ owner = "down" /\ turn = Idle
        /\ UNCHANGED <<draft, agent, screen, rec, late, faults, lease, tracked, task, finalizer>>
    BY DEF Start, Quiet, NoStore, OwnerInv
  <1>2. CASE rec = NoRecord /\ owner' = "active" /\ UNCHANGED turn
    BY <1>1, <1>2 DEF IInv, Kinds
  <1>3. CASE rec # NoRecord /\ owner' = "repair" /\ turn' = u
    <2>1. t \in Turns /\ t.r = rec /\ t.by = "repair"
      BY <1>1, <1>3, NewTurn DEF NoTurn, Operators
    <2> HIDE DEF t
    <2>2. u \in Turns /\ u.r = rec /\ u.by = "repair" /\ u.at = "repair"
      BY <2>1 DEF Turns, Places
    <2> HIDE DEF u
    <2>3. Kinds' /\ TurnInv(turn, rec, screen)'
      BY <1>1, <1>3, <2>2 DEF IInv, Kinds, TurnInv, Placed
    <2>4. LeaseInv(lease, turn, rec)'
      BY <1>1, <1>3, <2>2 DEF IInv, LeaseInv
    <2> QED
      BY <1>1, <2>3, <2>4 DEF IInv
  <1> QED
    BY <1>2, <1>3 DEF Start

\* An unfinished delivery that may have written is left to the user.
LEMMA RepairStep ==
    ASSUME IInv, OwnerInv, Repair
    PROVE  IInv'
  <1> DEFINE q == [turn.r EXCEPT !.status = "manual-required"]
  <1>1. At("repair") /\ UNCHANGED <<draft, agent, screen>>
    BY DEF Repair, Quiet
  <1>2. /\ turn \in Turns /\ turn.r = rec /\ turn.at = "repair" /\ rec # NoRecord
        /\ Placed(turn.by, "repair", turn.id, rec, screen)
        /\ rec \in Records /\ rec.status \in Statuses
        /\ HistoryInv(rec, screen, task) /\ AutoRecorded(rec, screen)
        /\ Terminal(rec) => lease.auto = "none"
    BY <1>1, Running
  <1>3. turn.by = "repair"
    BY <1>2 DEF Placed, AutoAt, ManualAt
  <1>4. Placed(turn.by, "repair-op", turn.id, q, screen')
        /\ Placed(turn.by, "repair-op", turn.id, rec, screen') /\ "repair-op" \in Places
    BY <1>3 DEF Placed, Places
  <1>5. CASE GoesOn(turn, "repair-op", turn.r) /\ NoStore
    <2>1. Leaves(rec)
      BY <1>1, <1>2, <1>5, LeavesAsIs DEF NoStore, IInv, Kinds
    <2> QED
      BY <1>2, <1>4, <1>5, <2>1, TurnGoesOn
  <1>6. CASE ~Terminal(turn.r) /\ Store(turn, q, GoesOn(turn, "repair-op", q))
    <2>1. "manual-required" \in Statuses \cap TerminalStatuses
      BY DEF Statuses, TerminalStatuses
    <2>2. /\ q \in Records /\ q.status = "manual-required" /\ q.rev = rec.rev /\ q.op = rec.op
          /\ q.began = rec.began /\ q.attempts = rec.attempts /\ q.prior = rec.prior
      BY <1>2, <2>1 DEF Records
    <2> HIDE DEF q
    <2>3. Coherent(q) /\ Becomes(q) => Leaves(q)
      <3> SUFFICES ASSUME Coherent(q), Becomes(q) PROVE Leaves(q)
        OBVIOUS
      <3>1. rec' = q /\ late' \in BOOLEAN
        BY DEF Becomes
      <3>2. screen.auto > 0 => PriorWrite(q)
        BY <1>2, <2>2 DEF AutoRecorded, PriorWrite
      <3>3. Terminal(q) /\ q.status \in Statuses
        BY <2>1, <2>2 DEF Terminal
      <3> QED
        BY <1>1, <1>2, <2>2, <3>1, <3>2, <3>3, LeavesDelivery DEF Waiting
    <2>4. lease.auto = "none"
      BY <1>3 DEF OwnerInv
    <2> QED
      BY <1>1, <1>2, <1>3, <1>4, <1>6, <2>2, <2>3, <2>4, SavesAndGoesOn
  <1> QED
    BY <1>5, <1>6 DEF Repair

\* The repair of a manual operation: one before its intent has not written.
LEMMA RepairOperationStep ==
    ASSUME IInv, RepairOperation
    PROVE  IInv'
  <1> DEFINE r == turn.r
             q == IF r.op.phase = "automation-sealed" THEN Failed(r, FALSE)
                  ELSE IF r.op.phase = "write-intent-persisted" THEN Ambiguous(r) ELSE r
  <1>1. At("repair-op") /\ UNCHANGED <<draft, agent, screen>>
    BY DEF RepairOperation, Quiet
  <1>2. /\ turn \in Turns /\ r = rec /\ turn.at = "repair-op" /\ rec # NoRecord
        /\ Placed(turn.by, "repair-op", turn.id, rec, screen)
        /\ rec \in Records /\ rec.status \in Statuses
        /\ HistoryInv(rec, screen, task) /\ AutoRecorded(rec, screen)
        /\ ManualRecorded(rec, screen, task) /\ screen \in Screens /\ Stored(rec)
        /\ Terminal(rec) => lease.auto = "none"
    BY <1>1, Running DEF IInv
  <1>3. turn.by = "repair" /\ "none" \in Holds
    BY <1>2 DEF Placed, AutoAt, ManualAt, Holds
  <1>4. \/ rec.status = "delivered" /\ GoesOn(turn, "clear", rec) /\ NoStore
        \/ Ends(turn, rec, "none") /\ NoStore
        \/ rec.op.phase = "write-accepted" /\ GoesOn(turn, "settle", rec) /\ NoStore
        \/ /\ rec.op # NoOp /\ Store(turn, q, Ends(turn, q, "none"))
           /\ rec.op.phase # "write-accepted" /\ rec.op.phase # "confirmation-required"
           /\ ~Settled(rec.op)
    <2>1. CASE rec.op = NoOp \/ Settled(rec.op)
      BY <1>2, <2>1, Nothing DEF RepairOperation, Settled
    <2>2. CASE ~(rec.op = NoOp \/ Settled(rec.op)) /\ rec.op.phase = "confirmation-required"
      BY <1>2, <2>2 DEF RepairOperation
    <2>3. CASE ~(rec.op = NoOp \/ Settled(rec.op)) /\ rec.op.phase = "write-accepted"
      BY <1>2, <2>3 DEF RepairOperation
    <2>4. CASE /\ ~(rec.op = NoOp \/ Settled(rec.op))
               /\ rec.op.phase \notin {"confirmation-required", "write-accepted"}
      BY <1>2, <2>4 DEF RepairOperation
    <2> QED
      BY <2>1, <2>2, <2>3, <2>4
  <1> HIDE DEF r
  <1>5. ASSUME NoStore, NEW at \in {"clear", "settle"}, GoesOn(turn, at, rec),
               at = "clear" => rec.status = "delivered",
               at = "settle" => rec.op.phase = "write-accepted"
        PROVE  IInv'
    <2>1. Leaves(rec)
      BY <1>1, <1>2, <1>5, LeavesAsIs DEF NoStore, IInv, Kinds
    <2>2. Placed(turn.by, at, turn.id, rec, screen') /\ at \in Places
      BY <1>3, <1>5 DEF Placed, Places
    <2> QED
      BY <1>2, <1>5, <2>1, <2>2, TurnGoesOn DEF r
  <1>6. CASE Ends(turn, rec, "none") /\ NoStore
    BY <1>1, <1>2, <1>3, <1>6, EndsAsIs
  <1>7. CASE /\ rec.op # NoOp /\ Store(turn, q, Ends(turn, q, "none"))
             /\ rec.op.phase # "write-accepted" /\ rec.op.phase # "confirmation-required"
             /\ ~Settled(rec.op)
    <2>1. rec.op.phase \in Phases
      BY <1>2 DEF Records, Operations
    <2>2. \/ q = Failed(rec, FALSE) /\ rec.op.phase = "automation-sealed"
          \/ q = Ambiguous(rec) /\ rec.op.phase = "write-intent-persisted"
          \/ q = rec
      BY <1>2
    <2>3. /\ q \in Records /\ SameDelivery(rec, q) /\ q.op.id = rec.op.id
          /\ \/ q.op.phase = "failed-before-write" /\ rec.op.phase = "automation-sealed"
             \/ /\ q.op.phase = "manual-reconciliation-required"
                /\ rec.op.phase = "write-intent-persisted"
             \/ q.op = rec.op /\ rec.op.phase = "failed-before-write"
      <3>1. CASE q = Failed(rec, FALSE) /\ rec.op.phase = "automation-sealed"
        BY <1>2, <3>1, FailedFields
      <3>2. CASE q = Ambiguous(rec) /\ rec.op.phase = "write-intent-persisted"
        BY <1>2, <3>2, OpAtFields DEF Ambiguous, Phases
      <3>3. CASE q = rec /\ rec.op.phase \notin {"automation-sealed", "write-intent-persisted"}
        <4>1. rec.op.phase = "failed-before-write"
          BY <1>2, <1>7, <2>1, <3>3 DEF Phases, Settled, Stored
        <4> QED
          BY <1>2, <3>3, <4>1 DEF SameDelivery
      <3> QED
        BY <1>2, <3>1, <3>2, <3>3
    <2> HIDE DEF q
    <2>4. screen.manual[rec.op.id] \in Nat
      <3>1. rec.op.phase # "none"
        BY <1>2, <1>7 DEF Stored
      <3> QED
        BY <1>2, <3>1, OperationOver DEF Screens
    <2>5. PreIntent(q.op) \/ q.op.phase = "failed-before-write" => screen.manual[q.op.id] = 0
      BY <1>2, <1>7, <2>3, <2>4 DEF ManualRecorded, PreIntent
    <2>6. Coherent(q) /\ Becomes(q) => Leaves(q)
      <3> SUFFICES ASSUME Coherent(q), Becomes(q) PROVE Leaves(q)
        OBVIOUS
      <3>1. /\ q.op.phase \notin {"none", "write-accepted", "completed", "reconciled"}
            /\ screen' = screen
        BY <1>1, <2>3
      <3>2. \/ screen.auto = 0
            \/ q.op.id \in screen'.confirmed \/ task \in {"drained", "removed"}
        BY <1>1, <1>2, <1>7, <2>3 DEF ManualRecorded
      <3> QED
        BY <1>1, <1>2, <1>7, <2>3, <2>5, <3>1, <3>2, PhaseLeaves
    <2> QED
      BY <1>1, <1>2, <1>3, <1>7, <2>3, <2>6, SavesAndEnds
  <1> QED
    BY <1>4, <1>5, <1>6, <1>7

\* A running turn is told what happened meanwhile, and stays where it is.
LEMMA TurnIsTold ==
    ASSUME IInv, NEW m \in {"no", "version", "generation"}, Moves(m),
           agent' \in [gen : Int, state : {"gone", "busy", "idle"}],
           agent'.state # "gone" => agent'.gen > 0,
           UNCHANGED <<task, owner, draft, rec, tracked, finalizer, faults, screen, late, lease>>
    PROVE  IInv'
  <1> DEFINE u == [turn EXCEPT !.moved = m]
  <1>1. (turn' = turn) \/ (turn # Idle /\ turn' = u)
    BY DEF Moves, NoTurn
  <1>2. Kinds'
    BY DEF IInv, Kinds
  <1>3. CASE turn' = turn
    BY <1>2, <1>3 DEF IInv
  <1>4. CASE turn # Idle /\ turn' = u
    <2>1. turn \in Turns /\ TurnInv(turn, rec, screen)
      BY <1>4 DEF IInv, TurnInv
    <2>2. /\ u \in Turns /\ u.r = turn.r /\ u.at = turn.at /\ u.by = turn.by /\ u.id = turn.id
      BY <2>1 DEF Turns
    <2>3. u # Idle
      BY <2>2 DEF Idle, Turns, Operators
    <2> HIDE DEF u
    <2>4. TurnInv(turn, rec, screen)'
      BY <1>4, <2>1, <2>2 DEF TurnInv
    <2>5. LeaseInv(lease, turn, rec)'
      BY <1>4, <2>2, <2>3 DEF IInv, LeaseInv
    <2> QED
      BY <1>2, <2>4, <2>5 DEF IInv
  <1> QED
    BY <1>1, <1>3, <1>4

LEMMA AgentStep ==
    ASSUME IInv, AgentStarts \/ AgentTurns
    PROVE  IInv'
  <1>1. agent \in [gen : Int, state : {"gone", "busy", "idle"}]
        /\ (agent.state # "gone" => agent.gen > 0)
    BY DEF IInv, Kinds
  <1>2. turn.moved \in {"no", "version", "generation"}
    BY DEF IInv, TurnInv, Turns, Idle
  <1>3. CASE AgentStarts
    <2>1. PICK gen \in {agent.gen + 1} \cup {agent.gen} :
             /\ gen \in 1 .. MaxGeneration /\ agent' = [gen |-> gen, state |-> "busy"]
             /\ Moves(IF gen = agent.gen THEN turn.moved ELSE "generation")
      BY <1>3 DEF AgentStarts
    <2> DEFINE m == IF gen = agent.gen THEN turn.moved ELSE "generation"
    <2>2. m \in {"no", "version", "generation"} /\ Moves(m)
      BY <1>2, <2>1
    <2>3. /\ agent' \in [gen : Int, state : {"gone", "busy", "idle"}]
          /\ agent'.gen > 0
      BY <2>1, PromptAssumption
    <2>4. UNCHANGED <<task, owner, draft, rec, tracked, finalizer, faults, screen, late, lease>>
      BY <1>3 DEF AgentStarts, Outside
    <2> HIDE DEF m
    <2> QED
      BY <2>2, <2>3, <2>4, TurnIsTold
  <1>4. CASE AgentTurns
    <2>1. PICK s \in {"busy", "idle", "gone"} \ {agent.state} : agent' = [agent EXCEPT !.state = s]
      BY <1>4 DEF AgentTurns
    <2> DEFINE m == IF turn.moved = "generation" THEN "generation" ELSE "version"
    <2>2. m \in {"no", "version", "generation"} /\ Moves(m)
      BY <1>4 DEF AgentTurns
    <2>3. /\ agent' \in [gen : Int, state : {"gone", "busy", "idle"}]
          /\ agent'.gen > 0
      BY <1>1, <1>4, <2>1 DEF AgentTurns
    <2>4. UNCHANGED <<task, owner, draft, rec, tracked, finalizer, faults, screen, late, lease>>
      BY <1>4 DEF AgentTurns, Outside
    <2> HIDE DEF m
    <2> QED
      BY <2>2, <2>3, <2>4, TurnIsTold
  <1> QED
    BY <1>3, <1>4

LEMMA TakeControlStep ==
    ASSUME IInv, TakeControl
    PROVE  IInv'
  <1>1. /\ turn # Idle
        /\ lease' = [k \in DOMAIN lease |-> IF lease[k] = "held" THEN "lost" ELSE lease[k]]
        /\ UNCHANGED <<task, owner, draft, rec, tracked, finalizer, faults, screen, agent, late,
                       turn>>
    BY DEF TakeControl, Outside, NoTurn
  <1>2. /\ lease' \in [auto : Holds, manual : Holds]
        /\ lease.auto = "none" => lease'.auto = "none"
    BY <1>1 DEF IInv, LeaseInv, Holds
  <1>3. Kinds' /\ LeaseInv(lease, turn, rec)'
    BY <1>1, <1>2 DEF IInv, Kinds, LeaseInv
  <1> QED
    BY <1>1, <1>3 DEF IInv

LEMMA ElapseStep ==
    ASSUME IInv, Elapse
    PROVE  IInv'
  <1>1. /\ late' = TRUE
        /\ UNCHANGED <<task, owner, draft, rec, tracked, finalizer, faults, screen, agent, lease,
                       turn>>
    BY DEF Elapse, Outside
  <1> QED
    BY <1>1 DEF IInv, Kinds

-----------------------------------------------------------------------------
(* The invariant of the delivery. *)

LEMMA InitIInv == Init => IInv /\ OwnerInv
  <1> SUFFICES ASSUME Init PROVE IInv /\ OwnerInv
    OBVIOUS
  <1>1. /\ task = "open" /\ owner = "active" /\ agent = [gen |-> 0, state |-> "gone"]
        /\ late = FALSE /\ lease = NoHold /\ turn = Idle /\ tracked = FALSE /\ finalizer = -1
        /\ screen = [auto |-> IF rec.prior THEN 1 ELSE 0, absent |-> FALSE,
                     manual |-> [i \in Revisions |-> 0], whole |-> {}, confirmed |-> {},
                     open |-> {}, said |-> {}]
    BY DEF Init
  <1>2. /\ draft.rev = 0 /\ draft \in [rev : Revisions, mode : {"automatic", "manual-only"}]
        /\ 0 \in Revisions
    BY PromptAssumption DEF Init, Revisions
  <1>3. screen \in Screens /\ screen.manual = [i \in Revisions |-> 0] /\ screen.open = {}
        /\ screen.auto = IF rec.prior THEN 1 ELSE 0
    BY <1>1 DEF Screens
  <1>4. Kinds /\ LeaseInv(lease, turn, rec) /\ TurnInv(turn, rec, screen) /\ OwnerInv
        /\ DrainedInv(rec, task)
    <2>1. Kinds
      <3>1. agent \in [gen : Int, state : {"gone", "busy", "idle"}] /\ agent.state = "gone"
        BY <1>1
      <3>2. tracked \in BOOLEAN /\ late \in BOOLEAN
        BY <1>1
      <3> QED
        BY <1>1, <3>1, <3>2 DEF Kinds
    <2>2. LeaseInv(lease, turn, rec) /\ TurnInv(turn, rec, screen)
      BY <1>1 DEF LeaseInv, NoHold, Holds, TurnInv
    <2>3. OwnerInv /\ DrainedInv(rec, task)
      BY <1>1 DEF OwnerInv, Idle, DrainedInv
    <2> QED
      BY <2>1, <2>2, <2>3
  <1>5. CASE rec = NoRecord
    <2>1. ~NoRecord.prior
      BY DEF NoRecord, NewRecord
    <2>2. Stored(rec) /\ DraftInv(draft, rec, task)
      BY <1>1, <1>2, <1>5, Nothing DEF Stored, DraftInv
    <2>3. HistoryInv(rec, screen, task)
      BY <1>3, <1>5, <2>1 DEF HistoryInv, Untouched
    <2> QED
      BY <1>4, <2>2, <2>3 DEF IInv
  <1>6. CASE rec = LegacyRecord
    <2>1. /\ LegacyRecord \in Records /\ LegacyRecord.rev = 0 /\ LegacyRecord.op = NoOp
          /\ LegacyRecord.status = "manual-required" /\ LegacyRecord.prior
      BY Nothing, ZenonT(30) DEF LegacyRecord, NewRecord, Records, Statuses, TerminalStatuses
    <2>2. /\ LegacyRecord.hw = -1 /\ ~LegacyRecord.began /\ LegacyRecord.sealed
          /\ LegacyRecord.attempts = 0 /\ NoOp.closed = FALSE
      BY DEF LegacyRecord, NewRecord, NoOp
    <2>3. LegacyRecord # NoRecord /\ Terminal(LegacyRecord) /\ LegacyRecord.status \in Statuses
      BY <2>1, Nothing DEF Terminal, TerminalStatuses, Statuses
    <2>4. Coherent(LegacyRecord)
      BY <2>1, <2>2, <2>3 DEF Coherent, Waiting
    <2>5. Stored(rec) /\ DraftInv(draft, rec, task)
      BY <1>1, <1>2, <1>6, <2>1, <2>3, <2>4 DEF Stored, DraftInv
    <2>6. HistoryInv(rec, screen, task)
      <3>1. AutoRecorded(rec, screen)
        BY <1>6, <2>1 DEF AutoRecorded, PriorWrite, Waiting
      <3>2. ManualRecorded(rec, screen, task)
        BY <1>3, <1>6, <2>1, Nothing DEF ManualRecorded
      <3> QED
        BY <1>3, <1>6, <2>3, <3>1, <3>2 DEF HistoryInv
    <2> QED
      BY <1>4, <2>5, <2>6 DEF IInv
  <1> QED
    BY <1>5, <1>6 DEF Init

LEMMA NextIInv == IInv /\ OwnerInv /\ [Next]_vars => IInv'
  <1> SUFFICES ASSUME IInv, OwnerInv, [Next]_vars PROVE IInv'
    OBVIOUS
  <1>1. CASE Queue
    BY <1>1, QueueStep
  <1>2. CASE Observe
    BY <1>2, ObserveStep
  <1>3. CASE Finalize
    BY <1>3, FinalizeStep
  <1>4. CASE Work
    <2>1. CASE Deadline \/ ClearDelivered \/ Dispatch \/ Intent \/ Begin
      BY <2>1, DeadlineStep, ClearDeliveredStep, DispatchStep, IntentStep, BeginStep
    <2>2. CASE Admit \/ Submit \/ Rejected \/ Withdrawn \/ OutcomeAmbiguous \/ Accepted
      BY <2>2, AdmitStep, SubmitStep, RejectedStep, WithdrawnStep, OutcomeAmbiguousStep,
         AcceptedStep
    <2>3. CASE Check \/ ManualIntent \/ Settle \/ Complete \/ ClearObserved \/ Reconcile
      BY <2>3, CheckStep, ManualIntentStep, SettleStep, CompleteStep, ClearObservedStep,
         ReconcileStep
    <2>4. CASE Repair \/ RepairOperation
      BY <2>4, RepairStep, RepairOperationStep
    <2> QED
      BY <1>4, <2>1, <2>2, <2>3, <2>4 DEF Work
  <1>5. CASE User
    BY <1>5, SendManuallyStep, ResolveStep, EditStep DEF User
  <1>6. CASE Removal
    BY <1>6, CloseStep, DrainStep, CommitRemovalStep, FinalizeRemovalStep DEF Removal
  <1>7. CASE Exit
    BY <1>7, DiesStep DEF Exit
  <1>8. CASE Start
    BY <1>8, StartStep
  <1>9. CASE Environment
    BY <1>9, AgentStep, TakeControlStep, ElapseStep, StopStep, DiesStep DEF Environment, Crash
  <1>10. CASE UNCHANGED vars
    BY <1>10 DEF vars, IInv, Kinds
  <1> QED
    BY <1>1, <1>2, <1>3, <1>4, <1>5, <1>6, <1>7, <1>8, <1>9, <1>10 DEF Next

\* What a turn t that runs does to the owner and to the leases, whatever else it does.
Runs(t) ==
    \/ turn' = Idle /\ owner' = IF t.by = "repair" THEN "active" ELSE owner
    \/ /\ turn' = Idle /\ owner' = IF t.by = "repair" THEN "down" ELSE owner
       /\ lease'.auto \in {"none", lease.auto}
    \/ turn' # Idle /\ turn'.by = t.by /\ UNCHANGED <<owner, lease>>
    \/ turn' # Idle /\ turn'.by = t.by /\ t.by # "repair" /\ UNCHANGED owner

LEMMA RunsKeepsOwner ==
    ASSUME OwnerInv, NEW t, Runs(t), owner # "down", owner = "repair" <=> t.by = "repair"
    PROVE  OwnerInv'
  <1>1. Idle.by = "none"
    BY DEF Idle
  <1> QED
    BY <1>1 DEF Runs, OwnerInv

\* The ways a turn's step ends.
LEMMA TurnRuns ==
    ASSUME NEW t \in Turns
    PROVE  /\ \A r, a : Ends(t, r, a) => Runs(t)
           /\ \A a \in {"none", lease.auto} : Throws(t, a) => Runs(t)
           /\ \A at, r : GoesOn(t, at, r) => Runs(t)
  <1>1. \A r, a : Ends(t, r, a) => Runs(t)
    BY DEF Ends, Runs
  <1>2. \A a \in {"none", lease.auto} : Throws(t, a) => Runs(t)
    BY DEF Throws, Runs
  <1>3. ASSUME NEW at, NEW r, GoesOn(t, at, r) PROVE Runs(t)
    <2>1. turn' = [t EXCEPT !.at = at, !.r = r] /\ UNCHANGED <<lease, owner>>
      BY <1>3 DEF GoesOn
    <2>2. turn'.by = t.by /\ t.by \in Operators
      BY <2>1 DEF Turns
    <2>3. turn' # Idle
      BY <2>2 DEF Idle, Operators
    <2> QED
      BY <2>1, <2>2, <2>3 DEF Runs
  <1> QED
    BY <1>1, <1>2, <1>3

\* A running turn's step is of its runner's kind.
LEMMA WorkRuns ==
    ASSUME IInv, Work
    PROVE  turn # Idle /\ Runs(turn)
  <1>1. turn # Idle
    BY DEF Work, Deadline, ClearDelivered, Dispatch, Intent, Begin, Admit, Submit, Rejected,
           Withdrawn, OutcomeAmbiguous, Accepted, Check, ManualIntent, Settle, Complete,
           ClearObserved, Reconcile, Repair, RepairOperation, At
  <1>2. turn \in Turns
    BY <1>1 DEF IInv, TurnInv
  <1>3. CASE Deadline \/ Intent \/ Begin \/ Rejected \/ Withdrawn
    BY <1>1, <1>2, <1>3, TurnRuns DEF Deadline, Intent, Begin, Rejected, Withdrawn, Settles, Store
  <1>4. CASE OutcomeAmbiguous \/ Accepted \/ ManualIntent \/ Complete \/ Reconcile
    BY <1>1, <1>2, <1>4, TurnRuns
       DEF OutcomeAmbiguous, Accepted, ManualIntent, Complete, Reconcile, Settles, Store
  <1>5. CASE Repair
    BY <1>1, <1>2, <1>5, TurnRuns DEF Repair, Store
  <1>6. CASE ClearDelivered \/ Settle \/ ClearObserved
    BY <1>1, <1>2, <1>6, TurnRuns DEF ClearDelivered, Settle, ClearObserved, Clear
  <1>7. ASSUME NEW at, turn' = [turn EXCEPT !.at = at] PROVE turn' # Idle /\ turn'.by = turn.by
    <2>1. turn'.by = turn.by /\ turn.by \in Operators
      BY <1>2, <1>7 DEF Turns
    <2> QED
      BY <2>1 DEF Idle, Operators
  <1>8. CASE Dispatch \/ Check
    <2>1. turn.by # "repair"
      <3>1. Placed(turn.by, turn.at, turn.id, turn.r, screen) /\ turn.at \in {"dispatch", "check"}
        BY <1>1, <1>8 DEF Dispatch, Check, At, IInv, TurnInv
      <3> QED
        BY <3>1 DEF Placed
    <2>2. \/ Settles(turn, "verification-inconclusive") \/ Ends(turn, turn.r, "none")
          \/ Store(turn, Failed(turn.r, FALSE), Ends(turn, Failed(turn.r, FALSE), lease.auto))
          \/ turn' = [turn EXCEPT !.at = "intent"] /\ UNCHANGED owner
      BY <1>8 DEF Dispatch, Check
    <2> QED
      <3>1. CASE turn' = [turn EXCEPT !.at = "intent"] /\ UNCHANGED owner
        BY <1>1, <1>7, <2>1, <3>1 DEF Runs
      <3>2. CASE ~(turn' = [turn EXCEPT !.at = "intent"] /\ UNCHANGED owner)
        BY <1>1, <1>2, <2>2, <3>2, TurnRuns DEF Settles, Store
      <3> QED
        BY <3>1, <3>2
  <1>9. CASE Admit \/ Submit
    <2>1. UNCHANGED <<owner, lease>>
      BY <1>9 DEF Admit, Submit
    <2>2. turn'.by = turn.by /\ turn.by \in Operators
      BY <1>2, <1>9 DEF Admit, Submit, Turns
    <2>3. turn' # Idle
      BY <2>2 DEF Idle, Operators
    <2> QED
      BY <1>1, <2>1, <2>2, <2>3 DEF Runs
  <1>10. CASE RepairOperation
    <2> DEFINE r == turn.r
               q == IF r.op.phase = "automation-sealed" THEN Failed(r, FALSE)
                    ELSE IF r.op.phase = "write-intent-persisted" THEN Ambiguous(r) ELSE r
    <2>1. \/ GoesOn(turn, "clear", r)
          \/ Ends(turn, r, "none")
          \/ GoesOn(turn, "settle", r)
          \/ Store(turn, q, Ends(turn, q, "none"))
      <3>1. CASE r.op = NoOp \/ Settled(r.op)
        BY <1>10, <3>1, Nothing DEF RepairOperation, Settled
      <3>2. CASE ~(r.op = NoOp \/ Settled(r.op)) /\ r.op.phase = "confirmation-required"
        BY <1>10, <3>2 DEF RepairOperation
      <3>3. CASE ~(r.op = NoOp \/ Settled(r.op)) /\ r.op.phase = "write-accepted"
        BY <1>10, <3>3 DEF RepairOperation
      <3>4. CASE /\ ~(r.op = NoOp \/ Settled(r.op))
                 /\ r.op.phase \notin {"confirmation-required", "write-accepted"}
        BY <1>10, <3>4 DEF RepairOperation
      <3> QED
        BY <3>1, <3>2, <3>3, <3>4
    <2> HIDE DEF r, q
    <2> QED
      BY <1>1, <1>2, <2>1, TurnRuns DEF Store
  <1> QED
    BY <1>1, <1>3, <1>4, <1>5, <1>6, <1>8, <1>9, <1>10 DEF Work

\* A turn that starts is no repair, and an active owner runs it.
LEMMA StartsRun ==
    ASSUME IInv, NoTurn, rec # NoRecord, NEW who \in Operators, who # "repair", NEW i \in Int,
           LET t == Turn(who, rec, i) IN
             \/ \E r, a : Ends(t, r, a)
             \/ \E at, r : GoesOn(t, at, r)
             \/ Throws(t, lease.auto),
           OwnerInv, owner = "active"
    PROVE  OwnerInv'
  <1> DEFINE t == Turn(who, rec, i)
  <1>1. t \in Turns /\ t.by = who
    BY NewTurn
  <1>2. \/ \E r, a : Ends(t, r, a)
        \/ \E at, r : GoesOn(t, at, r)
        \/ Throws(t, lease.auto)
    OBVIOUS
  <1> HIDE DEF t
  <1>3. Runs(t)
    BY <1>1, <1>2, TurnRuns
  <1> QED
    BY <1>1, <1>3, RunsKeepsOwner

LEMMA ObserveOwner ==
    ASSUME IInv, OwnerInv, Observe
    PROVE  OwnerInv'
  <1> DEFINE t == Turn("observe", rec, -1)
  <1>1. NoTurn /\ owner = "active" /\ rec # NoRecord /\ rec.status \in Statuses
    BY DEF Observe, Open, IInv, Stored
  <1>2. agent.state \in {"gone", "busy", "idle"}
    BY DEF IInv, Kinds
  <1>3. t \in Turns /\ t.by = "observe" /\ t.r = rec
    BY <1>1, Observation
  <1>4. \/ GoesOn(t, "clear", rec) \/ Ends(t, rec, "none")
        \/ \E e : Settles(t, e)
        \/ Expire(t) \/ NewSession(t) \/ Verify(t) \/ Ready(t)
    <2>1. CASE Terminal(rec)
      BY <2>1 DEF Observe, Terminal, TerminalStatuses
    <2>2. CASE ~Terminal(rec) /\ rec.status = "writing"
      BY <2>2 DEF Observe
    <2>3. CASE ~Terminal(rec) /\ rec.status # "writing" /\ agent.state = "gone"
      BY <2>3 DEF Observe
    <2>4. CASE ~Terminal(rec) /\ rec.status # "writing" /\ agent.state # "gone"
      BY <1>2, <2>4 DEF Observe
    <2> QED
      BY <2>1, <2>2, <2>3, <2>4
  <1> HIDE DEF t
  <1>5. Runs(t)
    <2>1. \A e : Settles(t, e) => Runs(t)
      BY <1>3, TurnRuns DEF Settles, Store
    <2>2. Expire(t) => Runs(t)
      <3>1. CASE t.r.status = "retry-wait"
        BY <2>1, <3>1 DEF Expire, Due, Waiting
      <3>2. CASE t.r.status # "retry-wait" /\ Due(t.r)
        BY <2>1, <3>2 DEF Expire
      <3>3. CASE t.r.status # "retry-wait" /\ ~Due(t.r)
        BY <1>3, <3>3, TurnRuns DEF Expire
      <3> QED
        BY <3>1, <3>2, <3>3
    <2>3. NewSession(t) => Runs(t)
      BY <1>3, TurnRuns DEF NewSession, Store
    <2>4. Verify(t) => Runs(t)
      BY <1>3, <2>1, TurnRuns DEF Verify, Store
    <2>5. Ready(t) => Runs(t)
      BY <1>3, <2>1, TurnRuns DEF Ready, Store
    <2> QED
      BY <1>3, <1>4, <2>1, <2>2, <2>3, <2>4, <2>5, TurnRuns
  <1> QED
    BY <1>1, <1>3, <1>5, RunsKeepsOwner

LEMMA SendOwner ==
    ASSUME IInv, OwnerInv, NEW i \in Revisions, NEW confirm \in BOOLEAN, NEW retry \in BOOLEAN,
           SendManually(i, confirm, retry)
    PROVE  OwnerInv'
  <1> DEFINE t == Turn("manual", rec, i)
             r == Seal(rec, i, confirm)
  <1>1. NoTurn /\ owner = "active" /\ rec # NoRecord /\ i \in Int
    BY PromptAssumption DEF SendManually, Open, Revisions
  <1>2. t \in Turns /\ t.by = "manual" /\ t.r = rec
    BY <1>1, NewTurn DEF Operators
  <1>3. \/ Ends(t, rec, lease.auto) \/ GoesOn(t, "settle", rec)
        \/ Store(t, Ambiguous(rec), Ends(t, Ambiguous(rec), lease.auto))
        \/ Continues(t, i, confirm, retry)
        \/ Store(t, r, IF r.op.phase = "confirmation-required"
                       THEN Ends(t, r, "none")
                       ELSE /\ turn' = [t EXCEPT !.at = "check", !.r = r]
                            /\ lease' = NoHold
                            /\ UNCHANGED <<tracked, owner, task, finalizer>>)
    BY DEF SendManually
  <1> HIDE DEF t, r
  <1>4. ASSUME turn' = [t EXCEPT !.at = "check", !.r = r], UNCHANGED owner PROVE Runs(t)
    <2>1. turn'.by = "manual"
      BY <1>2, <1>4 DEF Turns
    <2>2. turn' # Idle
      BY <2>1 DEF Idle
    <2> QED
      BY <1>2, <1>4, <2>1, <2>2 DEF Runs
  <1>5. Runs(t)
    BY <1>2, <1>3, <1>4, TurnRuns DEF Continues, Store
  <1> QED
    BY <1>1, <1>2, <1>5, RunsKeepsOwner

LEMMA NextOwner == IInv /\ OwnerInv /\ [Next]_vars => OwnerInv'
  <1> SUFFICES ASSUME IInv, OwnerInv, [Next]_vars PROVE OwnerInv'
    OBVIOUS
  <1>0. Idle.by = "none"
    BY DEF Idle
  <1>1. CASE UNCHANGED <<turn, owner, lease>>
    BY <1>1 DEF OwnerInv
  <1>2. CASE Queue \/ CloseTask \/ ReopenTask \/ CommitRemoval \/ FinalizeRemoval \/ UNCHANGED vars
    <2>1. UNCHANGED <<turn, owner, lease>>
      BY <1>2 DEF Queue, CloseTask, ReopenTask, CommitRemoval, FinalizeRemoval, vars
    <2> QED
      BY <1>1, <2>1
  <1>3. CASE Observe
    BY <1>3, ObserveOwner
  <1>4. CASE Work
    <2>1. turn # Idle /\ Runs(turn)
      BY <1>4, WorkRuns
    <2> QED
      BY <2>1, RunsKeepsOwner DEF OwnerInv
  <1>5. CASE \E i \in Revisions, confirm, retry \in BOOLEAN : SendManually(i, confirm, retry)
    BY <1>5, SendOwner
  <1>6. CASE Finalize
    <2>1. finalizer \in Int
      BY PromptAssumption DEF IInv, Kinds, Revisions
    <2>2. CASE UNCHANGED <<turn, owner, lease>>
      BY <1>1, <2>2
    <2>3. CASE /\ NoTurn /\ owner = "active" /\ rec.op.phase = "write-accepted"
               /\ GoesOn(Turn("finalize", rec, finalizer), "settle", rec)
      <3>1. rec # NoRecord
        BY <2>3, Nothing
      <3> QED
        BY <2>1, <2>3, <3>1, StartsRun DEF Operators
    <2> QED
      BY <1>6, <2>2, <2>3 DEF Finalize
  <1>7. CASE \E sent \in BOOLEAN : Resolve(sent)
    <2>1. PICK at \in {"observed-sent", "reconcile"} :
             /\ NoTurn /\ owner = "active" /\ rec.op.phase = "manual-reconciliation-required"
             /\ GoesOn(Turn("resolve", rec, -1), at, rec)
      BY <1>7 DEF Resolve, Open
    <2>2. rec # NoRecord
      BY <2>1, Nothing
    <2> QED
      BY <2>1, <2>2, StartsRun DEF Operators
  <1>8. CASE Drain
    <2> DEFINE t == Turn("drain", rec, -1)
    <2>1. /\ NoTurn /\ owner = "active"
          /\ \/ rec.op.phase = "write-accepted" /\ GoesOn(t, "settle", rec)
             \/ \E r : Ends(t, r, "none")
             \/ rec # NoRecord /\ Throws(t, lease.auto)
      BY <1>8 DEF Drain, Store
    <2>2. CASE rec # NoRecord
      BY <2>1, <2>2, StartsRun DEF Operators
    <2>3. CASE rec = NoRecord
      <3>1. rec.op.phase # "write-accepted" /\ t.by = "drain"
        BY <2>3, Nothing DEF Turn
      <3>2. turn' = Idle /\ owner' = owner
        BY <2>1, <2>3, <3>1 DEF Ends
      <3> QED
        BY <1>0, <2>1, <3>2 DEF OwnerInv
    <2> QED
      BY <2>2, <2>3
  <1>9. CASE Edit
    <2>1. turn = Idle /\ owner = "active" /\ UNCHANGED <<turn, owner>>
      BY <1>9 DEF Edit, CanEdit, NoTurn, Open
    <2> QED
      BY <1>0, <2>1 DEF OwnerInv
  <1>10. CASE Crash \/ Exit
    BY <1>0, <1>10 DEF Crash, Exit, Dies, OwnerInv, NoHold
  <1>11. CASE Stop
    BY <1>11 DEF Stop, OwnerInv
  <1>12. CASE Start
    <2>1. turn = Idle /\ owner = "down" /\ UNCHANGED lease
      BY <1>12 DEF Start, OwnerInv
    <2>2. CASE owner' = "active" /\ UNCHANGED turn
      BY <1>0, <2>1, <2>2 DEF OwnerInv
    <2>3. CASE /\ rec # NoRecord /\ owner' = "repair"
               /\ turn' = [Turn("repair", rec, -1) EXCEPT !.at = "repair"]
      <3>1. turn'.by = "repair"
        BY <2>3 DEF Turn
      <3> QED
        BY <2>1, <2>3, <3>1 DEF OwnerInv
    <2> QED
      BY <1>12, <2>2, <2>3 DEF Start
  <1>13. CASE AgentStarts \/ AgentTurns
    <2>1. UNCHANGED <<owner, lease>> /\ \E m : Moves(m)
      BY <1>13 DEF AgentStarts, AgentTurns, Outside
    <2>2. \/ turn' = turn
          \/ turn # Idle /\ \E m : turn' = [turn EXCEPT !.moved = m]
      BY <2>1 DEF Moves, NoTurn
    <2>3. turn # Idle => turn \in Turns
      BY DEF IInv, TurnInv
    <2>4. turn'.by = turn.by
      BY <2>2, <2>3 DEF Turns
    <2>5. turn = Idle => turn' = Idle
      BY <2>2
    <2> QED
      BY <2>1, <2>4, <2>5 DEF OwnerInv
  <1>14. CASE TakeControl
    <2>1. lease \in [auto : Holds, manual : Holds]
      BY DEF IInv, LeaseInv
    <2>2. /\ UNCHANGED <<owner, turn>>
          /\ lease' = [k \in DOMAIN lease |-> IF lease[k] = "held" THEN "lost" ELSE lease[k]]
      BY <1>14 DEF TakeControl, Outside
    <2>3. lease.auto = "none" => lease'.auto = "none"
      BY <2>1, <2>2
    <2> QED
      BY <2>2, <2>3 DEF OwnerInv
  <1>15. CASE Elapse
    <2>1. UNCHANGED <<turn, owner, lease>>
      BY <1>15 DEF Elapse, Outside
    <2> QED
      BY <1>1, <2>1
  <1> QED
    BY <1>2, <1>3, <1>4, <1>5, <1>6, <1>7, <1>8, <1>9, <1>10, <1>11, <1>12, <1>13, <1>14, <1>15
       DEF Next, User, Removal, Environment

\* The delivery's invariant holds in every state of every behaviour.
LEMMA DeliveryInvariant == Spec => [](IInv /\ OwnerInv)
  <1>1. Init => IInv /\ OwnerInv
    BY InitIInv
  <1>2. IInv /\ OwnerInv /\ [Next]_vars => (IInv /\ OwnerInv)'
    BY NextIInv, NextOwner
  <1> QED
    BY <1>1, <1>2, PTL DEF Spec

-----------------------------------------------------------------------------
(* The safety properties. *)

\* Every variable has its type, and a stored record is one the journal accepts.
THEOREM TypeCorrect == Spec => []TypeOK
  <1>1. IInv => TypeOK
    <2> SUFFICES ASSUME IInv PROVE TypeOK
      OBVIOUS
    <2>1. /\ task \in {"open", "closing", "drained", "removed"}
          /\ owner \in {"down", "repair", "active", "stopping"}
          /\ finalizer \in Revisions \cup {-1} /\ tracked \in BOOLEAN
      BY DEF IInv, Kinds
    <2>2. draft = NoDraft \/ draft.rev \in Revisions
      BY DEF IInv, DraftInv
    <2>3. /\ rec = NoRecord \/ (Coherent(rec) /\ rec.status \in Statuses)
          /\ rec.op = NoOp \/ rec.op.id \in 0 .. rec.rev
      BY DEF IInv, Stored
    <2>4. \A k \in DOMAIN lease : lease[k] \in {"none", "held", "lost"}
      BY DEF IInv, LeaseInv, Holds
    <2> QED
      BY <2>1, <2>2, <2>3, <2>4 DEF TypeOK
  <1> QED
    BY <1>1, DeliveryInvariant, PTL

\* The journal never says less than the terminal knows: after a crash at any point the record
\* that is found admits every byte that was written.
THEOREM JournalSaysEnough == Spec => []JournalAdmitsWrites
  <1>1. IInv => JournalAdmitsWrites
    BY DEF IInv, HistoryInv, AutoRecorded, ManualRecorded, JournalAdmitsWrites
  <1> QED
    BY <1>1, DeliveryInvariant, PTL

\* What is reported as delivered or completed has reached the terminal whole.
THEOREM DoneIsDone == Spec => []DoneWasWritten
  <1>1. IInv => DoneWasWritten
    BY Nothing DEF IInv, HistoryInv, AutoRecorded, ManualRecorded, DoneWasWritten
  <1> QED
    BY <1>1, DeliveryInvariant, PTL

\* Whatever fails, a delivery that is over retains no command lease, and a manual send none.
THEOREM LeasesComeBack == Spec => []LeaseGivenBack
  <1>1. IInv => LeaseGivenBack
    BY DEF IInv, LeaseInv, LeaseGivenBack, NoTurn
  <1> QED
    BY <1>1, DeliveryInvariant, PTL

\* The parts of the terminal's history that only an admission changes.
SameWrites == screen'.auto = screen.auto /\ screen'.manual = screen.manual

\* Nothing is written but by the admission of a first frame.
LEMMA OnlyAdmissionWrites ==
    ASSUME IInv, [Next]_vars, ~Admit
    PROVE  SameWrites
  <1>1. screen \in Screens
    BY DEF IInv, HistoryInv
  <1>2. CASE UNCHANGED screen
    BY <1>2 DEF SameWrites
  <1>3. CASE \/ Queue \/ Finalize \/ Edit \/ Removal \/ Exit \/ Start \/ Environment
             \/ UNCHANGED vars
    <2>1. UNCHANGED screen
      BY <1>3 DEF Queue, Finalize, Edit, Removal, CloseTask, ReopenTask, Drain, CommitRemoval,
         FinalizeRemoval, Exit, Start, Environment, AgentStarts, AgentTurns, TakeControl, Elapse,
         Crash, Stop, Outside, Quiet, vars
    <2> QED
      BY <1>2, <2>1
  <1>4. CASE Observe
    <2>1. screen' = screen \/ screen' = [screen EXCEPT !.absent = TRUE]
      <3>1. agent.state \in {"gone", "busy", "idle"}
        BY DEF IInv, Kinds
      <3>2. CASE Terminal(rec)
        BY <1>4, <3>2 DEF Observe, Terminal, TerminalStatuses
      <3>3. CASE ~Terminal(rec) /\ rec.status = "writing"
        BY <1>4, <3>3 DEF Observe
      <3>4. CASE ~Terminal(rec) /\ rec.status # "writing" /\ agent.state = "gone"
        BY <1>4, <3>4 DEF Observe
      <3>5. CASE ~Terminal(rec) /\ rec.status # "writing" /\ agent.state # "gone"
        BY <1>4, <3>1, <3>5 DEF Observe, Verify
      <3> QED
        BY <3>2, <3>3, <3>4, <3>5
    <2> QED
      BY <1>1, <2>1 DEF Screens, SameWrites
  <1>5. CASE User /\ ~Edit
    <2>1. \/ screen' = screen
          \/ \E i, c : screen' = [screen EXCEPT !.confirmed = IF c THEN @ \cup {i} ELSE @]
          \/ \E i, c : screen' = [screen EXCEPT !.said = IF c THEN @ \cup {i} ELSE @]
      BY <1>5, ZenonT(30) DEF User, SendManually, Resolve
    <2> QED
      BY <1>1, <2>1 DEF Screens, SameWrites
  <1>6. CASE Work
    <2>1. CASE Submit
      BY <1>1, <2>1 DEF Submit, Screens, SameWrites
    <2>2. CASE Complete \/ Reconcile
      BY <1>1, <2>2 DEF Complete, Reconcile, Screens, SameWrites
    <2>3. CASE ~Submit /\ ~Complete /\ ~Reconcile
      <3>1. UNCHANGED screen
        BY <1>6, <2>3 DEF Work, Deadline, ClearDelivered, Dispatch, Intent, Begin, Rejected,
           Withdrawn, OutcomeAmbiguous, Accepted, Check, ManualIntent, Settle, ClearObserved,
           Repair, RepairOperation, Quiet
      <3> QED
        BY <1>2, <3>1
    <2> QED
      BY <2>1, <2>2, <2>3
  <1> QED
    BY <1>3, <1>4, <1>5, <1>6 DEF Next, User

\* What an admission writes it may write: an automatic frame follows no other, or one that was
\* seen not to arrive, and no manual send; a manual one is the first of its operation, while no
\* other is open, and with the user's word if an automatic write is possible.
LEMMA AdmissionIsSound ==
    ASSUME IInv, Admit
    PROVE  /\ screen'.auto # screen.auto =>
                /\ screen.auto = 0 \/ screen.absent
                /\ \A i \in Revisions : screen.manual[i] = 0
           /\ \A i \in Revisions : screen'.manual[i] # screen.manual[i] =>
                /\ screen.manual[i] = 0 /\ screen.open = {}
                /\ screen.auto = 0 \/ i \in screen.confirmed
  <1>1. At("admit")
    BY DEF Admit
  <1>2. /\ screen \in Screens /\ ManualRecorded(rec, screen, task) /\ turn \in Turns
        /\ rec # NoRecord /\ rec.status \in Statuses /\ Coherent(rec)
        /\ turn.by \in {"manual", "finalize"} => turn.id \in Revisions
    BY <1>1, Running
  <1>3. \/ UNCHANGED screen
        \/ Rejection = "none" /\ \E whole \in BOOLEAN : screen' = Received(turn, whole)
    BY DEF Admit
  <1>4. CASE UNCHANGED screen
    BY <1>4
  <1>5. ASSUME Rejection = "none", NEW whole \in BOOLEAN, screen' = Received(turn, whole)
        PROVE  /\ screen'.auto # screen.auto =>
                    /\ screen.auto = 0 \/ screen.absent
                    /\ \A i \in Revisions : screen.manual[i] = 0
               /\ \A i \in Revisions : screen'.manual[i] # screen.manual[i] =>
                    /\ screen.manual[i] = 0 /\ screen.open = {}
                    /\ screen.auto = 0 \/ i \in screen.confirmed
    <2>1. CASE /\ turn.by = "observe" /\ ~Terminal(rec) /\ Writing(rec, screen)
      <3>1. rec.op = NoOp
        BY <1>2, <2>1, CoherentDelivery
      <3>2. \A i \in Revisions : screen.manual[i] \in Nat /\ ~(screen.manual[i] > 0)
        BY <1>2, <3>1 DEF ManualRecorded, Screens
      <3>3. screen'.manual = screen.manual
        BY <1>2, <1>5, <2>1 DEF Received, Screens
      <3> QED
        BY <2>1, <3>2, <3>3 DEF Writing
    <2>2. CASE /\ turn.by = "manual" /\ rec.op # NoOp /\ turn.id = rec.op.id
               /\ rec.op.phase = "write-intent-persisted" /\ screen.manual[turn.id] = 0
      <3>1. screen'.auto = screen.auto
            /\ \A i \in Revisions : i # turn.id => screen'.manual[i] = screen.manual[i]
        BY <1>2, <1>5, <2>2 DEF Received, Screens
      <3>2. screen.open = {}
        BY <1>2, <2>2 DEF ManualRecorded
      <3>3. task = "open"
        BY <1>5 DEF Rejection, Open
      <3>4. screen.auto = 0 \/ turn.id \in screen.confirmed
        BY <1>2, <2>2, <3>3 DEF ManualRecorded
      <3> QED
        BY <2>2, <3>1, <3>2, <3>4
    <2> QED
      BY <1>1, <2>1, <2>2, AtTheTerminal
  <1> QED
    BY <1>3, <1>4, <1>5

\* No write is repeated blindly, however the turns, the agent, the user and the failures
\* interleave: the server writes again only after it saw that the first write did not arrive.
THEOREM NoWriteIsRepeatedBlindly == Spec => NoBlindRewrite
  <1>1. ASSUME IInv, [Next]_vars
        PROVE  /\ screen'.auto # screen.auto =>
                    /\ screen.auto = 0 \/ screen.absent
                    /\ \A i \in Revisions : screen.manual[i] = 0
               /\ \A i \in Revisions : screen'.manual[i] # screen.manual[i] =>
                    /\ screen.manual[i] = 0 /\ screen.open = {}
                    /\ screen.auto = 0 \/ i \in screen.confirmed
    <2>1. CASE Admit
      BY <1>1, <2>1, AdmissionIsSound
    <2>2. CASE ~Admit
      BY <1>1, <2>2, OnlyAdmissionWrites DEF SameWrites
    <2> QED
      BY <2>1, <2>2
  <1>2. IInv /\ [Next]_vars =>
           [/\ screen.auto' # screen.auto =>
                  /\ screen.auto = 0 \/ screen.absent
                  /\ \A i \in Revisions : screen.manual[i] = 0
            /\ \A i \in Revisions : screen.manual'[i] # screen.manual[i] =>
                  /\ screen.manual[i] = 0 /\ screen.open = {}
                  /\ screen.auto = 0 \/ i \in screen.confirmed]_vars
    BY <1>1
  <1> QED
    BY <1>2, DeliveryInvariant, PTL DEF Spec, NoBlindRewrite

\* No text is lost: the canonical draft goes only in the revision that the terminal received
\* whole, or the user reported as sent, with its task, or after a delivery.
THEOREM NoTextIsLost == Spec => ClearsOnlySentText
  <1>1. ASSUME IInv, [Next]_vars, draft # NoDraft, draft' = NoDraft, task' # "removed"
        PROVE  \/ draft.rev \in screen.whole \cup screen.said
               \/ rec.status = "delivered" /\ screen.whole # {}
    <2>1. CASE ClearDelivered
      <3>1. /\ Placed(turn.by, "clear", turn.id, rec, screen) /\ AutoRecorded(rec, screen)
        BY <1>1, <2>1, Running DEF ClearDelivered
      <3>2. rec.status = "delivered"
        BY <3>1 DEF Placed, AutoAt, ManualAt
      <3> QED
        BY <3>1, <3>2 DEF AutoRecorded
    <2>2. CASE Settle
      <3>1. /\ Placed(turn.by, "settle", turn.id, rec, screen) /\ turn.r = rec
            /\ ManualRecorded(rec, screen, task)
        BY <1>1, <2>2, Running DEF Settle
      <3>2. rec.op.phase = "write-accepted"
        BY <3>1 DEF Placed, AutoAt, ManualAt
      <3>3. draft' # draft => draft.rev = rec.op.id
        BY <2>2, <3>1 DEF Settle, Clear
      <3> QED
        BY <1>1, <3>1, <3>2, <3>3 DEF ManualRecorded
    <2>3. CASE ClearObserved
      <3>1. Placed(turn.by, "observed-sent", turn.id, rec, screen) /\ turn.r = rec
        BY <1>1, <2>3, Running DEF ClearObserved
      <3>2. rec.op.id \in screen.said
        BY <3>1 DEF Placed, AutoAt, ManualAt
      <3>3. draft' # draft => draft.rev = rec.op.id
        BY <2>3, <3>1 DEF ClearObserved, Clear
      <3> QED
        BY <1>1, <3>2, <3>3
    <2>4. CASE Edit
      <3>1. draft' = [rev |-> draft.rev + 1, mode |-> "manual-only"]
        BY <1>1, <2>4 DEF Edit
      <3>2. draft' # NoDraft
        BY <3>1 DEF NoDraft
      <3> QED
        BY <1>1, <3>2
    <2>5. CASE Work /\ ~ClearDelivered /\ ~Settle /\ ~ClearObserved
      <3>1. UNCHANGED draft
        BY <2>5 DEF Work, Deadline, Dispatch, Intent, Begin, Admit, Submit, Rejected, Withdrawn,
           OutcomeAmbiguous, Accepted, Check, ManualIntent, Complete, Reconcile,
           Repair, RepairOperation, Quiet
      <3> QED
        BY <1>1, <3>1
    <2>6. CASE CommitRemoval
      BY <1>1, <2>6 DEF CommitRemoval
    <2>7. CASE \/ Queue \/ Observe \/ Finalize \/ (User /\ ~Edit) \/ (Removal /\ ~CommitRemoval)
               \/ Exit \/ Start \/ Environment \/ UNCHANGED vars
      <3>1. UNCHANGED draft
        BY <2>7 DEF Queue, Observe, Finalize, User, SendManually, Resolve, Removal, CloseTask,
           ReopenTask, Drain, FinalizeRemoval, Exit, Start, Environment, AgentStarts, AgentTurns,
           TakeControl, Elapse, Crash, Stop, Outside, Quiet, vars
      <3> QED
        BY <1>1, <3>1
    <2> QED
      BY <1>1, <2>1, <2>2, <2>3, <2>4, <2>5, <2>6, <2>7 DEF Next, User, Removal
  <1> QED
    BY <1>1, DeliveryInvariant, PTL DEF Spec, ClearsOnlySentText

=============================================================================
