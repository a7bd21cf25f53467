----------------------------- MODULE TaskRemoval -----------------------------
(***************************************************************************)
(* The removal of one task (electron/ipc/task-removal-owner.ts), by its    *)
(* users or by a merge that cleans up (task-merge-workflow.ts), against    *)
(* the notes that are saved in it (task-notes-service.ts,                  *)
(* task-removal-notes-coordination.ts).                                    *)
(*                                                                         *)
(* The removal journal, the merge journal, the operations of the notes and *)
(* the task itself are one durable document.  It changes by one mutation   *)
(* at a time: a caller stands in line, the storage serves the head, and    *)
(* the caller goes on when it learns the outcome.  In memory the server    *)
(* keeps an index of what is closing and of who still writes: a removal    *)
(* first waits for the writers that were admitted (drain), then fences the *)
(* task, writes its record, and turns the fence into a durable closing.    *)
(* Everything in memory is lost in a crash.                                *)
(***************************************************************************)
EXTENDS Integers, SequencesExt

CONSTANTS
    Saves,         \* operations that save notes; each may be tried again
    MaxRemovals,   \* bound on the requests to remove the task
    Steps,         \* cleanup steps of the plan
    Finalizers,    \* participants to be told that the task is gone
    MaxFaults,     \* bound on what goes wrong
    Faults         \* what may: "refused", "unsure" (a write of unknown durability), "crash"

ASSUME RemovalAssumption ==
    /\ {MaxRemovals, Steps, Finalizers, MaxFaults} \subseteq Nat /\ Finalizers > 0
    /\ Saves \cap (0 .. MaxRemovals) = {}

VARIABLES
    store,     \* durable: the task, its removal record, the merge, the notes' operations
    server,    \* the process: index, published record, calls in flight
    faults,    \* how often something has gone wrong
    alone      \* history: no two removals have been in flight together in this process

vars == <<store, server, faults, alone>>

Merge == 0                    \* the removal a merge has asked for; its operation is 0 as well
Removals == 1 .. MaxRemovals  \* the others are numbered as they come
Calls == Removals \cup {Merge}
Actors == Calls \cup Saves

NoOp == -1
NoRec == [op |-> NoOp, phase |-> "none", steps |-> 0, finals |-> 0]
NewRec(op, phase) == [NoRec EXCEPT !.op = op, !.phase = phase]
Before == {"dormant", "reserved", "cleaned"}   \* the phases in which the task is there
Closing(rec) == rec.phase \in {"reserved", "cleaned", "committed"}

Resting == [pc |-> "idle", op |-> NoOp, rec |-> NoRec]

Down == [up |-> FALSE,
         state |-> "absent",       \* what the owner says of the task
         rec |-> NoRec,            \* and the removal record it publishes
         durable |-> NoOp,         \* the closing index: the operation that closes the task,
         fence |-> NoOp,           \* by a durable record, by a fence, or by a drain
         drain |-> NoOp,
         waits |-> <<>>,           \* who waits for the drain
         regs |-> [n \in Saves |-> {}],  \* who holds a registration: "active" or retained
         ready |-> FALSE,          \* the barrier of the notes
         unsure |-> FALSE,         \* a write of unknown durability blocks all others
         calls |-> [who \in Actors |-> Resting],
         line |-> <<>>,            \* who waits for the storage
         reply |-> "none"]         \* the outcome for the head of the line

\* runActivation and, for the merge, recoverInterruptedMerges.
Restarted(calls) ==
    [Down EXCEPT !.up = TRUE, !.ready = TRUE, !.rec = store.rec, !.calls = calls,
                 !.state = IF store.task THEN "present" ELSE "removed",
                 !.durable = IF store.rec.phase \in {"none", "dormant"} THEN NoOp
                                                                        ELSE store.rec.op]

Init ==
    /\ store = [task |-> TRUE, rec |-> NoRec, merge |-> "issued",
                saves |-> [n \in Saves |-> "none"]]
    /\ server = Restarted(Down.calls)
    /\ faults = 0 /\ alone = TRUE

-----------------------------------------------------------------------------
(* The server's steps are functions of its state v, because they call each other. *)

At(v, who, pc) == [v EXCEPT !.calls[who].pc = pc]

\* A mutation in line disturbs every inspection that has begun (inspectionEpoch).
Disturbed(v, but) ==
    [a \in Actors |-> IF a \notin but /\ v.calls[a].pc \in {"inspect", "again"}
                      THEN [v.calls[a] EXCEPT !.pc = "disturbed"] ELSE v.calls[a]]

Queue(v, who, pc) ==
    [v EXCEPT !.calls = [Disturbed(v, {who}) EXCEPT ![who].pc = pc], !.line = Append(@, who)]

\* reportTaskNotesCanonicalStateFailure: nothing opens the barrier again but a restart.
Degrade(v) == [v EXCEPT !.ready = FALSE]

Live(v) == {n \in Saves : v.regs[n] # {}}
IndexClosing(v) == \E op \in {v.durable, v.fence, v.drain} : op # NoOp
AdmissionClosed(v) == \/ ~v.up \/ v.state # "present" \/ Closing(v.rec) \/ IndexClosing(v)

Ready(v) == /\ v.up /\ v.ready /\ \A c \in Calls : v.calls[c].pc # "commit"
            /\ \A n \in Saves : "host" \notin v.regs[n]

Publish(v, rec, present) ==
    [v EXCEPT !.rec = rec, !.state = IF present THEN "present" ELSE "removed"]

\* A removal is over, with or without success; the merge may be started again.
Ended(c) == [Resting EXCEPT !.pc = IF c = Merge THEN "idle" ELSE "done"]
End(v, c) == [v EXCEPT !.calls[c] = Ended(c)]

Asks(c) == IF c = Merge THEN "activate" ELSE "reserve"

\* swapRemovalDrainToFence, for everyone who waits for the drain, and on to the storage.
Fence(v) ==
    LET others == Disturbed(v, Range(v.waits)) IN
    [v EXCEPT !.fence = v.drain, !.drain = NoOp, !.waits = <<>>, !.line = @ \o v.waits,
              !.calls = [a \in Actors |-> IF a \in Range(v.waits)
                                          THEN [others[a] EXCEPT !.pc = Asks(a)] ELSE others[a]]]

\* Who waits for a drain that was canceled since: the swap throws.
Stranded(v) == {c \in Calls : v.calls[c].pc = "drain"} \ Range(v.waits)

\* waitForRemovalDrain ends for everyone.
Drained(v) ==
    LET w == [v EXCEPT !.calls = [a \in Actors |-> IF a \in Stranded(v) THEN Ended(a) ELSE @[a]]]
    IN  IF w.waits = <<>> THEN w ELSE Fence(w)

WakesNobody(v, n) == [v EXCEPT !.regs[n] = {}]  \* mutant: the drain goes on waiting

\* releaseHolder: retained predecessors leave with it, the last one ends the drain.
Release(v, n) ==
    LET w == [v EXCEPT !.regs[n] = {}]
    IN  IF Live(w) = {} THEN Drained(w) ELSE w

Retain(v, n, as) == [v EXCEPT !.regs[n] = (@ \ {"active"}) \cup {as}]

FencesAtOnce(v, c) ==  \* mutant: the writers are not waited for
    LET op == IF v.durable # NoOp THEN v.durable ELSE c
    IN  Queue([v EXCEPT !.calls[c].op = op, !.fence = op], c, Asks(c))

\* beginRemovalDrain and drainAndFenceRemoval.
Begin(v, c) ==
    LET known == IF v.durable # NoOp THEN v.durable
                 ELSE IF v.fence # NoOp THEN v.fence ELSE v.drain
        op == IF known = NoOp THEN c ELSE known
        w == [v EXCEPT !.calls[c].op = op]
        joined == [At(w, c, "drain") EXCEPT !.drain = op, !.waits = Append(@, c)]
    IN  IF c = Merge /\ op # c THEN End(w, c)
        ELSE IF v.durable # NoOp \/ v.fence # NoOp THEN Queue(w, c, Asks(c))
        ELSE IF Live(v) = {} THEN Fence(joined) ELSE joined

KeepsFence(v, op) == v  \* mutant: a removal that was not reserved leaves its fence

Cancel(v, op) ==
    IF v.durable # NoOp THEN v
    ELSE LET drains == v.drain = op
         IN  [v EXCEPT !.fence = IF @ = op THEN NoOp ELSE @,
                       !.drain = IF drains THEN NoOp ELSE @,
                       !.waits = IF drains THEN <<>> ELSE @]

\* promoteFenceToDurable throws when another operation closes the task.
Promotable(v, op) == IF v.durable = NoOp THEN v.fence = op ELSE v.durable = op
Promote(v, op) == [v EXCEPT !.durable = op, !.fence = NoOp, !.drain = NoOp, !.waits = <<>>]

\* continueRemovalOperation, from the record that was read or written last.
Proceed(v, c, rec) ==
    LET w == [v EXCEPT !.calls[c].rec = rec] IN
    CASE rec.phase = "reserved" -> At(w, c, "cleaning")
      [] rec.phase = "cleaned" -> Queue(w, c, "commit")
      [] rec.phase = "committed" -> At(w, c, "finalizing")
      [] rec.phase = "complete" /\ c = Merge -> Queue(w, c, "conclude")
      [] OTHER -> End(w, c)

\* The finalizers are left: the merge records what the removal has committed.
Leave(v, c, rec) ==
    LET w == Publish(v, rec, FALSE) IN IF c = Merge THEN Queue(w, c, "conclude") ELSE End(w, c)

-----------------------------------------------------------------------------
(* The mutations: what each does to the document when its turn comes. *)

Outcome(next, reply) == [store |-> next, reply |-> reply]
Keep == Outcome(store, "ok")
Throw == Outcome(store, "threw")

WithRec(rec) == [store EXCEPT !.rec = rec]
Phase(phase) == WithRec([store.rec EXCEPT !.phase = phase])
MergeTo(from, to) == CASE store.merge = from -> Outcome([store EXCEPT !.merge = to], "ok")
                       [] store.merge = to -> Keep
                       [] OTHER -> Throw

Reserve(c) ==
    LET rec == store.rec IN
    CASE rec = NoRec /\ ~store.task -> Outcome(store, "absent")
      [] rec = NoRec /\ store.task -> Outcome(WithRec(NewRec(server.calls[c].op, "reserved")), "ok")
      [] rec.phase = "dormant" -> Outcome(store, "conflict")
      [] OTHER -> IF (rec.phase \in Before) = store.task THEN Keep ELSE Throw

\* reserveLinkedRemoval
Link == CASE ~store.task -> Outcome(store, "absent")
          [] store.task /\ store.rec = NoRec -> Outcome(WithRec(NewRec(Merge, "dormant")), "ok")
          [] OTHER -> IF store.rec.op = Merge THEN Keep ELSE Outcome(store, "conflict")

LeavesReservation ==  \* mutant: the dormant record outlives the merge that asked for it
    IF store.rec.op = Merge /\ store.rec.phase # "dormant" THEN Throw ELSE Outcome(store, "absent")

\* abortLinkedRemovalBeforeProof
Abort == CASE store.rec.op # Merge -> Outcome(store, "absent")
           [] store.rec.op = Merge /\ store.rec.phase = "dormant" -> Outcome(WithRec(NoRec), "ok")
           [] OTHER -> Throw

\* activateLinkedRemovalProof
Activate == CASE store.rec.op # Merge -> Throw
              [] store.rec.op = Merge /\ store.rec.phase # "dormant" -> Keep
              [] OTHER -> IF store.task THEN Outcome(Phase("reserved"), "ok") ELSE Throw

CompleteStep(done) ==
    CASE store.rec.steps > done -> Keep
      [] store.rec.steps = done /\ store.rec.phase = "reserved" ->
            Outcome(WithRec([store.rec EXCEPT !.steps = @ + 1]), "ok")
      [] OTHER -> Throw

CompleteCleanup ==
    IF store.rec.phase = "reserved" THEN Outcome(Phase("cleaned"), "ok") ELSE Keep

KeepsTask ==  \* mutant: the task stays in the document
    IF store.rec.phase = "cleaned" THEN Outcome(Phase("committed"), "ok") ELSE Keep

\* The task and its record change in one mutation.
Commit ==
    CASE store.rec.phase # "cleaned" -> IF store.task THEN Throw ELSE Keep
      [] store.rec.phase = "cleaned" /\ ~store.task -> Throw
      [] OTHER -> Outcome([Phase("committed") EXCEPT !.task = FALSE], "ok")

CompleteFinalizer(done) ==
    CASE store.rec.phase = "committed" /\ store.rec.finals = done ->
            Outcome(WithRec([store.rec EXCEPT !.finals = @ + 1,
                             !.phase = IF done + 1 = Finalizers THEN "complete" ELSE @]), "ok")
      [] store.rec.phase = "committed" /\ store.rec.finals > done -> Keep
      [] store.rec.phase = "complete" -> Keep
      [] OTHER -> Throw

Conclude == IF store.merge = "merged" /\ store.task THEN Throw ELSE MergeTo("merged", "completed")

Fails == IF store.merge = "admitted" THEN MergeTo("admitted", "failed")
                                     ELSE MergeTo("merging", "failed")

\* The notes: admission, semantic completion, which looks at the barrier and at the task
\* again, and the window in which an operation that was not saved can be tried again.
SaveIs(n, state) == Outcome([store EXCEPT !.saves[n] = state], "ok")

Mutation(who) ==
    LET call == server.calls[who]
        mine == store.rec.op = call.rec.op
    IN CASE call.pc = "reserve" -> Reserve(who)
         [] call.pc = "step" -> IF mine THEN CompleteStep(call.rec.steps) ELSE Throw
         [] call.pc = "cleaned" -> IF mine THEN CompleteCleanup ELSE Throw
         [] call.pc = "commit" -> IF mine THEN Commit ELSE Throw
         [] call.pc = "finalized" -> IF mine THEN CompleteFinalizer(call.rec.finals) ELSE Throw
         [] call.pc = "admit-merge" -> IF store.merge = "issued" THEN MergeTo("issued", "admitted")
                                                                 ELSE Keep
         [] call.pc = "link" -> Link
         [] call.pc = "mark" -> MergeTo("admitted", "merging")
         [] call.pc = "abort" -> Abort
         [] call.pc = "fail" -> Fails
         [] call.pc = "succeed" -> MergeTo("merging", "merged")
         [] call.pc = "doubt" -> MergeTo("merging", "manual")
         [] call.pc = "activate" -> Activate
         [] call.pc = "conclude" -> Conclude
         [] call.pc = "admit" -> IF store.saves[who] = "none" THEN SaveIs(who, "admitted") ELSE Keep
         [] call.pc = "write" -> IF Ready(server) /\ store.task THEN SaveIs(who, "terminal")
                                                                ELSE Throw
         [] call.pc = "window" -> SaveIs(who, store.saves[who])
         [] call.pc = "read" -> IF (server.state = "present") = store.task THEN Keep ELSE Throw

Head1 == Head(server.line)

\* inStorageQueue and mutateHostRecord.  A mutation that changes nothing cannot fail; one
\* that does may be refused, or written without knowing that it will last.  Then no other
\* is let in until the process ends.
Serve ==
    /\ server.up /\ server.line # <<>> /\ server.reply = "none" /\ UNCHANGED alone
    /\ LET m == Mutation(Head1)
           writes == m.reply = "ok" /\ (m.store # store \/ server.calls[Head1].pc = "window")
       IN  \/ ~server.unsure /\ store' = m.store /\ server' = [server EXCEPT !.reply = m.reply]
              /\ UNCHANGED faults
           \/ server.unsure /\ server' = [server EXCEPT !.reply = "unsure"]
              /\ UNCHANGED <<store, faults>>
           \/ /\ ~server.unsure /\ writes /\ faults < MaxFaults /\ faults' = faults + 1
              /\ \/ /\ "refused" \in Faults /\ UNCHANGED store
                    /\ server' = [server EXCEPT !.reply = "refused"]
                 \/ /\ "unsure" \in Faults /\ store' = m.store
                    /\ server' = [server EXCEPT !.reply = "unsure", !.unsure = TRUE]

-----------------------------------------------------------------------------
(* What a caller does when it learns the outcome. *)

RemovalGoesOn(v, c, pc, reply) ==
    LET rec == store.rec
        shown == Publish(v, rec, store.task)
    IN CASE pc = "reserve" /\ reply = "ok" ->
              IF Promotable(v, rec.op) THEN Proceed(Promote(shown, rec.op), c, rec) ELSE End(v, c)
         [] pc = "reserve" /\ reply \in {"absent", "conflict"} -> End(Cancel(v, v.calls[c].op), c)
         [] pc = "reserve" /\ reply \notin {"ok", "absent", "conflict"} ->
              End(Degrade(Cancel(v, v.calls[c].op)), c)
         [] pc = "activate" /\ reply = "ok" ->
              IF Promotable(v, Merge) THEN Proceed(Promote(shown, Merge), c, rec) ELSE End(v, c)
         [] pc = "activate" /\ reply # "ok" -> End(Degrade(v), c)
         [] pc = "step" /\ reply = "ok" ->
              LET w == [Publish(v, rec, TRUE) EXCEPT !.calls[c].rec = rec]
              IN  IF rec.steps < Steps THEN At(w, c, "cleaning") ELSE Queue(w, c, "cleaned")
         [] pc = "cleaned" /\ reply = "ok" -> Proceed(Publish(v, rec, TRUE), c, rec)
         [] pc = "commit" /\ reply = "ok" ->
              LET w == Publish(v, rec, FALSE)
              IN  IF rec.phase = "complete" THEN Leave(w, c, rec) ELSE Proceed(w, c, rec)
         [] pc = "finalized" /\ reply = "ok" ->
              IF rec.phase = "committed"
              THEN At([v EXCEPT !.calls[c].rec = rec], c, "finalizing") ELSE Leave(v, c, rec)
         [] pc = "finalized" /\ reply # "ok" -> Leave(v, c, v.calls[c].rec)
         [] OTHER -> End(v, c)

\* The workflow of the merge behind its journal and its removal record.  The code
\* publishes only a reservation it has just made; publishing one that was there
\* before changes nothing, since the server shows it already.
MergeGoesOn(v, pc, reply) ==
    CASE pc = "admit-merge" /\ reply = "ok" -> Queue(v, Merge, "link")
      [] pc = "link" /\ reply = "ok" ->
            At(Publish(v, store.rec, TRUE), Merge, "authorize")
      [] pc = "link" /\ reply \in {"absent", "conflict"} -> Queue(v, Merge, "fail")
      [] pc = "abort" /\ reply = "absent" -> Queue(v, Merge, "fail")
      [] pc = "mark" /\ reply = "ok" -> At(v, Merge, "git")
      [] pc = "abort" /\ reply = "ok" -> Queue([v EXCEPT !.rec = NoRec], Merge, "fail")
      [] pc = "succeed" /\ reply = "ok" -> Begin(v, Merge)
      [] OTHER -> End(v, Merge)

\* The answer of a save shows the task as it is, from the barrier and the document.
Answer(v, n) == IF Ready(v) THEN Queue(v, n, "read") ELSE At(v, n, "idle")

SaveGoesOn(v, n, pc, reply) ==
    LET done(w) == At(Release(w, n), n, "idle") IN
    CASE reply = "unsure" -> At(Degrade(Retain(v, n, "host")), n, "idle")
      [] pc = "admit" /\ reply = "ok" /\ store.saves[n] = "admitted" -> Queue(v, n, "write")
      [] pc = "write" /\ reply = "refused" -> Queue(v, n, "window")
      [] pc = "window" /\ reply = "refused" ->
            At(Retain(v, n, "retry"), n, "idle")
      [] reply = "threw" -> done(Degrade(v))
      [] pc # "window" /\ reply = "ok" /\ store.saves[n] = "terminal" -> Answer(Release(v, n), n)
      [] OTHER -> done(v)

ReadGoesOn(v, n, reply) == At(IF reply = "ok" THEN v ELSE Degrade(v), n, "idle")

Continue ==
    LET pc == server.calls[Head1].pc
        v == [server EXCEPT !.line = Tail(@), !.reply = "none"]
    IN  /\ server.up /\ server.reply # "none" /\ UNCHANGED <<store, faults, alone>>
        /\ server' = CASE pc = "read" -> ReadGoesOn(v, Head1, server.reply)
                       [] Head1 \in Saves /\ pc # "read" -> SaveGoesOn(v, Head1, pc, server.reply)
                       [] Head1 \in Calls /\ pc \in {"admit-merge", "link", "mark", "abort", "fail",
                                                     "succeed", "doubt", "conclude"} ->
                             MergeGoesOn(v, pc, server.reply)
                       [] OTHER -> RemovalGoesOn(v, Head1, pc, server.reply)

-----------------------------------------------------------------------------
(* Requests, the answers of participants and of git, crash and start.  A read of the document
   that only picks up what the step before it has written is part of that step. *)

Takes(v) == server' = v /\ UNCHANGED <<store, faults>>
InFlight == {c \in Calls : server.calls[c].pc \notin {"idle", "done"}}

\* DeleteTask: requests are not deduplicated.
RemoveTask(c) ==
    /\ server.up /\ server.calls[c].pc = "idle"
    /\ \A earlier \in 1 .. c - 1 : server.calls[earlier].pc # "idle"
    /\ Takes(Begin(server, c)) /\ alone' = (alone /\ InFlight = {})

\* runStart, for an operation that is in flight once; resolveCanonicalTarget throws for a
\* task that is gone.  A merge that was interrupted is left to its user.  The
\* authorization behind the phase that is read answers at once in production.
StartMerge ==
    /\ server.up /\ server.calls[Merge].pc = "idle"
    /\ alone' = (alone /\ InFlight = {})
    /\ \/ store.merge = "issued" /\ store.task /\ Takes(Queue(server, Merge, "admit-merge"))
       \/ store.merge = "admitted" /\ store.task /\ Takes(Queue(server, Merge, "link"))
       \/ store.merge = "merging" /\ Takes(Queue(server, Merge, "doubt"))
       \/ store.merge = "merged" /\ Takes(Begin(server, Merge))

Authorized(yes) ==
    /\ server.up /\ server.calls[Merge].pc = "authorize" /\ UNCHANGED alone
    /\ Takes(Queue(server, Merge, IF yes THEN "mark" ELSE "abort"))

GitEnds(merged) ==
    /\ server.up /\ server.calls[Merge].pc = "git" /\ UNCHANGED alone
    /\ Takes(Queue(server, Merge, IF merged THEN "succeed" ELSE "abort"))

\* The participants drain the task, and its runtime does the next step of the plan.
Cleaned(c, done) ==
    LET steps == server.calls[c].rec.steps IN
    /\ server.up /\ server.calls[c].pc = "cleaning" /\ UNCHANGED alone
    /\ Takes(IF done THEN Queue(server, c, IF steps < Steps THEN "step" ELSE "cleaned")
                     ELSE End(server, c))

Finalized(c, done) ==
    /\ server.up /\ server.calls[c].pc = "finalizing" /\ UNCHANGED alone
    /\ Takes(IF done THEN Queue(server, c, "finalized")
                     ELSE Leave(server, c, server.calls[c].rec))

\* updateTaskNotes.  The inspection finds no mutation in line, or gives the notes up.
Save(n) ==
    /\ server.up /\ server.calls[n].pc = "idle" /\ Ready(server) /\ UNCHANGED alone
    /\ Takes(IF server.line = <<>> /\ ~server.unsure THEN At(server, n, "inspect")
                                                    ELSE Degrade(server))

\* admitTaskMutationSet: whoever is registered may join, the others lose to a closing, of
\* which they inform themselves once more.
Admit(v, n) ==
    CASE ~Ready(v) -> At(v, n, "idle")
      [] Ready(v) /\ IndexClosing(v) /\ n \notin Live(v) -> At(v, n, "again")
      [] OTHER -> Queue([v EXCEPT !.regs[n] = @ \cup {"active"}], n, "admit")

Inspected(n) ==
    LET pc == server.calls[n].pc IN
    /\ server.up /\ pc \in {"inspect", "again", "disturbed"} /\ UNCHANGED alone
    /\ Takes(CASE pc = "disturbed" -> At(Degrade(server), n, "idle")
               [] pc = "again" \/ store.saves[n] = "terminal" -> Answer(server, n)
               [] OTHER -> Admit(server, n))

Crash ==
    /\ server.up /\ "crash" \in Faults /\ faults < MaxFaults /\ faults' = faults + 1
    /\ server' = [Down EXCEPT !.calls = [who \in Actors |->
                    IF who \in Removals /\ server.calls[who].pc # "idle"
                    THEN [Resting EXCEPT !.pc = "done"] ELSE Resting]]
    /\ alone' = TRUE /\ UNCHANGED store

\* verify-task-removal-owner-cutover refuses to start on a contradiction.
Agrees == IF store.rec = NoRec THEN store.task ELSE (store.rec.phase \in Before) = store.task

Start ==
    /\ ~server.up /\ Agrees /\ UNCHANGED <<faults, alone>>
    /\ server' = Restarted(server.calls)
    /\ store' = [store EXCEPT !.merge = IF @ = "merging" THEN "manual" ELSE @]

Storage == Serve \/ Continue

\* What a call waits for outside the storage.
Answers(c) ==
    \E yes \in BOOLEAN : \/ Cleaned(c, yes) \/ Finalized(c, yes)
                         \/ c = Merge /\ (Authorized(yes) \/ GitEnds(yes))

Next ==
    \/ Storage \/ StartMerge \/ Crash \/ Start
    \/ \E c \in Removals : RemoveTask(c)
    \/ \E c \in Calls : Answers(c)
    \/ \E n \in Saves : Save(n) \/ Inspected(n)

\* The storage serves its line, and whoever is asked answers.
Spec == Init /\ [][Next]_vars /\ WF_vars(Storage) /\ \A c \in Calls : WF_vars(Answers(c))

-----------------------------------------------------------------------------
(* Properties. *)

\* Types; the record of the removal agrees with the task at every step, so that the server
\* can start again (verify-task-removal-owner-cutover refuses a contradiction); and a save
\* holds an active registration exactly while it is under way.
TypeOK ==
    /\ store.task \in BOOLEAN /\ Agrees
    /\ store.rec.op \in Calls \cup {NoOp} /\ store.rec.steps \in 0 .. Steps
    /\ store.merge \in {"issued", "admitted", "merging", "merged", "completed", "failed", "manual"}
    /\ \A n \in Saves : store.saves[n] \in {"none", "admitted", "terminal"}
    /\ {server.durable, server.fence, server.drain} \subseteq Calls \cup {NoOp}
    /\ server.state \in {"absent", "present", "removed"}
    /\ \A n \in Saves : "active" \in server.regs[n] <=>
                           server.calls[n].pc \in {"admit", "write", "window"}

\* Nobody writes into a task that is being cleaned up: when a removal has left the drain
\* (waitForRemovalDrain, swapRemovalDrainToFence) no save that was admitted is still under
\* way or retained, whether it joined late, was retried, or failed (releaseHolder).
CleanupExcludesWriters ==
    \A c \in Calls :
        server.calls[c].pc \in {"cleaning", "step", "cleaned", "commit", "finalizing"} =>
            Live(server) = {}

\* The removal has taken the task away from its users, for good.
Gone == ~store.task \/ Closing(store.rec)

\* isTaskMutationAdmissionClosed, from the published record and the closing index, agrees
\* with the document: a task that is being removed admits nothing, and a task is closed to
\* its users only while a removal is under way or owed by a merge.  The first half is
\* promised while one removal is in flight at a time: of two, the slower publishes its
\* older record ("present") over the newer, and a failing one cancels the fence it shares.
AdmissionFollowsRemoval ==
    (server.up /\ ~server.unsure /\ server.reply = "none") =>
        /\ alone /\ Gone => AdmissionClosed(server)
        /\ AdmissionClosed(server) => Gone \/ InFlight # {} \/ store.merge = "merged"

\* The two journals agree (task-merge-workflow.ts, reserveLinkedRemoval): a merge never
\* fails with its removal still reserved, a removal is activated only by a merge that git
\* has done, and a merge is completed only when its task is gone; in any order of crashes,
\* refused writes and other removals.
MergeAndRemovalAgree ==
    /\ store.rec.op = Merge => IF store.rec.phase = "dormant"
                               THEN store.merge \in {"admitted", "merging", "merged", "manual"}
                               ELSE store.merge \in {"merged", "completed"}
    /\ store.merge = "completed" => ~store.task

\* An operation of the notes whose last write is of unknown outcome, or not yet repaired.
Retained == \E n \in Saves : server.regs[n] \cap {"host", "retry"} # {}

\* Every request to remove the task is answered, and so is every merge, although it waits
\* for the writers, for the storage and for its participants: no wakeup of the drain is
\* lost.  A retained writer blocks it, until it is tried again or the server restarts.
RemovalAnswered == []<>(InFlight = {} \/ Retained)

=============================================================================
