------------------------- MODULE TaskRemoval_proofs -------------------------
(***************************************************************************)
(* Proofs about the removal of a task, for any number of removals, saves,  *)
(* cleanup steps, finalizers and faults.                                   *)
(*                                                                         *)
(* The inductive invariant says where everyone is and what the closing     *)
(* index holds (Good), what the journal of the merge must say at each      *)
(* place of its workflow (Merging), and that a closed task is covered by   *)
(* the index (Covered).  Between the mutation of the head of the line and  *)
(* the head's next step the document is ahead of the server: then Pending  *)
(* says what the outcome tells of the document instead.  A step is proved  *)
(* in three parts: an actor leaves its place (the invariant without it, X),*)
(* publishes, registers or fences on its way, and finds a place that Fits. *)
(***************************************************************************)
EXTENDS TaskRemoval, SequenceTheorems, TLAPS

-----------------------------------------------------------------------------
(* Types. *)

Phases == {"none", "dormant", "reserved", "cleaned", "committed", "complete"}
Recs == [op : Calls \cup {NoOp}, phase : Phases, steps : 0 .. Steps, finals : Nat]
Merges == {"issued", "admitted", "merging", "merged", "completed", "failed", "manual"}
SaveStates == {"none", "admitted", "terminal"}
Replies == {"none", "ok", "absent", "conflict", "threw", "refused", "unsure"}

Stores == [task : BOOLEAN, rec : Recs, merge : Merges, saves : [Saves -> SaveStates]]

\* Where a caller stands in line, and where a call is past the fence.
Queued == {"reserve", "activate", "step", "cleaned", "commit", "finalized", "conclude",
           "admit-merge", "link", "mark", "abort", "fail", "succeed", "doubt",
           "admit", "write", "window", "read"}
Cleanup == {"cleaning", "step", "cleaned", "commit", "finalizing", "finalized"}
Holding == {"admit", "write", "window"}
Over == {"idle", "done"}

RemovalPcs == Cleanup \cup {"idle", "done", "drain", "reserve"}
MergePcs == Cleanup \cup {"idle", "drain", "activate", "conclude", "admit-merge", "link",
                          "authorize", "mark", "git", "abort", "fail", "succeed", "doubt"}
SavePcs == Holding \cup {"idle", "inspect", "again", "disturbed", "read"}
Pcs == RemovalPcs \cup MergePcs \cup SavePcs

PcsOf(a) == IF a \in Saves THEN SavePcs ELSE IF a = Merge THEN MergePcs ELSE RemovalPcs

Ops == Calls \cup {NoOp}
CallType == [pc : Pcs, op : Ops, rec : Recs]

Servers == [up : BOOLEAN, state : {"absent", "present", "removed"}, rec : Recs,
            durable : Ops, fence : Ops, drain : Ops, waits : Seq(Calls),
            regs : [Saves -> SUBSET {"active", "host", "retry"}],
            ready : BOOLEAN, unsure : BOOLEAN, calls : [Actors -> CallType],
            line : Seq(Actors), reply : Replies]

-----------------------------------------------------------------------------
(* The document s. *)

Taken(s) == ~s.task \/ Closing(s.rec)

Doc(s) ==
    /\ s \in Stores
    /\ s.rec.phase = "none" => s.rec = NoRec
    /\ s.rec.op = NoOp => s.rec = NoRec
    /\ s.task <=> s.rec.phase \in Before \cup {"none"}
    /\ s.rec.op = Merge => IF s.rec.phase = "dormant"
                           THEN s.merge \in {"admitted", "merging", "merged", "manual"}
                           ELSE s.merge \in {"merged", "completed"}
    /\ s.merge = "completed" => ~s.task

\* What the merge's journal says while its workflow is at pc, and after its mutation.
MergeBefore(pc) ==
    CASE pc = "admit-merge" -> {"issued"}
      [] pc \in {"link", "authorize", "mark"} -> {"admitted"}
      [] pc \in {"git", "succeed", "doubt"} -> {"merging"}
      [] pc \in {"abort", "fail"} -> {"admitted", "merging"}
      [] pc \in Cleanup \cup {"drain", "activate", "conclude"} -> {"merged", "completed"}
      [] OTHER -> Merges

MergeAfter(pc) ==
    CASE pc = "admit-merge" -> {"admitted"}
      [] pc = "mark" -> {"merging"}
      [] pc = "succeed" -> {"merged"}
      [] pc \in {"link", "abort"} \cup Cleanup \cup {"drain", "activate"} -> MergeBefore(pc)
      [] OTHER -> Merges

-----------------------------------------------------------------------------
(* The server v, over the document s.  In the middle of a step the actors in X are on their
   way: nothing is said yet of where they are. *)

Distinct(q) == \A i, j \in 1 .. Len(q) : q[i] = q[j] => i = j

Typed(v, X) ==
    /\ v \in Servers
    /\ \A a \in Actors \ X : v.calls[a].pc \in PcsOf(a)
    /\ v.calls[Merge].op \in {Merge, NoOp}

\* The line holds who is at the storage, once.
Lined(v, X) ==
    /\ Distinct(v.line)
    /\ \A a \in Actors \ X : a \in Range(v.line) <=> v.calls[a].pc \in Queued
    /\ X \cap Range(v.line) = {}

\* The closing index has one entry at most; who waits for the drain is at it.
Indexed(v, X) ==
    /\ v.durable # NoOp => v.fence = NoOp /\ v.drain = NoOp
    /\ v.fence # NoOp => v.drain = NoOp
    /\ v.drain = NoOp <=> v.waits = <<>>
    /\ Distinct(v.waits)
    /\ \A c \in Range(v.waits) : c \notin X /\ v.calls[c].pc = "drain" /\ v.calls[c].op = v.drain
    /\ \A c \in Calls \ X : v.calls[c].pc \in {"drain", "reserve", "activate"} =>
                               v.calls[c].op # NoOp
    /\ v.calls[Merge].pc \in {"drain", "activate"} /\ Merge \notin X => v.calls[Merge].op = Merge

\* What a closed index keeps out.
Fenced(v, X) ==
    /\ v.durable # NoOp \/ v.fence # NoOp => Live(v) = {}
    /\ \A c \in Calls \ X : v.calls[c].pc \in Cleanup => v.durable # NoOp
    /\ \A n \in Saves \ X : "active" \in v.regs[n] <=> v.calls[n].pc \in Holding

\* What the server shows and closes, by the document.
Shown(s, v, X) ==
    /\ v.state = "removed" => ~s.task
    /\ Closing(v.rec) => Taken(s)
    /\ v.durable # NoOp => Taken(s)
    /\ v.up => v.state # "absent"
    /\ ~v.up => v.line = <<>> /\ \A a \in Actors \ X : v.calls[a].pc \in Over
    /\ v.fence # NoOp => \/ Taken(s) \/ s.merge = "merged"
                         \/ \E c \in Calls : /\ c \in X \/ v.calls[c].pc \in {"reserve", "activate"}
                                             /\ v.calls[c].op = v.fence
    /\ \A c \in Calls \ X : v.calls[c].pc \in {"finalizing", "finalized"} => ~s.task
    /\ \A c \in Calls \ X : v.calls[c].pc = "step" => v.calls[c].rec.steps < Steps
    /\ Merge \in {v.durable, v.fence, v.drain} => s.merge \in {"merged", "completed"}
    /\ \A c \in Calls : v.calls[c].op = Merge => s.merge \in {"merged", "completed"}

Flies(v, c) == v.calls[c].pc \notin Over

\* While one removal is in flight at a time, the index is its own.
Alone(v, al, X) ==
    al => /\ \A c, d \in Calls :
                (c \in X \/ Flies(v, c)) /\ (d \in X \/ Flies(v, d)) => c = d
          /\ \A c \in Calls \ X : v.calls[c].pc \in {"reserve", "activate"} =>
                                     v.durable # NoOp \/ v.fence = v.calls[c].op
          /\ \A c \in Calls \ X : v.calls[c].pc = "drain" => v.drain = v.calls[c].op

Merging(s, v, X) ==
    Merge \notin X => /\ s.merge \in MergeBefore(v.calls[Merge].pc)
                      /\ v.calls[Merge].pc = "fail" => s.rec.op # Merge

Good(s, v, al, X) ==
    /\ Typed(v, X) /\ Lined(v, X) /\ Indexed(v, X) /\ Fenced(v, X)
    /\ Shown(s, v, X) /\ Alone(v, al, X)

Covered(s, v, al) == al /\ v.up /\ ~v.unsure /\ Taken(s) => v.durable # NoOp

\* What the outcome of the mutation of h says of the document.
Told(s, v, al, h, reply) ==
    LET pc == v.calls[h].pc IN
    /\ h = Merge => /\ reply = "ok" => s.merge \in MergeAfter(pc)
                    /\ reply \in {"absent", "conflict"} =>
                          /\ s.merge \in MergeBefore(pc)
                          /\ s.rec.op # Merge
                    /\ pc \in Cleanup \cup {"activate"} => s.merge \in {"merged", "completed"}
                    /\ pc = "abort" /\ reply = "ok" => s.rec.op # Merge
    /\ pc = "reserve" /\ reply = "ok" => s.rec.phase \notin {"none", "dormant"}
    /\ pc = "activate" /\ reply = "ok" => s.rec.op = Merge /\ s.rec.phase # "dormant"
    /\ pc = "commit" /\ reply = "ok" => ~s.task
    /\ Covered(s, v, al) \/ /\ pc \in {"reserve", "activate"}
                            /\ reply = "ok" /\ v.fence = s.rec.op

\* The outcome that waits for the head of the line.
Pending(s, v, al) == v.up /\ v.line # <<>> /\ Told(s, v, al, Head(v.line), v.reply)

IInv ==
    /\ Doc(store) /\ alone \in BOOLEAN /\ faults \in Nat
    /\ Good(store, server, alone, {})
    /\ IF server.reply = "none" THEN Merging(store, server, {}) /\ Covered(store, server, alone)
       ELSE /\ Pending(store, server, alone)
            /\ Merging(store, server, {Head(server.line)})

-----------------------------------------------------------------------------
(* Lines. *)

\* Who is in a line.
LEMMA RangeIs ==
    ASSUME NEW S, NEW q \in Seq(S)
    PROVE  /\ Range(q) = {q[i] : i \in 1 .. Len(q)} /\ Range(q) \subseteq S
           /\ Len(q) \in Nat /\ q = <<>> <=> Range(q) = {}
<1>1. DOMAIN q = 1 .. Len(q) /\ Len(q) \in Nat /\ \A i \in 1 .. Len(q) : q[i] \in S
  BY LenProperties, ElementOfSeq
<1>2. Range(q) = {q[i] : i \in 1 .. Len(q)}
  BY <1>1 DEF Range
<1>3. q = <<>> => Range(q) = {}
  BY <1>1, <1>2
<1>4. q # <<>> => q[1] \in Range(q)
  <2>1. q # <<>> => Len(q) \in Nat \ {0}
    BY EmptySeq
  <2> QED
    BY <2>1, <1>2
<1> QED
  BY <1>1, <1>2, <1>3, <1>4

\* Whoever is not in a line can stand in it.
LEMMA Stands ==
    ASSUME NEW S, NEW q \in Seq(S), NEW e \in S
    PROVE  /\ Append(q, e) \in Seq(S) /\ Append(q, e) # <<>>
           /\ Range(Append(q, e)) = Range(q) \cup {e}
           /\ Distinct(q) /\ e \notin Range(q) => Distinct(Append(q, e))
<1>1. /\ Append(q, e) \in Seq(S) /\ Len(Append(q, e)) = Len(q) + 1
      /\ \A i \in 1 .. Len(q) : Append(q, e)[i] = q[i]
      /\ Append(q, e)[Len(q) + 1] = e
  BY AppendProperties
<1>2. Range(q) = {q[i] : i \in 1 .. Len(q)} /\ Len(q) \in Nat
  BY RangeIs
<1>3. Range(Append(q, e)) = {Append(q, e)[i] : i \in 1 .. Len(q) + 1}
  <2>1. \A t \in Seq(S) : Range(t) = {t[i] : i \in 1 .. Len(t)}
    BY RangeIs
  <2> QED
    BY <1>1, <2>1
<1>4. Append(q, e) # <<>>
  <2>1. Len(<<>>) = 0
    OBVIOUS
  <2> QED
    BY <2>1, <1>1, <1>2
<1> DEFINE r == Append(q, e)
<1>5. Range(r) = Range(q) \cup {e}
  <2> HIDE DEF r
  <2>1. /\ Range(r) = {r[i] : i \in 1 .. Len(q) + 1}
        /\ \A i \in 1 .. Len(q) : r[i] = q[i]
        /\ r[Len(q) + 1] = e
    BY <1>1, <1>3 DEF r
  <2> QED
    BY <2>1, <1>2
<1>6. ASSUME Distinct(q), e \notin Range(q)
      PROVE  Distinct(r)
  <2>0. SUFFICES ASSUME NEW i \in 1 .. Len(q) + 1, NEW j \in 1 .. Len(q) + 1, r[i] = r[j]
                 PROVE  i = j
    BY <1>1 DEF Distinct
  <2>1. \A k \in 1 .. Len(q) : r[k] = q[k] /\ q[k] # e
    BY <1>1, <1>2, <1>6
  <2>2. r[Len(q) + 1] = e
    BY <1>1
  <2> HIDE DEF r
  <2>3. CASE i \in 1 .. Len(q) /\ j \in 1 .. Len(q)
    BY <2>0, <2>1, <2>3, <1>6 DEF Distinct
  <2>4. CASE i = Len(q) + 1 \/ j = Len(q) + 1
    BY <2>0, <2>1, <2>2, <2>4, <1>2
  <2> QED
    BY <2>3, <2>4, <1>2
<1> QED
  BY <1>1, <1>4, <1>5, <1>6

\* Two lines without a common member become one.
LEMMA StandBehind ==
    ASSUME NEW S, NEW q \in Seq(S), NEW r \in Seq(S)
    PROVE  /\ q \o r \in Seq(S)
           /\ Range(q \o r) = Range(q) \cup Range(r)
           /\ Distinct(q) /\ Distinct(r) /\ Range(q) \cap Range(r) = {} => Distinct(q \o r)
<1> DEFINE t == q \o r
<1>1. /\ t \in Seq(S) /\ Len(t) = Len(q) + Len(r)
      /\ \A i \in 1 .. Len(q) + Len(r) : t[i] = IF i <= Len(q) THEN q[i] ELSE r[i - Len(q)]
  BY ConcatProperties
<1>2. /\ Range(q) = {q[i] : i \in 1 .. Len(q)} /\ Len(q) \in Nat
      /\ Range(r) = {r[i] : i \in 1 .. Len(r)} /\ Len(r) \in Nat
  BY RangeIs
<1>3. Range(t) = {t[i] : i \in 1 .. Len(q) + Len(r)}
  <2> HIDE DEF t
  <2>1. Range(t) = {t[i] : i \in 1 .. Len(t)}
    BY <1>1, RangeIs
  <2> QED
    BY <1>1, <2>1
<1> HIDE DEF t
<1>4. \A i \in 1 .. Len(q) : i \in 1 .. Len(q) + Len(r) /\ t[i] = q[i]
  BY <1>1, <1>2
<1>5. \A i \in 1 .. Len(r) : /\ Len(q) + i \in 1 .. Len(q) + Len(r) /\ Len(q) + i > Len(q)
                             /\ t[Len(q) + i] = r[i]
  <2> SUFFICES ASSUME NEW i \in 1 .. Len(r)
               PROVE  /\ Len(q) + i \in 1 .. Len(q) + Len(r) /\ Len(q) + i > Len(q)
                      /\ t[Len(q) + i] = r[i]
    OBVIOUS
  <2>1. /\ Len(q) + i \in 1 .. Len(q) + Len(r) /\ ~(Len(q) + i <= Len(q))
        /\ (Len(q) + i) - Len(q) = i
    BY <1>2
  <2> QED
    BY <2>1, <1>1, <1>2
<1>6. \A i \in 1 .. Len(q) + Len(r) : i \in 1 .. Len(q) \/ i - Len(q) \in 1 .. Len(r)
  BY <1>2
<1>7. Range(t) = Range(q) \cup Range(r)
  <2>1. Range(t) \subseteq Range(q) \cup Range(r)
    <3> SUFFICES ASSUME NEW i \in 1 .. Len(q) + Len(r) PROVE t[i] \in Range(q) \cup Range(r)
      BY <1>3
    <3>1. CASE i \in 1 .. Len(q)
      BY <3>1, <1>4, <1>2
    <3>2. CASE i \notin 1 .. Len(q)
      <4>1. i - Len(q) \in 1 .. Len(r) /\ ~(i <= Len(q))
        BY <3>2, <1>6, <1>2
      <4> QED
        BY <4>1, <1>1, <1>2
    <3> QED
      BY <3>1, <3>2
  <2>2. Range(q) \subseteq Range(t) /\ Range(r) \subseteq Range(t)
    BY <1>2, <1>3, <1>4, <1>5
  <2> QED
    BY <2>1, <2>2
<1>8. ASSUME Distinct(q), Distinct(r), Range(q) \cap Range(r) = {}
      PROVE  Distinct(t)
  <2>0. SUFFICES ASSUME NEW i \in 1 .. Len(q) + Len(r), NEW j \in 1 .. Len(q) + Len(r),
                        t[i] = t[j]
                 PROVE  i = j
    BY <1>1 DEF Distinct
  <2>1. \A k \in 1 .. Len(q) + Len(r) : k <= Len(q) => k \in 1 .. Len(q) /\ t[k] = q[k]
    BY <1>1, <1>2
  <2>2. \A k \in 1 .. Len(q) + Len(r) : ~(k <= Len(q)) =>
           k - Len(q) \in 1 .. Len(r) /\ t[k] = r[k - Len(q)]
    BY <1>1, <1>2
  <2>3. CASE i <= Len(q) /\ j <= Len(q)
    BY <2>0, <2>1, <2>3, <1>8 DEF Distinct
  <2>4. CASE ~(i <= Len(q)) /\ ~(j <= Len(q))
    <3>1. i - Len(q) = j - Len(q)
      BY <2>0, <2>2, <2>4, <1>8 DEF Distinct
    <3> QED
      BY <3>1, <1>2
  <2>5. CASE (i <= Len(q)) # (j <= Len(q))
    <3>1. \A k \in 1 .. Len(q), m \in 1 .. Len(r) : q[k] # r[m]
      BY <1>2, <1>8
    <3> QED
      BY <3>1, <2>0, <2>1, <2>2, <2>5
  <2> QED
    BY <2>3, <2>4, <2>5
<1> QED
  BY <1>1, <1>7, <1>8 DEF t

\* The head leaves the line.
LEMMA Leaves ==
    ASSUME NEW S, NEW q \in Seq(S), q # <<>>, Distinct(q)
    PROVE  /\ Head(q) \in S /\ Head(q) \in Range(q) /\ Tail(q) \in Seq(S)
           /\ Range(Tail(q)) = Range(q) \ {Head(q)} /\ Distinct(Tail(q))
<1> DEFINE t == Tail(q)
<1>1. /\ Head(q) = q[1] /\ t \in Seq(S) /\ Len(t) = Len(q) - 1
      /\ \A i \in 1 .. Len(q) - 1 : t[i] = q[i + 1]
  BY HeadTailProperties
<1>2. Range(q) = {q[i] : i \in 1 .. Len(q)} /\ Len(q) \in Nat \ {0}
  BY RangeIs, EmptySeq
<1>3. Range(t) = {t[i] : i \in 1 .. Len(q) - 1}
  <2> HIDE DEF t
  <2>1. Range(t) = {t[i] : i \in 1 .. Len(t)}
    BY <1>1, RangeIs
  <2> QED
    BY <1>1, <2>1
<1>4. Head(q) \in Range(q) /\ Range(q) \subseteq S
  BY <1>1, <1>2, RangeIs
<1> HIDE DEF t
<1>5. \A i \in 1 .. Len(q) - 1 : i + 1 \in 1 .. Len(q) /\ t[i] = q[i + 1] /\ i + 1 # 1
  BY <1>1, <1>2
<1>6. \A i \in 1 .. Len(q) : i # 1 => i - 1 \in 1 .. Len(q) - 1 /\ t[i - 1] = q[i]
  <2> SUFFICES ASSUME NEW i \in 1 .. Len(q), i # 1
               PROVE  i - 1 \in 1 .. Len(q) - 1 /\ t[i - 1] = q[i]
    OBVIOUS
  <2>1. i - 1 \in 1 .. Len(q) - 1 /\ (i - 1) + 1 = i
    BY <1>2
  <2> QED
    BY <2>1, <1>5
<1>7. Range(t) \subseteq Range(q) \ {Head(q)}
  <2> SUFFICES ASSUME NEW i \in 1 .. Len(q) - 1
               PROVE  t[i] \in Range(q) /\ t[i] # Head(q)
    BY <1>3
  <2>1. q[i + 1] \in Range(q) /\ q[i + 1] # q[1]
    BY <1>2, <1>5 DEF Distinct
  <2> QED
    BY <2>1, <1>1, <1>5
<1>8. Range(q) \ {Head(q)} \subseteq Range(t)
  <2> SUFFICES ASSUME NEW i \in 1 .. Len(q), q[i] # Head(q)
               PROVE  q[i] \in Range(t)
    BY <1>2
  <2>1. i # 1
    BY <1>1
  <2> QED
    BY <2>1, <1>3, <1>6
<1>9. Distinct(t)
  <2> SUFFICES ASSUME NEW i \in 1 .. Len(q) - 1, NEW j \in 1 .. Len(q) - 1, t[i] = t[j]
               PROVE  i = j
    BY <1>1 DEF Distinct
  <2>1. i + 1 = j + 1
    BY <1>5 DEF Distinct
  <2> QED
    BY <2>1, <1>2
<1> QED
  BY <1>1, <1>4, <1>7, <1>8, <1>9 DEF t

-----------------------------------------------------------------------------
(* One actor finds its place, and the step is over. *)

\* The removals are numbered, the merge is none of them, and a save is none of both.
LEMMA Numbers ==
    /\ Merge \in Calls /\ Removals \subseteq Calls /\ Merge \notin Removals
    /\ Calls = Removals \cup {Merge} /\ Actors = Calls \cup Saves
    /\ Calls \cap Saves = {} /\ NoOp \notin Calls /\ Calls \subseteq Int
    /\ Steps \in Nat /\ MaxRemovals \in Nat
<1>1. MaxRemovals \in Nat /\ Steps \in Nat /\ Saves \cap (0 .. MaxRemovals) = {}
  BY RemovalAssumption
<1>2. Calls = 0 .. MaxRemovals
  BY <1>1 DEF Calls, Removals, Merge
<1> QED
  BY <1>1, <1>2 DEF Calls, Removals, Actors, Merge, NoOp

\* Nothing in the index depends on the call c.
Free(s, v, c) == v.fence # NoOp /\ v.fence = v.calls[c].op => Taken(s) \/ s.merge = "merged"

\* What the actor a must bring to be at pc.
Fits(s, v, al, a, pc) ==
    /\ pc \in PcsOf(a) \ {"drain"}
    /\ v.up \/ pc \in Over
    /\ a \in Saves => ("active" \in v.regs[a] <=> pc \in Holding)
    /\ a \in Calls =>
          /\ pc \in Cleanup => v.durable # NoOp
          /\ pc \in {"finalizing", "finalized"} => ~s.task
          /\ pc = "step" => v.calls[a].rec.steps < Steps
          /\ pc \in {"reserve", "activate"} =>
                /\ v.calls[a].op # NoOp
                /\ al => v.durable # NoOp \/ v.fence = v.calls[a].op
          /\ pc = "activate" => v.calls[a].op = Merge
          /\ pc \notin {"reserve", "activate"} => Free(s, v, a)

\* w differs from v in the actors and in the line only.
Moves(v, w) ==
    /\ w.up = v.up /\ w.state = v.state /\ w.rec = v.rec
    /\ w.durable = v.durable /\ w.fence = v.fence /\ w.drain = v.drain /\ w.waits = v.waits
    /\ w.regs = v.regs /\ w.ready = v.ready /\ w.unsure = v.unsure /\ w.reply = v.reply

\* The calls but those in X stay where they are, leave the drain, or are over.
Stays(v, w, X) ==
    \A c \in Calls \ X : w.calls[c].pc \in {v.calls[c].pc, "reserve", "activate"} \cup Over

\* The actor a goes to pc, or is over; the saves that inspect may be disturbed.
Parks(v, w, a, pc) ==
    /\ w.calls[a] \in {[v.calls[a] EXCEPT !.pc = pc], [Resting EXCEPT !.pc = pc]}
    /\ w.calls[a] = [v.calls[a] EXCEPT !.pc = pc] \/ pc \in Over
    /\ \A b \in Actors \ {a} :
          \/ w.calls[b] = v.calls[b]
          \/ /\ b \in Saves /\ v.calls[b].pc \in {"inspect", "again"}
             /\ w.calls[b] = [v.calls[b] EXCEPT !.pc = "disturbed"]
    /\ Distinct(w.line)
    /\ Range(w.line) = Range(v.line) \cup (IF pc \in Queued THEN {a} ELSE {})
    /\ w.line = v.line \/ w.up

\* The invariant is whole again when the actor on its way has found a place that fits.
LEMMA Parking ==
    ASSUME NEW s, NEW v, NEW w, NEW al \in BOOLEAN, NEW a \in Actors, NEW pc,
           w \in Servers, Good(s, v, al, {a}), Fits(s, v, al, a, pc),
           Moves(v, w), Parks(v, w, a, pc)
    PROVE  Good(s, w, al, {})
<1>0. v \in Servers /\ v.calls \in [Actors -> CallType] /\ w.calls \in [Actors -> CallType]
  BY DEF Good, Typed, Servers
<1>1. w.calls[a].pc = pc /\ w.calls[a].op \in {v.calls[a].op, NoOp}
  BY <1>0, Numbers DEF Parks, CallType, Resting
<1>2. pc \notin Over => w.calls[a].op = v.calls[a].op /\ w.calls[a].rec = v.calls[a].rec
  BY <1>0 DEF Parks, CallType
<1>3. \A b \in Calls \ {a} : w.calls[b] = v.calls[b]
  BY Numbers DEF Parks
<1>4. \A b \in Actors \ {a} :
         \/ w.calls[b] = v.calls[b]
         \/ /\ b \in Saves /\ w.calls[b].pc = "disturbed"
            /\ v.calls[b].pc \in {"inspect", "again"}
  <2>1. \A k \in CallType : [k EXCEPT !.pc = "disturbed"].pc = "disturbed"
    BY DEF CallType
  <2>2. \A b \in Actors : v.calls[b] \in CallType
    BY <1>0
  <2>3. \A b \in Actors \ {a} :
           \/ w.calls[b] = v.calls[b]
           \/ /\ b \in Saves /\ v.calls[b].pc \in {"inspect", "again"}
              /\ w.calls[b] = [v.calls[b] EXCEPT !.pc = "disturbed"]
    BY DEF Parks
  <2> SUFFICES ASSUME NEW b \in Actors \ {a}
               PROVE  \/ w.calls[b] = v.calls[b]
                      \/ /\ b \in Saves /\ w.calls[b].pc = "disturbed"
                         /\ v.calls[b].pc \in {"inspect", "again"}
    OBVIOUS
  <2>4. w.calls[b] = [v.calls[b] EXCEPT !.pc = "disturbed"] => w.calls[b].pc = "disturbed"
    BY <2>1, <2>2
  <2> QED
    BY <2>3, <2>4
<1>5. Typed(w, {})
  <2>1. \A b \in Actors : w.calls[b].pc \in PcsOf(b)
    BY <1>1, <1>4 DEF Good, Typed, Fits, PcsOf, SavePcs
  <2>2. w.calls[Merge].op \in {Merge, NoOp}
    BY <1>1, <1>3, Numbers DEF Good, Typed
  <2> QED
    BY <2>1, <2>2 DEF Typed
<1>6. Lined(w, {})
  <2>1. \A b \in Actors \ {a} : b \in Range(w.line) <=> w.calls[b].pc \in Queued
    BY <1>4 DEF Good, Lined, Parks, Queued
  <2>2. a \in Range(w.line) <=> w.calls[a].pc \in Queued
    BY <1>1 DEF Good, Lined, Parks
  <2> QED
    BY <2>1, <2>2 DEF Lined, Parks
<1>7. Indexed(w, {})
  <2>1. \A c \in Range(w.waits) : c # a /\ c \in Calls
    <3>1. v.waits \in Seq(Calls) /\ Range(v.waits) \subseteq Calls
      BY <1>0, RangeIs DEF Servers
    <3> QED
      BY <3>1 DEF Good, Indexed, Moves
  <2>2. \A c \in Range(w.waits) : w.calls[c].pc = "drain" /\ w.calls[c].op = w.drain
    BY <2>1, <1>3 DEF Good, Indexed, Moves
  <2>3. \A c \in Calls : w.calls[c].pc \in {"drain", "reserve", "activate"} =>
                            w.calls[c].op # NoOp
    BY <1>1, <1>2, <1>3, Numbers DEF Good, Indexed, Fits, Over
  <2>4. w.calls[Merge].pc \in {"drain", "activate"} => w.calls[Merge].op = Merge
    BY <1>1, <1>2, <1>3, Numbers DEF Good, Indexed, Fits, Over
  <2> QED
    BY <2>1, <2>2, <2>3, <2>4 DEF Good, Indexed, Moves
<1>8. Fenced(w, {})
  <2>1. Live(w) = Live(v)
    BY DEF Moves, Live
  <2>2. \A c \in Calls : w.calls[c].pc \in Cleanup => w.durable # NoOp
    BY <1>1, <1>3 DEF Good, Fenced, Fits, Moves
  <2>3. \A n \in Saves : "active" \in w.regs[n] <=> w.calls[n].pc \in Holding
    BY <1>1, <1>4, Numbers, ZenonT(30) DEF Good, Fenced, Fits, Moves, Holding
  <2> QED
    BY <2>1, <2>2, <2>3 DEF Good, Fenced, Moves
<1>9. Shown(s, w, {})
  <2>1. w.fence # NoOp => \/ Taken(s) \/ s.merge = "merged"
                          \/ \E c \in Calls : /\ w.calls[c].pc \in {"reserve", "activate"}
                                              /\ w.calls[c].op = w.fence
    <3>1. ASSUME w.fence # NoOp, ~Taken(s), s.merge # "merged"
          PROVE  \E c \in Calls : /\ w.calls[c].pc \in {"reserve", "activate"}
                                  /\ w.calls[c].op = w.fence
      <4>1. PICK c \in Calls : /\ c = a \/ v.calls[c].pc \in {"reserve", "activate"}
                               /\ v.calls[c].op = v.fence
        BY <3>1 DEF Good, Shown, Moves
      <4>2. CASE c # a
        BY <4>1, <4>2, <1>3 DEF Moves
      <4>3. CASE c = a
        <5>1. pc \in {"reserve", "activate"}
          BY <4>1, <4>3, <3>1 DEF Fits, Free, Moves
        <5> QED
          BY <5>1, <4>1, <4>3, <1>1, <1>2 DEF Moves, Over
      <4> QED
        BY <4>2, <4>3
    <3> QED
      BY <3>1
  <2>2. ~w.up => w.line = <<>> /\ \A b \in Actors : w.calls[b].pc \in Over
    BY <1>1, <1>4 DEF Good, Shown, Moves, Fits, Over, Parks
  <2>3. \A c \in Calls : w.calls[c].pc \in {"finalizing", "finalized"} => ~s.task
    BY <1>1, <1>3 DEF Good, Shown, Fits
  <2>4. \A c \in Calls : w.calls[c].pc = "step" => w.calls[c].rec.steps < Steps
    BY <1>1, <1>2, <1>3 DEF Good, Shown, Fits, Over
  <2>5. \A c \in Calls : w.calls[c].op = Merge => s.merge \in {"merged", "completed"}
    BY <1>1, <1>3, Numbers DEF Good, Shown
  <2> QED
    BY <2>1, <2>2, <2>3, <2>4, <2>5 DEF Good, Shown, Moves
<1>10. Alone(w, al, {})
  <2> SUFFICES ASSUME al PROVE Alone(w, al, {})
    BY DEF Alone
  <2>1. \A c \in Calls : Flies(w, c) => c = a \/ Flies(v, c)
    BY <1>3 DEF Flies
  <2>2. \A c, d \in Calls : Flies(w, c) /\ Flies(w, d) => c = d
    BY <2>1 DEF Good, Alone
  <2>3. \A c \in Calls : w.calls[c].pc \in {"reserve", "activate"} =>
                            w.durable # NoOp \/ w.fence = w.calls[c].op
    BY <1>1, <1>2, <1>3 DEF Good, Alone, Fits, Moves, Over
  <2>4. \A c \in Calls : w.calls[c].pc = "drain" => w.drain = w.calls[c].op
    BY <1>1, <1>3 DEF Good, Alone, Fits, Moves
  <2> QED
    BY <2>2, <2>3, <2>4 DEF Alone
<1> QED
  BY <1>5, <1>6, <1>7, <1>8, <1>9, <1>10 DEF Good

\* A call keeps its type when it goes on or comes to rest.
LEMMA CallMoves ==
    ASSUME NEW k \in CallType, NEW pc \in Pcs
    PROVE  /\ [k EXCEPT !.pc = pc] \in CallType /\ [k EXCEPT !.pc = pc].pc = pc
           /\ [Resting EXCEPT !.pc = pc] \in CallType /\ [Resting EXCEPT !.pc = pc].pc = pc
           /\ [Resting EXCEPT !.pc = pc].op = NoOp
<1>1. NoRec \in Recs
  BY Numbers DEF NoRec, Recs, Phases
<1>2. Resting \in CallType
  BY <1>1 DEF Resting, CallType, Ops, Pcs, RemovalPcs
<1> QED
  BY <1>1, <1>2 DEF CallType, Resting, Ops

\* Every place of an actor is a place.
LEMMA PcsAre == \A a \in Actors : PcsOf(a) \subseteq Pcs
  BY DEF PcsOf, Pcs

\* Where At leads.
LEMMA AtGood ==
    ASSUME NEW s, NEW v, NEW al \in BOOLEAN, NEW a \in Actors, NEW pc \in Pcs \ Queued,
           Good(s, v, al, {a}), Fits(s, v, al, a, pc)
    PROVE  Good(s, At(v, a, pc), al, {}) /\ Moves(v, At(v, a, pc))
           /\ At(v, a, pc).calls[a].pc = pc /\ Stays(v, At(v, a, pc), {a})
<1> DEFINE w == At(v, a, pc)
<1>0. v \in Servers /\ v.calls \in [Actors -> CallType] /\ v.calls[a] \in CallType
  BY DEF Good, Typed, Servers
<1>1. [v.calls[a] EXCEPT !.pc = pc] \in CallType
  BY <1>0, CallMoves
<1> DEFINE k == [v.calls EXCEPT ![a] = [v.calls[a] EXCEPT !.pc = pc]]
<1>2. w = [v EXCEPT !.calls = k]
  BY DEF At
<1>3. /\ k \in [Actors -> CallType] /\ k[a] = [v.calls[a] EXCEPT !.pc = pc]
      /\ \A b \in Actors \ {a} : k[b] = v.calls[b]
  BY <1>0, <1>1
<1> HIDE DEF k
<1>4. /\ w \in Servers /\ Moves(v, w) /\ w.calls = k /\ w.line = v.line
  BY <1>0, <1>2, <1>3 DEF Servers, Moves
<1> HIDE DEF w
<1>5. Parks(v, w, a, pc)
  BY <1>3, <1>4 DEF Parks, Good, Lined
<1>6. w.calls[a].pc = pc /\ Stays(v, w, {a})
  <2>1. k[a].pc = pc
    BY <1>0, <1>3 DEF CallType
  <2> QED
    BY <2>1, <1>3, <1>4, Numbers DEF Stays
<1> QED
  BY <1>4, <1>5, <1>6, Parking DEF w

\* Where Queue leads.
LEMMA QueueGood ==
    ASSUME NEW s, NEW v, NEW al \in BOOLEAN, NEW a \in Actors, NEW pc \in Queued,
           Good(s, v, al, {a}), Fits(s, v, al, a, pc)
    PROVE  Good(s, Queue(v, a, pc), al, {}) /\ Moves(v, Queue(v, a, pc))
           /\ Queue(v, a, pc).calls[a].pc = pc /\ Stays(v, Queue(v, a, pc), {a})
<1> DEFINE w == Queue(v, a, pc)
           d == Disturbed(v, {a})
           k == [d EXCEPT ![a].pc = pc]
<1>0. v \in Servers /\ v.calls \in [Actors -> CallType] /\ v.calls[a] \in CallType
      /\ v.line \in Seq(Actors) /\ pc \in Pcs
  BY PcsAre DEF Good, Typed, Servers, Fits
<1>1. /\ [v.calls[a] EXCEPT !.pc = pc] \in CallType
      /\ \A b \in Actors : [v.calls[b] EXCEPT !.pc = "disturbed"] \in CallType
  <2>1. "disturbed" \in Pcs
    BY DEF Pcs, SavePcs
  <2> QED
    BY <1>0, <2>1, CallMoves
<1>2. /\ d \in [Actors -> CallType] /\ d[a] = v.calls[a]
      /\ \A b \in Actors \ {a} :
            \/ d[b] = v.calls[b]
            \/ v.calls[b].pc \in {"inspect", "again"} /\ d[b] = [v.calls[b] EXCEPT !.pc = "disturbed"]
  BY <1>0, <1>1 DEF Disturbed
<1> HIDE DEF d
<1>3. /\ k \in [Actors -> CallType] /\ k[a] = [v.calls[a] EXCEPT !.pc = pc]
      /\ \A b \in Actors \ {a} : k[b] = d[b]
  BY <1>1, <1>2
<1>4. \A b \in Actors \ {a} : v.calls[b].pc \in {"inspect", "again"} => b \in Saves
  BY DEF Good, Typed, PcsOf, MergePcs, RemovalPcs, Cleanup
<1>5. w = [v EXCEPT !.calls = k, !.line = Append(v.line, a)]
  BY DEF Queue, d
<1>6. a \notin Range(v.line) /\ Distinct(v.line)
  BY DEF Good, Lined
<1>7. /\ Append(v.line, a) \in Seq(Actors) /\ Distinct(Append(v.line, a))
      /\ Range(Append(v.line, a)) = Range(v.line) \cup {a}
  BY <1>0, <1>6, Stands
<1> HIDE DEF k
<1>8. /\ w \in Servers /\ Moves(v, w) /\ w.calls = k /\ w.line = Append(v.line, a)
  BY <1>0, <1>3, <1>5, <1>7 DEF Servers, Moves
<1>9. v.up
  BY DEF Fits, Queued, Over
<1> HIDE DEF w
<1>10. Parks(v, w, a, pc)
  BY <1>2, <1>3, <1>4, <1>7, <1>8, <1>9 DEF Parks, Moves
<1>11. w.calls[a].pc = pc /\ Stays(v, w, {a})
  <2>1. k[a].pc = pc
    BY <1>0, <1>3 DEF CallType
  <2>2. \A b \in Calls \ {a} : b \in Actors /\ b \notin Saves
    BY Numbers
  <2>3. \A b \in Calls \ {a} : k[b] = v.calls[b]
    BY <2>2, <1>2, <1>3, <1>4
  <2> QED
    BY <2>1, <2>3, <1>8 DEF Stays
<1> QED
  BY <1>8, <1>10, <1>11, Parking DEF w

\* A call ends.
LEMMA EndGood ==
    ASSUME NEW s, NEW v, NEW al \in BOOLEAN, NEW c \in Calls,
           Good(s, v, al, {c}), Free(s, v, c)
    PROVE  Good(s, End(v, c), al, {}) /\ Moves(v, End(v, c))
           /\ End(v, c).calls[c].pc \in Over /\ Stays(v, End(v, c), {c})
<1> DEFINE w == End(v, c)
           pc == IF c = Merge THEN "idle" ELSE "done"
           k == [v.calls EXCEPT ![c] = Ended(c)]
<1>0. v \in Servers /\ v.calls \in [Actors -> CallType] /\ v.calls[c] \in CallType
      /\ c \in Actors
  BY Numbers DEF Good, Typed, Servers
<1>1. /\ pc \in Pcs /\ pc \in Over /\ pc \notin Queued \cup Cleanup
      /\ pc \notin {"drain", "finalizing", "finalized", "step", "reserve", "activate"}
  BY DEF Pcs, MergePcs, RemovalPcs, Over, Queued, Cleanup
<1>2. pc \in PcsOf(c)
  BY Numbers DEF PcsOf, MergePcs, RemovalPcs
<1>3. Ended(c) = [Resting EXCEPT !.pc = pc]
  BY DEF Ended
<1> HIDE DEF pc
<1>4. /\ k \in [Actors -> CallType] /\ k[c] = [Resting EXCEPT !.pc = pc]
      /\ \A b \in Actors \ {c} : k[b] = v.calls[b]
  BY <1>0, <1>1, <1>3, CallMoves
<1>5. w = [v EXCEPT !.calls = k]
  BY DEF End
<1> HIDE DEF k
<1>6. /\ w \in Servers /\ Moves(v, w) /\ w.calls = k /\ w.line = v.line
  BY <1>0, <1>4, <1>5 DEF Servers, Moves
<1> HIDE DEF w
<1>7. Parks(v, w, c, pc)
  BY <1>1, <1>4, <1>6 DEF Parks, Good, Lined
<1>8. Fits(s, v, al, c, pc)
  BY <1>1, <1>2, Numbers DEF Fits
<1>9. w.calls[c].pc \in Over /\ Stays(v, w, {c})
  <2>1. k[c].pc \in Over
    BY <1>0, <1>1, <1>4, CallMoves
  <2> QED
    BY <2>1, <1>4, <1>6, Numbers DEF Stays
<1> QED
  BY <1>0, <1>6, <1>7, <1>8, <1>9, Parking DEF w

-----------------------------------------------------------------------------
(* What else a step does to the server. *)

\* What is shown changes, and what the actors in X know.
LEMMA Showing ==
    ASSUME NEW s, NEW v, NEW w, NEW al \in BOOLEAN, NEW X \in SUBSET Actors,
           w \in Servers, Good(s, v, al, X),
           /\ w.up = v.up /\ w.line = v.line /\ w.regs = v.regs
           /\ w.durable = v.durable /\ w.fence = v.fence /\ w.drain = v.drain /\ w.waits = v.waits,
           \A a \in Actors : w.calls[a].pc = v.calls[a].pc /\ w.calls[a].op = v.calls[a].op,
           \A a \in Actors \ X : w.calls[a] = v.calls[a],
           w.state = "removed" => ~s.task,
           Closing(w.rec) => Taken(s),
           w.up => w.state # "absent"
    PROVE  Good(s, w, al, X)
<1>0. Calls \subseteq Actors /\ Merge \in Calls
  BY Numbers
<1>1. Typed(w, X)
  BY <1>0 DEF Good, Typed
<1>2. Lined(w, X)
  BY DEF Good, Lined
<1>3. Indexed(w, X)
  <2>1. Range(w.waits) \subseteq Calls
    BY RangeIs DEF Servers
  <2> QED
    BY <1>0, <2>1 DEF Good, Indexed
<1>4. Fenced(w, X)
  <2>1. Live(w) = Live(v)
    BY DEF Live
  <2>2. \A n \in Saves \ X : w.calls[n].pc = v.calls[n].pc
    BY Numbers
  <2> QED
    BY <1>0, <2>1, <2>2, Numbers DEF Good, Fenced
<1>5. Shown(s, w, X)
  BY <1>0 DEF Good, Shown
<1>6. Alone(w, al, X)
  BY <1>0 DEF Good, Alone, Flies
<1> QED
  BY <1>1, <1>2, <1>3, <1>4, <1>5, <1>6 DEF Good

\* An actor that neither stands in line nor waits for the drain sets out.
LEMMA Aside ==
    ASSUME NEW s, NEW v, NEW al \in BOOLEAN, NEW now \in BOOLEAN, NEW a \in Actors,
           Good(s, v, al, {}), v.calls[a].pc \notin Queued \cup {"drain"},
           now => al /\ (a \in Calls => \A c \in Calls \ {a} : ~Flies(v, c))
    PROVE  Good(s, v, now, {a})
<1>0. Calls \subseteq Actors /\ Merge \in Calls /\ Calls \cap Saves = {}
  BY Numbers
<1>1. Typed(v, {a}) /\ Lined(v, {a})
  BY DEF Good, Typed, Lined
<1>3. Indexed(v, {a})
  <2>1. Range(v.waits) \subseteq Calls
    BY RangeIs DEF Good, Typed, Servers
  <2> QED
    BY <1>0, <2>1 DEF Good, Indexed
<1>4. Fenced(v, {a})
  BY DEF Good, Fenced
<1>5. Shown(s, v, {a})
  BY DEF Good, Shown
<1>6. Alone(v, now, {a})
  <2> SUFFICES ASSUME now, al, Alone(v, al, {}) PROVE Alone(v, now, {a})
    BY DEF Alone, Good
  <2>1. CASE a \in Calls
    <3>1. \A c \in Calls : c \in {a} \/ Flies(v, c) => c = a
      BY <2>1
    <3>2. \A c, d \in Calls :
             (c \in {a} \/ Flies(v, c)) /\ (d \in {a} \/ Flies(v, d)) => c = d
      BY <3>1
    <3> QED
      BY <3>2 DEF Alone
  <2>2. CASE a \notin Calls
    BY <2>2 DEF Alone
  <2> QED
    BY <2>1, <2>2
<1> QED
  BY <1>1, <1>3, <1>4, <1>5, <1>6 DEF Good

Registered(v, n, as) == [v EXCEPT !.regs[n] = as]
MayHold(v, n, as) == /\ as \subseteq {"active", "host", "retry"}
                     /\ as = {} \/ n \in Live(v) \/ ~IndexClosing(v)

\* The save n changes its registrations: it may leave, or go on with another of them.
LEMMA Registering ==
    ASSUME NEW s, NEW v, NEW al \in BOOLEAN, NEW n \in Saves, NEW as,
           Good(s, v, al, {n}), MayHold(v, n, as)
    PROVE  /\ Good(s, Registered(v, n, as), al, {n})
           /\ Registered(v, n, as).regs[n] = as /\ Registered(v, n, as).calls = v.calls
           /\ Registered(v, n, as).up = v.up /\ Registered(v, n, as).line = v.line
           /\ Registered(v, n, as).reply = v.reply
           /\ Registered(v, n, as).durable = v.durable /\ Registered(v, n, as).unsure = v.unsure
<1>0. Calls \subseteq Actors /\ Merge \in Calls /\ n \notin Calls
  BY Numbers
<1> DEFINE w == Registered(v, n, as)
           r == [v.regs EXCEPT ![n] = as]
<1>1. v \in Servers /\ v.regs \in [Saves -> SUBSET {"active", "host", "retry"}]
  BY DEF Good, Typed, Servers
<1>2. r \in [Saves -> SUBSET {"active", "host", "retry"}] /\ r[n] = as
      /\ \A m \in Saves \ {n} : r[m] = v.regs[m]
  BY <1>1 DEF MayHold
<1>3. w = [v EXCEPT !.regs = r]
  BY DEF Registered
<1> HIDE DEF r, w
<1>4. /\ w \in Servers /\ w.regs = r /\ w.up = v.up /\ w.line = v.line /\ w.calls = v.calls
      /\ w.durable = v.durable /\ w.fence = v.fence /\ w.drain = v.drain /\ w.waits = v.waits
      /\ w.state = v.state /\ w.rec = v.rec /\ w.unsure = v.unsure /\ w.reply = v.reply
  BY <1>1, <1>2, <1>3 DEF Servers
<1>5. Typed(w, {n}) /\ Lined(w, {n}) /\ Indexed(w, {n}) /\ Shown(s, w, {n}) /\ Alone(w, al, {n})
  BY <1>4 DEF Good, Typed, Lined, Indexed, Shown, Alone, Flies
<1>6. Fenced(w, {n})
  <2>1. ASSUME w.durable # NoOp \/ w.fence # NoOp
        PROVE  Live(w) = {}
    <3>1. Live(v) = {} /\ IndexClosing(v)
      BY <2>1, <1>4 DEF Good, Fenced, IndexClosing
    <3>2. as = {}
      BY <3>1 DEF MayHold
    <3> QED
      BY <3>1, <3>2, <1>2, <1>4 DEF Live
  <2>2. \A c \in Calls \ {n} : w.calls[c].pc \in Cleanup => w.durable # NoOp
    BY <1>4 DEF Good, Fenced
  <2>3. \A m \in Saves \ {n} : "active" \in w.regs[m] <=> w.calls[m].pc \in Holding
    BY <1>2, <1>4 DEF Good, Fenced
  <2> QED
    BY <2>1, <2>2, <2>3 DEF Fenced
<1> QED
  BY <1>2, <1>4, <1>5, <1>6 DEF Good, w

\* A removal that was not reserved leaves the index.
LEMMA CancelGood ==
    ASSUME NEW s, NEW v, NEW al \in BOOLEAN, NEW c \in Calls, Good(s, v, al, {c}),
           v.calls[c].op # NoOp
    PROVE  /\ Good(s, Cancel(v, v.calls[c].op), al, {c}) /\ Free(s, Cancel(v, v.calls[c].op), c)
           /\ Cancel(v, v.calls[c].op).durable = v.durable
           /\ Cancel(v, v.calls[c].op).unsure = v.unsure
           /\ Cancel(v, v.calls[c].op).up = v.up
           /\ Cancel(v, v.calls[c].op).calls = v.calls
           /\ Cancel(v, v.calls[c].op).reply = v.reply
<1> DEFINE op == v.calls[c].op
           w == Cancel(v, op)
           f == IF v.fence = op THEN NoOp ELSE v.fence
           d == IF v.drain = op THEN NoOp ELSE v.drain
           q == IF v.drain = op THEN <<>> ELSE v.waits
<1>0. Calls \subseteq Actors /\ Merge \in Calls /\ v \in Servers
  BY Numbers DEF Good, Typed
<1>1. CASE v.durable # NoOp
  <2>1. w = v
    BY <1>1 DEF Cancel
  <2>2. v.fence = NoOp
    BY <1>1 DEF Good, Indexed
  <2> QED
    BY <2>1, <2>2 DEF Free
<1>2. CASE v.durable = NoOp
  <2>1. w = [v EXCEPT !.fence = f, !.drain = d, !.waits = q]
    BY <1>2 DEF Cancel
  <2>2. f \in {NoOp, v.fence} /\ d \in {NoOp, v.drain} /\ f # op /\ d # op
    BY DEF Ops
  <2>3. q = (IF d = v.drain THEN v.waits ELSE <<>>) \/ v.drain = NoOp
    OBVIOUS
  <2>4. (q = v.waits /\ d = v.drain) \/ (q = <<>> /\ d = NoOp)
    OBVIOUS
  <2>5. d \in Ops /\ f \in Ops /\ q \in Seq(Calls) /\ Range(<<>>) = {}
    <3>1. NoOp \in Ops /\ v.drain \in Ops /\ v.fence \in Ops /\ v.waits \in Seq(Calls)
      BY <1>0 DEF Servers, Ops
    <3>2. <<>> \in Seq(Calls)
      BY EmptySeq
    <3> QED
      BY <3>1, <3>2, <2>2, <2>4, RangeIs
  <2> HIDE DEF f, d, q
  <2>6. /\ w \in Servers /\ w.fence = f /\ w.drain = d /\ w.waits = q
        /\ w.up = v.up /\ w.line = v.line /\ w.calls = v.calls /\ w.regs = v.regs
        /\ w.durable = v.durable /\ w.state = v.state /\ w.rec = v.rec /\ w.unsure = v.unsure
        /\ w.reply = v.reply
    BY <1>0, <2>1, <2>5 DEF Servers
  <2> HIDE DEF w
  <2>7. Typed(w, {c}) /\ Lined(w, {c}) /\ Fenced(w, {c})
    BY <2>2, <2>6 DEF Good, Typed, Lined, Fenced, Live
  <2>8. Distinct(<<>>)
    BY DEF Distinct
  <2>9. Indexed(w, {c})
    BY <2>2, <2>4, <2>5, <2>6, <2>8 DEF Good, Indexed
  <2>10. Shown(s, w, {c})
    BY <2>2, <2>6, <1>0, Numbers DEF Good, Shown
  <2>11. Alone(w, al, {c})
    <3> SUFFICES ASSUME al, Alone(v, al, {c}) PROVE Alone(w, al, {c})
      BY DEF Alone, Good
    <3>1. \A b \in Calls \ {c} : ~Flies(v, b)
      BY DEF Alone
    <3> QED
      BY <3>1, <2>6 DEF Alone, Flies, Over
  <2>12. Free(s, w, c)
    BY <2>2, <2>6 DEF Free
  <2> QED
    BY <2>6, <2>7, <2>9, <2>10, <2>11, <2>12 DEF Good, w
<1> QED
  BY <1>1, <1>2

\* The fence becomes a durable closing.
LEMMA PromoteGood ==
    ASSUME NEW s, NEW v, NEW al \in BOOLEAN, NEW c \in Calls, Good(s, v, al, {c}),
           NEW op \in Calls, Promotable(v, op), Taken(s),
           op = Merge => s.merge \in {"merged", "completed"}
    PROVE  /\ Good(s, Promote(v, op), al, {c}) /\ Promote(v, op).durable # NoOp
           /\ Promote(v, op).up = v.up /\ Promote(v, op).calls = v.calls
           /\ Promote(v, op).reply = v.reply
<1> DEFINE w == Promote(v, op)
<1>0. Calls \subseteq Actors /\ Merge \in Calls /\ v \in Servers /\ op # NoOp
  BY Numbers DEF Good, Typed
<1>1. op \in Ops /\ NoOp \in Ops /\ <<>> \in Seq(Calls) /\ Range(<<>>) = {} /\ Distinct(<<>>)
  <2>1. <<>> \in Seq(Calls)
    BY EmptySeq
  <2>2. Range(<<>>) = {}
    BY <2>1, RangeIs
  <2>3. Distinct(<<>>)
    BY DEF Distinct
  <2> QED
    BY <2>1, <2>2, <2>3 DEF Ops
<1>2. /\ w \in Servers /\ w.fence = NoOp /\ w.drain = NoOp /\ w.waits = <<>> /\ w.durable = op
      /\ w.up = v.up /\ w.line = v.line /\ w.calls = v.calls /\ w.regs = v.regs
      /\ w.state = v.state /\ w.rec = v.rec /\ w.reply = v.reply
  BY <1>0, <1>1 DEF Servers, Promote
<1> HIDE DEF w
<1>3. Live(w) = {}
  <2>1. v.durable # NoOp \/ v.fence # NoOp
    BY <1>0 DEF Promotable
  <2> QED
    BY <2>1, <1>2 DEF Good, Fenced, Live
<1>4. Typed(w, {c}) /\ Lined(w, {c})
  BY <1>2 DEF Good, Typed, Lined
<1>5. Fenced(w, {c})
  BY <1>0, <1>2, <1>3 DEF Good, Fenced
<1>6. Indexed(w, {c})
  BY <1>0, <1>1, <1>2 DEF Good, Indexed
<1>7. Shown(s, w, {c})
  BY <1>0, <1>2, Numbers DEF Good, Shown
<1>8. Alone(w, al, {c})
  <2> SUFFICES ASSUME al, Alone(v, al, {c}) PROVE Alone(w, al, {c})
    BY DEF Alone, Good
  <2>1. \A b \in Calls \ {c} : ~Flies(v, b)
    BY DEF Alone
  <2> QED
    BY <2>1, <1>2 DEF Alone, Flies, Over
<1> QED
  BY <1>0, <1>2, <1>4, <1>5, <1>6, <1>7, <1>8 DEF Good, w

-----------------------------------------------------------------------------
(* The drain. *)

\* The drain becomes a fence, and whoever waited for it stands in line.
LEMMA FenceGood ==
    ASSUME NEW s, NEW v, NEW al \in BOOLEAN, NEW X \in SUBSET Actors, Good(s, v, al, X),
           v.waits # <<>>, Live(v) = {}
    PROVE  /\ Good(s, Fence(v), al, X)
           /\ Fence(v).up = v.up /\ Fence(v).regs = v.regs
           /\ Fence(v).durable = v.durable /\ Fence(v).unsure = v.unsure
           /\ Fence(v).reply = v.reply /\ Stays(v, Fence(v), X)
<1> DEFINE w == Fence(v)
           W == Range(v.waits)
           d == Disturbed(v, W)
           k == [a \in Actors |-> IF a \in W THEN [d[a] EXCEPT !.pc = Asks(a)] ELSE d[a]]
<1>0. /\ v \in Servers /\ v.calls \in [Actors -> CallType]
      /\ v.line \in Seq(Actors) /\ v.waits \in Seq(Calls)
  BY DEF Good, Typed, Servers
<1>1. /\ W \subseteq Calls /\ W # {} /\ Calls \subseteq Actors /\ Merge \in Calls
      /\ v.waits \in Seq(Actors) /\ Calls \cap Saves = {}
  BY <1>0, RangeIs, Numbers, SeqMonotonic
<1>2. \A c \in W : c \notin X /\ v.calls[c].pc = "drain" /\ v.calls[c].op = v.drain
  BY DEF Good, Indexed
<1>3. /\ v.drain # NoOp /\ v.durable = NoOp /\ v.fence = NoOp
  BY DEF Good, Indexed
<1> HIDE DEF W
<1>4. \A b \in Actors \ X : v.calls[b].pc \in {"inspect", "again"} => b \in Saves
  BY DEF Good, Typed, PcsOf, MergePcs, RemovalPcs, Cleanup
<1>5. \A b \in Actors : /\ [v.calls[b] EXCEPT !.pc = "disturbed"] \in CallType
                        /\ [v.calls[b] EXCEPT !.pc = "disturbed"].pc = "disturbed"
                        /\ [v.calls[b] EXCEPT !.pc = "disturbed"].op = v.calls[b].op
                        /\ [v.calls[b] EXCEPT !.pc = "disturbed"].rec = v.calls[b].rec
                        /\ [v.calls[b] EXCEPT !.pc = Asks(b)] \in CallType
                        /\ [v.calls[b] EXCEPT !.pc = Asks(b)].pc = Asks(b)
                        /\ [v.calls[b] EXCEPT !.pc = Asks(b)].op = v.calls[b].op
  <2>1. "disturbed" \in Pcs /\ \A b \in Actors : Asks(b) \in Pcs
    BY DEF Pcs, SavePcs, Asks, RemovalPcs, MergePcs
  <2> QED
    BY <1>0, <2>1 DEF CallType
<1>6. /\ k \in [Actors -> CallType]
      /\ \A c \in W : k[c].pc = Asks(c) /\ k[c].op = v.drain
      /\ \A b \in Actors \ W :
            \/ k[b] = v.calls[b]
            \/ /\ v.calls[b].pc \in {"inspect", "again"}
               /\ k[b].pc = "disturbed" /\ k[b].op = v.calls[b].op /\ k[b].rec = v.calls[b].rec
  <2>1. /\ d \in [Actors -> CallType]
        /\ \A c \in W : d[c] = v.calls[c]
        /\ \A b \in Actors \ W :
            \/ d[b] = v.calls[b]
            \/ /\ v.calls[b].pc \in {"inspect", "again"}
               /\ d[b].pc = "disturbed" /\ d[b].op = v.calls[b].op /\ d[b].rec = v.calls[b].rec
    BY <1>0, <1>1, <1>5 DEF Disturbed
  <2> HIDE DEF d
  <2>2. \A c \in W : k[c] = [v.calls[c] EXCEPT !.pc = Asks(c)]
    BY <1>1, <2>1
  <2>3. \A c \in W : k[c].pc = Asks(c) /\ k[c].op = v.drain /\ k[c] \in CallType
    BY <1>1, <1>2, <1>5, <2>2
  <2>4. \A b \in Actors \ W : k[b] = d[b] /\ k[b] \in CallType
    BY <2>1
  <2>5. k \in [Actors -> CallType]
    BY <2>3, <2>4
  <2> QED
    BY <2>1, <2>3, <2>4, <2>5
<1>7. w = [v EXCEPT !.fence = v.drain, !.drain = NoOp, !.waits = <<>>,
                    !.line = v.line \o v.waits, !.calls = k]
  BY DEF Fence, W, d
<1>8. W \cap Range(v.line) = {}
  BY <1>1, <1>2 DEF Good, Lined, Queued
<1>9. /\ v.line \o v.waits \in Seq(Actors) /\ Distinct(v.line \o v.waits)
      /\ Range(v.line \o v.waits) = Range(v.line) \cup W
  <2>1. Distinct(v.line) /\ Distinct(v.waits)
    BY DEF Good, Lined, Indexed
  <2> QED
    BY <1>0, <1>1, <1>8, <2>1, StandBehind DEF W
<1>10. <<>> \in Seq(Calls) /\ Range(<<>>) = {} /\ Distinct(<<>>) /\ NoOp \in Ops
  <2>1. <<>> \in Seq(Calls)
    BY EmptySeq
  <2>2. Range(<<>>) = {}
    BY <2>1, RangeIs
  <2>3. Distinct(<<>>)
    BY DEF Distinct
  <2> QED
    BY <2>1, <2>2, <2>3 DEF Ops
<1> DEFINE l == v.line \o v.waits
<1>11. /\ l \in Seq(Actors) /\ Distinct(l) /\ Range(l) = Range(v.line) \cup W
  BY <1>9
<1> HIDE DEF k, w
<1>21. w = [v EXCEPT !.fence = v.drain, !.drain = NoOp, !.waits = <<>>, !.line = l, !.calls = k]
  BY <1>7
<1> HIDE DEF l
<1>12. /\ w \in Servers /\ w.fence = v.drain /\ w.drain = NoOp /\ w.waits = <<>> /\ w.calls = k
       /\ w.durable = v.durable /\ w.line = l /\ w.up = v.up
       /\ w.regs = v.regs /\ w.state = v.state /\ w.rec = v.rec /\ w.unsure = v.unsure
       /\ w.reply = v.reply
  <2>1. v.drain \in Ops
    BY <1>0 DEF Servers
  <2> QED
    BY <1>0, <1>6, <1>21, <1>10, <1>11, <2>1 DEF Servers
<1>13. \A c \in W : Asks(c) \in PcsOf(c) \cap Queued /\ Asks(c) \in {"reserve", "activate"}
                    /\ (Asks(c) = "activate" => c = Merge)
  <2>1. \A c \in W : c \notin Saves
    BY <1>1
  <2> QED
    BY <2>1 DEF Asks, PcsOf, MergePcs, RemovalPcs, Queued
<1>14. \A c \in Calls \ X : c \notin W => k[c] = v.calls[c]
  BY <1>1, <1>4, <1>6
<1>15. Typed(w, X)
  <2>1. \A b \in Actors \ X : k[b].pc \in PcsOf(b)
    BY <1>1, <1>4, <1>6, <1>13 DEF Good, Typed, PcsOf, SavePcs
  <2>2. k[Merge].op \in {Merge, NoOp}
    <3>1. k[Merge].op = v.calls[Merge].op
      BY <1>1, <1>2, <1>6
    <3> QED
      BY <3>1 DEF Good, Typed
  <2> QED
    BY <2>1, <2>2, <1>12 DEF Typed
<1>16. Lined(w, X)
  <2>1. \A b \in Actors \ X : b \in Range(l) <=> k[b].pc \in Queued
    BY <1>6, <1>11, <1>13 DEF Good, Lined, Queued
  <2>2. X \cap Range(l) = {}
    BY <1>2, <1>11 DEF Good, Lined
  <2> QED
    BY <2>1, <2>2, <1>11, <1>12 DEF Lined
<1>17. Indexed(w, X)
  <2>1. \A c \in Calls \ X : k[c].pc \in {"drain", "reserve", "activate"} => k[c].op # NoOp
    BY <1>3, <1>6, <1>14 DEF Good, Indexed
  <2>2. k[Merge].pc \in {"drain", "activate"} /\ Merge \notin X => k[Merge].op = Merge
    BY <1>1, <1>2, <1>6, <1>14 DEF Good, Indexed
  <2> QED
    BY <2>1, <2>2, <1>3, <1>10, <1>12 DEF Indexed
<1>18. Fenced(w, X)
  <2>1. Live(w) = {}
    BY <1>12 DEF Live
  <2>2. \A c \in Calls \ X : k[c].pc \in Cleanup => v.durable # NoOp
    BY <1>6, <1>13, <1>14 DEF Good, Fenced, Cleanup, Queued
  <2>3. \A n \in Saves \ X : "active" \in v.regs[n] <=> k[n].pc \in Holding
    <3>1. \A n \in Saves \ X : n \notin W /\ n \in Actors
      BY <1>1, Numbers
    <3>2. \A n \in Saves \ X : k[n].pc \in Holding <=> v.calls[n].pc \in Holding
      BY <3>1, <1>6 DEF Holding
    <3> QED
      BY <3>2 DEF Good, Fenced
  <2> QED
    BY <2>1, <2>2, <2>3, <1>12 DEF Fenced
<1>19. Shown(s, w, X)
  <2>1. PICK c \in W : TRUE
    BY <1>1
  <2>2. \E b \in Calls : (b \in X \/ k[b].pc \in {"reserve", "activate"}) /\ k[b].op = v.drain
    BY <2>1, <1>1, <1>6, <1>13
  <2>3. w.up
    BY <2>1, <1>1, <1>2, <1>12 DEF Good, Shown, Over
  <2>4. \A b \in Calls \ X : k[b].pc \in {"finalizing", "finalized"} => ~s.task
    BY <1>6, <1>13, <1>14 DEF Good, Shown
  <2>5. \A b \in Calls \ X : k[b].pc = "step" => k[b].rec.steps < Steps
    BY <1>6, <1>13, <1>14 DEF Good, Shown
  <2>6. \A b \in Calls : k[b].op = Merge => s.merge \in {"merged", "completed"}
    <3>1. \A b \in Calls : k[b].op = v.calls[b].op
      BY <1>1, <1>2, <1>6
    <3> QED
      BY <3>1 DEF Good, Shown
  <2> QED
    BY <2>2, <2>3, <2>4, <2>5, <2>6, <1>3, <1>12, Numbers DEF Good, Shown
<1>20. Alone(w, al, X)
  <2> SUFFICES ASSUME al, Alone(v, al, X) PROVE Alone(w, al, X)
    BY DEF Alone, Good
  <2>1. \A b \in Calls : b \in X \/ Flies(w, b) => b \in X \/ Flies(v, b)
    BY <1>2, <1>12, <1>14 DEF Flies, Over
  <2>2. \A b, c \in Calls : (b \in X \/ Flies(w, b)) /\ (c \in X \/ Flies(w, c)) => b = c
    BY <2>1 DEF Alone
  <2>3. PICK c \in W : TRUE
    BY <1>1
  <2>4. Flies(v, c) /\ \A b \in Calls \ X : b # c => ~Flies(v, b)
    BY <2>3, <1>1, <1>2 DEF Alone, Flies, Over
  <2>5. \A b \in Calls \ X : b # c => w.calls[b].pc \in Over
    BY <2>1, <2>4 DEF Flies
  <2>6. w.calls[c].pc = Asks(c) /\ w.calls[c].op = w.fence
    BY <2>3, <1>6, <1>12
  <2> QED
    BY <2>2, <2>5, <2>6, <2>3, <1>13 DEF Alone, Over
<1>22. Stays(v, w, X)
  BY <1>6, <1>12, <1>13, <1>14 DEF Stays
<1> QED
  BY <1>22, <1>12, <1>15, <1>16, <1>17, <1>18, <1>19, <1>20 DEF Good, w

\* Whoever waits for a drain that was canceled is over.
LEMMA StrandedGood ==
    ASSUME NEW s, NEW v, NEW w, NEW al \in BOOLEAN, NEW n \in Saves, Good(s, v, al, {n}),
           w = [v EXCEPT !.calls = [a \in Actors |-> IF a \in Stranded(v) THEN Ended(a)
                                                                        ELSE v.calls[a]]]
    PROVE  /\ Good(s, w, al, {n})
           /\ w.up = v.up /\ w.regs = v.regs /\ w.durable = v.durable /\ w.unsure = v.unsure
           /\ w.waits = v.waits /\ w.reply = v.reply /\ Stays(v, w, {})
<1> DEFINE S == Stranded(v)
           k == [a \in Actors |-> IF a \in S THEN Ended(a) ELSE v.calls[a]]
<1>0. /\ v \in Servers /\ v.calls \in [Actors -> CallType] /\ Calls \subseteq Actors
      /\ Merge \in Calls /\ Calls \cap Saves = {} /\ n \notin Calls
  BY Numbers DEF Good, Typed, Servers
<1>1. /\ S \subseteq Calls /\ S \cap Range(v.waits) = {}
      /\ \A c \in S : v.calls[c].pc = "drain"
  BY DEF Stranded
<1> HIDE DEF S
<1>2. \A c \in Calls : /\ Ended(c) \in CallType /\ Ended(c).op = NoOp
                       /\ Ended(c).pc = IF c = Merge THEN "idle" ELSE "done"
  <2>1. "idle" \in Pcs /\ "done" \in Pcs
    BY DEF Pcs, RemovalPcs
  <2>2. NoRec \in Recs
    BY Numbers DEF NoRec, Recs, Phases, Ops
  <2>3. Resting \in CallType /\ Resting = [pc |-> "idle", op |-> NoOp, rec |-> NoRec]
    BY <2>1, <2>2 DEF Resting, CallType, Ops
  <2> QED
    BY <2>1, <2>3 DEF Ended, CallType
<1>3. /\ k \in [Actors -> CallType]
      /\ \A c \in S : k[c].pc = (IF c = Merge THEN "idle" ELSE "done") /\ k[c].op = NoOp
      /\ \A a \in Actors \ S : k[a] = v.calls[a]
  <2>1. \A a \in Actors \ S : k[a] = v.calls[a] /\ k[a] \in CallType
    BY <1>0
  <2>2. \A c \in S : k[c] = Ended(c) /\ k[c] \in CallType
    BY <1>0, <1>1, <1>2
  <2>3. k \in [Actors -> CallType]
    BY <2>1, <2>2
  <2> QED
    BY <1>1, <1>2, <2>1, <2>2, <2>3
<1>4. w = [v EXCEPT !.calls = k]
  BY DEF S
<1> HIDE DEF k
<1>5. /\ w \in Servers /\ w.up = v.up /\ w.line = v.line /\ w.regs = v.regs /\ w.calls = k
      /\ w.durable = v.durable /\ w.fence = v.fence /\ w.drain = v.drain /\ w.waits = v.waits
      /\ w.state = v.state /\ w.rec = v.rec /\ w.unsure = v.unsure /\ w.reply = v.reply
  BY <1>0, <1>3, <1>4 DEF Servers
<1>6. \A c \in S : k[c].pc \in Over /\ k[c].op = NoOp /\ k[c].pc \in PcsOf(c) /\ c \notin Saves
  <2>1. \A c \in S : c \in Calls /\ c \notin Saves
    BY <1>0, <1>1
  <2> QED
    BY <2>1, <1>3 DEF Over, PcsOf, MergePcs, RemovalPcs
<1>7. Typed(w, {n})
  BY <1>0, <1>3, <1>5, <1>6 DEF Good, Typed
<1>8. Lined(w, {n})
  BY <1>1, <1>3, <1>5, <1>6, <1>0 DEF Good, Lined, Over, Queued
<1>9. Indexed(w, {n})
  <2>1. Range(v.waits) \subseteq Calls
    BY <1>0, RangeIs DEF Servers
  <2>2. \A c \in Range(v.waits) : k[c] = v.calls[c]
    BY <2>1, <1>0, <1>1, <1>3
  <2>3. \A c \in Calls : k[c] = v.calls[c] \/ k[c].pc \in Over
    BY <1>0, <1>3, <1>6
  <2> QED
    BY <2>2, <2>3, <1>0, <1>5 DEF Good, Indexed, Over
<1>10. Fenced(w, {n})
  <2>1. Live(w) = Live(v)
    BY <1>5 DEF Live
  <2>2. \A c \in Calls : k[c] = v.calls[c] \/ k[c].pc \in Over
    BY <1>0, <1>3, <1>6
  <2>3. \A m \in Saves : k[m] = v.calls[m]
    BY <1>3, <1>6, Numbers
  <2> QED
    BY <2>1, <2>2, <2>3, <1>5 DEF Good, Fenced, Over, Cleanup
<1>11. Shown(s, w, {n})
  <2>1. \A c \in Calls : k[c] = v.calls[c] \/ (k[c].pc \in Over /\ k[c].op = NoOp)
    BY <1>0, <1>3, <1>6
  <2>2. \A c \in Calls : v.calls[c].pc \in {"reserve", "activate"} => k[c] = v.calls[c]
    BY <1>0, <1>1, <1>3
  <2>3. \A a \in Actors : v.calls[a].pc \in Over => k[a].pc \in Over
    BY <1>3, <1>6
  <2>4. w.fence # NoOp => \/ Taken(s) \/ s.merge = "merged"
                          \/ \E c \in Calls : /\ c \in {n} \/ w.calls[c].pc \in {"reserve", "activate"}
                                              /\ w.calls[c].op = w.fence
    BY <2>2, <1>0, <1>5 DEF Good, Shown
  <2>5. \A c \in Calls : w.calls[c].op = Merge => s.merge \in {"merged", "completed"}
    BY <2>1, <1>5, Numbers DEF Good, Shown
  <2>6. ~w.up => w.line = <<>> /\ \A a \in Actors \ {n} : w.calls[a].pc \in Over
    BY <2>3, <1>5 DEF Good, Shown
  <2>7. /\ \A c \in Calls \ {n} : w.calls[c].pc \in {"finalizing", "finalized"} => ~s.task
        /\ \A c \in Calls \ {n} : w.calls[c].pc = "step" => w.calls[c].rec.steps < Steps
    BY <2>1, <1>5 DEF Good, Shown, Over
  <2> QED
    BY <2>4, <2>5, <2>6, <2>7, <1>5 DEF Good, Shown
<1>12. Alone(w, al, {n})
  <2>1. \A c \in Calls : k[c] = v.calls[c] \/ k[c].pc \in Over
    BY <1>0, <1>3, <1>6
  <2> QED
    BY <2>1, <1>0, <1>5 DEF Good, Alone, Flies, Over
<1>13. Stays(v, w, {})
  BY <1>0, <1>3, <1>5, <1>6 DEF Stays
<1> QED
  BY <1>13, <1>5, <1>7, <1>8, <1>9, <1>10, <1>11, <1>12 DEF Good

\* The save n leaves, and may be the last.
LEMMA ReleaseGood ==
    ASSUME NEW s, NEW v, NEW al \in BOOLEAN, NEW n \in Saves, Good(s, v, al, {n})
    PROVE  /\ Good(s, Release(v, n), al, {n})
           /\ Release(v, n).up = v.up /\ Release(v, n).regs[n] = {}
           /\ Release(v, n).durable = v.durable /\ Release(v, n).unsure = v.unsure
           /\ Release(v, n).reply = v.reply /\ Stays(v, Release(v, n), {})
<1> DEFINE w == [v EXCEPT !.regs[n] = {}]
           k == [a \in Actors |-> IF a \in Stranded(w) THEN Ended(a) ELSE w.calls[a]]
           x == [w EXCEPT !.calls = k]
<1>1. /\ Good(s, w, al, {n}) /\ w.regs[n] = {} /\ w.up = v.up
      /\ w.durable = v.durable /\ w.unsure = v.unsure /\ w.reply = v.reply
      /\ w.calls = v.calls
  <2>1. w = Registered(v, n, {})
    BY DEF Registered
  <2> HIDE DEF w
  <2>2. MayHold(v, n, {})
    BY DEF MayHold
  <2>3. /\ Good(s, Registered(v, n, {}), al, {n}) /\ Registered(v, n, {}).regs[n] = {}
        /\ Registered(v, n, {}).up = v.up
        /\ Registered(v, n, {}).durable = v.durable /\ Registered(v, n, {}).unsure = v.unsure
        /\ Registered(v, n, {}).reply = v.reply /\ Registered(v, n, {}).calls = v.calls
    BY <2>2, Registering, SMTT(30)
  <2> QED
    BY <2>1, <2>3
<1>2. Release(v, n) = IF Live(w) = {} THEN Drained(w) ELSE w
  BY DEF Release
<1>3. Drained(w) = IF x.waits = <<>> THEN x ELSE Fence(x)
  BY DEF Drained
<1> HIDE DEF w
<1>4. /\ Good(s, x, al, {n}) /\ x.up = w.up /\ x.regs = w.regs /\ x.durable = w.durable
      /\ x.unsure = w.unsure /\ x.reply = w.reply /\ Stays(w, x, {})
  BY <1>1, StrandedGood
<1> HIDE DEF x
<1>5. Live(x) = Live(w)
  BY <1>4 DEF Live
<1>6. CASE Live(w) # {}
  BY <1>1, <1>2, <1>6 DEF Stays
<1>7. CASE Live(w) = {} /\ x.waits = <<>>
  BY <1>1, <1>2, <1>3, <1>4, <1>7 DEF Stays
<1>8. CASE Live(w) = {} /\ x.waits # <<>>
  <2>1. {n} \in SUBSET Actors
    BY Numbers
  <2>2. /\ Good(s, Fence(x), al, {n}) /\ Fence(x).up = x.up /\ Fence(x).regs = x.regs
        /\ Fence(x).durable = x.durable /\ Fence(x).unsure = x.unsure
        /\ Fence(x).reply = x.reply /\ Stays(x, Fence(x), {n})
    BY <2>1, <1>4, <1>5, <1>8, FenceGood
  <2>3. Release(v, n) = Fence(x)
    BY <1>2, <1>3, <1>8
  <2>4. Stays(v, Fence(x), {})
    <3>1. \A c \in Calls : c \notin {n}
      BY Numbers
    <3> QED
      BY <3>1, <2>2, <1>1, <1>4 DEF Stays
  <2> QED
    BY <2>2, <2>3, <2>4, <1>1, <1>4
<1> QED
  BY <1>6, <1>7, <1>8

\* A call learns of the operation that closes the task, or begins its own.
LEMMA BeginGood ==
    ASSUME NEW s, NEW v, NEW al \in BOOLEAN, NEW c \in Calls, Good(s, v, al, {c}), v.up,
           Doc(s), c = Merge => s.merge \in {"merged", "completed"}
    PROVE  /\ Good(s, Begin(v, c), al, {})
           /\ Begin(v, c).durable = v.durable /\ Begin(v, c).unsure = v.unsure
           /\ Begin(v, c).up = v.up /\ Begin(v, c).reply = v.reply
           /\ Stays(v, Begin(v, c), {c})
           /\ Begin(v, c).calls[c].pc \in {"drain", "reserve", "activate"} \cup Over
<1> DEFINE known == IF v.durable # NoOp THEN v.durable
                    ELSE IF v.fence # NoOp THEN v.fence ELSE v.drain
           op == IF known = NoOp THEN c ELSE known
           w == [v EXCEPT !.calls[c].op = op]
           joined == [At(w, c, "drain") EXCEPT !.drain = op, !.waits = Append(@, c)]
<1>1. Begin(v, c) = IF c = Merge /\ op # c THEN End(w, c)
                    ELSE IF v.durable # NoOp \/ v.fence # NoOp THEN Queue(w, c, Asks(c))
                    ELSE IF Live(v) = {} THEN Fence(joined) ELSE joined
  BY DEF Begin
<1>0. /\ v \in Servers /\ v.calls \in [Actors -> CallType] /\ Calls \subseteq Actors
      /\ Merge \in Calls /\ Calls \cap Saves = {} /\ c \notin Saves /\ v.calls[c] \in CallType
      /\ \A d \in {v.durable, v.fence, v.drain} : d \in Ops
      /\ v.waits \in Seq(Calls) /\ v.line \in Seq(Actors)
  BY Numbers DEF Good, Typed, Servers
<1>2. /\ op \in Calls /\ known \in Ops
      /\ v.durable # NoOp => op = v.durable /\ v.fence = NoOp /\ v.drain = NoOp
      /\ v.durable = NoOp /\ v.fence # NoOp => op = v.fence /\ v.drain = NoOp
      /\ v.durable = NoOp /\ v.fence = NoOp /\ v.drain # NoOp => op = v.drain
      /\ v.durable = NoOp /\ v.fence = NoOp /\ v.drain = NoOp => op = c
  BY <1>0 DEF Ops, Good, Indexed
<1>3. op = Merge => s.merge \in {"merged", "completed"}
  BY <1>2 DEF Good, Shown
<1>4. op # NoOp /\ op \in Ops
  BY <1>2, Numbers DEF Ops
<1> HIDE DEF known, op
<1> DEFINE k == [v.calls EXCEPT ![c] = [v.calls[c] EXCEPT !.op = op]]
<1>11. /\ k[c] = [v.calls[c] EXCEPT !.op = op] /\ k \in [Actors -> CallType]
       /\ \A b \in Actors \ {c} : k[b] = v.calls[b]
  <2>1. [v.calls[c] EXCEPT !.op = op] \in CallType
    BY <1>0, <1>4 DEF CallType
  <2> QED
    BY <1>0, <2>1
<1>12. w = [v EXCEPT !.calls = k]
  OBVIOUS
<1> HIDE DEF k, w
<1>6. /\ w \in Servers /\ w.up = v.up /\ w.line = v.line /\ w.regs = v.regs
      /\ w.durable = v.durable /\ w.fence = v.fence /\ w.drain = v.drain /\ w.waits = v.waits
      /\ w.state = v.state /\ w.rec = v.rec /\ w.unsure = v.unsure /\ w.reply = v.reply
      /\ w.ready = v.ready /\ w.calls = k
  BY <1>0, <1>11, <1>12 DEF Servers
<1>5. /\ w.calls[c] = [v.calls[c] EXCEPT !.op = op] /\ w.calls \in [Actors -> CallType]
      /\ \A b \in Actors \ {c} : w.calls[b] = v.calls[b]
  BY <1>6, <1>11
<1>7. w.calls[c].op = op /\ w.calls[c].pc = v.calls[c].pc /\ w.calls[c].rec = v.calls[c].rec
  BY <1>0, <1>5 DEF CallType
<1>8. ASSUME c # Merge \/ op = c, v.drain = NoOp \/ op = v.drain
      PROVE  v.fence = NoOp \/ op = v.fence => Good(s, w, al, {c})
  <2>1. Typed(w, {c}) /\ Lined(w, {c})
    BY <1>0, <1>5, <1>6, <1>7, <1>8 DEF Good, Typed, Lined
  <2>2. Range(v.waits) \subseteq Calls
    BY <1>0, RangeIs
  <2>3. Indexed(w, {c})
    BY <2>2, <1>0, <1>5, <1>6 DEF Good, Indexed
  <2>4. Fenced(w, {c})
    <3>1. Live(w) = Live(v)
      BY <1>6 DEF Live
    <3> QED
      BY <3>1, <1>0, <1>5, <1>6, Numbers DEF Good, Fenced
  <2>5. Alone(w, al, {c})
    BY <1>0, <1>5, <1>6 DEF Good, Alone, Flies
  <2>6. ASSUME v.fence = NoOp \/ op = v.fence
        PROVE  Shown(s, w, {c})
    <3>1. \A b \in Calls : w.calls[b].op = Merge => s.merge \in {"merged", "completed"}
      BY <1>0, <1>3, <1>5, <1>7 DEF Good, Shown
    <3>2. w.fence # NoOp => \E b \in Calls : b \in {c} /\ w.calls[b].op = w.fence
      BY <2>6, <1>6, <1>7
    <3> QED
      BY <3>1, <3>2, <1>0, <1>5, <1>6 DEF Good, Shown
  <2> QED
    BY <2>1, <2>3, <2>4, <2>5, <2>6 DEF Good
<1>9. CASE c = Merge /\ op # c
  <2>1. Begin(v, c) = End(w, c)
    BY <1>1, <1>9 DEF w
  <2>2. End(w, c) = End(v, c)
    <3>1. [w.calls EXCEPT ![c] = Ended(c)] = [v.calls EXCEPT ![c] = Ended(c)]
      BY <1>0, <1>5
    <3>2. End(w, c) = [w EXCEPT !.calls = [v.calls EXCEPT ![c] = Ended(c)]]
      BY <3>1 DEF End
    <3>3. \A m : [w EXCEPT !.calls = m] = [v EXCEPT !.calls = m]
      BY <1>0, <1>12 DEF Servers
    <3>4. [w EXCEPT !.calls = [v.calls EXCEPT ![c] = Ended(c)]]
             = [v EXCEPT !.calls = [v.calls EXCEPT ![c] = Ended(c)]]
      BY <3>3
    <3> QED
      BY <3>2, <3>4 DEF End
  <2>3. Free(s, v, c)
    BY <1>9, <1>0, Numbers DEF Free, Doc, Taken
  <2>4. /\ Good(s, End(v, c), al, {}) /\ Moves(v, End(v, c))
        /\ Stays(v, End(v, c), {c}) /\ End(v, c).calls[c].pc \in Over
    BY <2>3, EndGood
  <2> QED
    BY <2>1, <2>2, <2>4 DEF Moves
<1>10. CASE ~(c = Merge /\ op # c) /\ (v.durable # NoOp \/ v.fence # NoOp)
  <2>1. Begin(v, c) = Queue(w, c, Asks(c))
    BY <1>1, <1>10 DEF w
  <2>2. Good(s, w, al, {c})
    BY <1>2, <1>8, <1>10
  <2>3. Asks(c) \in Queued /\ Asks(c) \in PcsOf(c) \ {"drain"} /\ Asks(c) \notin Cleanup
        /\ Asks(c) \in {"reserve", "activate"} /\ (Asks(c) = "activate" => c = Merge)
    BY <1>0 DEF Asks, Queued, PcsOf, MergePcs, RemovalPcs, Cleanup
  <2>4. w.durable # NoOp \/ w.fence = op
    BY <1>2, <1>6, <1>10
  <2>5. Fits(s, w, al, c, Asks(c))
    BY <2>3, <2>4, <1>0, <1>4, <1>6, <1>7, <1>10 DEF Fits, Cleanup
  <2>6. /\ Good(s, Queue(w, c, Asks(c)), al, {}) /\ Moves(w, Queue(w, c, Asks(c)))
        /\ Queue(w, c, Asks(c)).calls[c].pc = Asks(c) /\ Stays(w, Queue(w, c, Asks(c)), {c})
    BY <2>2, <2>3, <2>5, <1>0, QueueGood
  <2>7. Stays(v, Queue(w, c, Asks(c)), {c})
    BY <2>6, <1>0, <1>5 DEF Stays
  <2> QED
    BY <2>1, <2>3, <2>6, <2>7, <1>6 DEF Moves
<1>13. CASE ~(c = Merge /\ op # c) /\ v.durable = NoOp /\ v.fence = NoOp
  <2>1. Begin(v, c) = IF Live(v) = {} THEN Fence(joined) ELSE joined
    BY <1>1, <1>13 DEF w
  <2> DEFINE t == [w.calls EXCEPT ![c].pc = "drain"]
             q == Append(v.waits, c)
  <2>2. joined = [w EXCEPT !.calls = t, !.drain = op, !.waits = q]
    <3>1. At(w, c, "drain") = [w EXCEPT !.calls = t]
      BY DEF At
    <3>2. [w EXCEPT !.calls = t].waits = v.waits
      BY <1>6 DEF Servers
    <3> HIDE DEF t
    <3>3. joined = [[w EXCEPT !.calls = t] EXCEPT !.drain = op, !.waits = q]
      BY <3>1, <3>2
    <3> QED
      BY <3>3, <1>6 DEF Servers
  <2>3. "drain" \in Pcs /\ "drain" \in PcsOf(c)
    BY <1>0 DEF Pcs, RemovalPcs, MergePcs, PcsOf
  <2>4. w.calls[c] \in CallType
    BY <1>0, <1>5
  <2>5. /\ t \in [Actors -> CallType] /\ t[c].pc = "drain" /\ t[c].op = op
        /\ \A b \in Actors \ {c} : t[b] = v.calls[b]
    <3>1. /\ [w.calls[c] EXCEPT !.pc = "drain"] \in CallType
          /\ [w.calls[c] EXCEPT !.pc = "drain"].pc = "drain"
          /\ [w.calls[c] EXCEPT !.pc = "drain"].op = op
      BY <2>3, <2>4, <1>7 DEF CallType
    <3> QED
      BY <3>1, <1>0, <1>5
  <2>6. c \notin Range(v.waits) /\ Range(v.waits) \subseteq Calls /\ Distinct(v.waits)
    BY <1>0, RangeIs DEF Good, Indexed
  <2>7. /\ q \in Seq(Calls) /\ q # <<>> /\ Range(q) = Range(v.waits) \cup {c} /\ Distinct(q)
    BY <2>6, <1>0, Stands
  <2> HIDE DEF t, q, joined
  <2>8. /\ joined \in Servers /\ joined.up = v.up /\ joined.line = v.line /\ joined.regs = v.regs
        /\ joined.durable = v.durable /\ joined.fence = v.fence /\ joined.drain = op
        /\ joined.waits = q /\ joined.state = v.state /\ joined.rec = v.rec
        /\ joined.unsure = v.unsure /\ joined.reply = v.reply /\ joined.calls = t
    BY <2>2, <2>5, <2>7, <1>4, <1>6 DEF Servers
  <2>9. Typed(joined, {})
    <3>1. \A a \in Actors : t[a].pc \in PcsOf(a)
      BY <2>3, <2>5 DEF Good, Typed
    <3>2. t[Merge].op \in {Merge, NoOp}
      BY <2>5, <1>0, <1>13 DEF Good, Typed
    <3> QED
      BY <3>1, <3>2, <2>8 DEF Typed
  <2>10. Lined(joined, {})
    BY <2>5, <2>8 DEF Good, Lined, Queued
  <2>11. Indexed(joined, {})
    <3>1. \A b \in Range(q) : t[b].pc = "drain" /\ t[b].op = op
      <4>1. \A b \in Range(v.waits) : v.drain = op /\ b # c /\ t[b] = v.calls[b]
        <5>1. Range(v.waits) # {} => v.drain # NoOp
          BY <1>0, RangeIs DEF Good, Indexed
        <5> QED
          BY <5>1, <2>5, <2>6, <1>0, <1>2, <1>13
      <4> QED
        BY <4>1, <2>5, <2>7 DEF Good, Indexed
    <3>2. \A b \in Calls : t[b].pc \in {"drain", "reserve", "activate"} => t[b].op # NoOp
      BY <2>5, <1>0, <1>4 DEF Good, Indexed
    <3>3. t[Merge].pc \in {"drain", "activate"} => t[Merge].op = Merge
      BY <2>5, <1>0, <1>13 DEF Good, Indexed
    <3> QED
      BY <3>1, <3>2, <3>3, <2>7, <2>8, <1>4, <1>13 DEF Indexed
  <2>12. Fenced(joined, {})
    <3>1. \A b \in Calls : t[b].pc \in Cleanup => v.durable # NoOp
      BY <2>5, <1>0 DEF Good, Fenced, Cleanup
    <3>2. \A n \in Saves : "active" \in v.regs[n] <=> t[n].pc \in Holding
      BY <2>5, Numbers DEF Good, Fenced
    <3> QED
      BY <3>1, <3>2, <2>8, <1>13 DEF Fenced
  <2>13. Shown(s, joined, {})
    <3>1. \A b \in Calls : t[b].op = Merge => s.merge \in {"merged", "completed"}
      BY <2>5, <1>0, <1>3 DEF Good, Shown
    <3>2. \A b \in Calls : /\ t[b].pc \in {"finalizing", "finalized"} => ~s.task
                           /\ t[b].pc = "step" => t[b].rec.steps < Steps
      BY <2>5, <1>0 DEF Good, Shown
    <3>3. joined.state = "removed" => ~s.task
      BY <2>8 DEF Good, Shown
    <3>4. Closing(joined.rec) => Taken(s)
      BY <2>8 DEF Good, Shown
    <3>5. joined.durable = NoOp /\ joined.fence = NoOp /\ joined.up /\ joined.state # "absent"
      BY <2>8, <1>13 DEF Good, Shown
    <3>6. Merge \in {joined.durable, joined.fence, joined.drain} => s.merge \in {"merged", "completed"}
      BY <3>5, <2>8, <1>3, Numbers
    <3> QED
      BY <3>1, <3>2, <3>3, <3>4, <3>5, <3>6, <2>8 DEF Shown
  <2>14. Alone(joined, al, {})
    <3> SUFFICES ASSUME al, Alone(v, al, {c}) PROVE Alone(joined, al, {})
      BY DEF Alone, Good
    <3>1. \A b \in Calls \ {c} : ~Flies(joined, b)
      BY <2>5, <2>8, <1>0 DEF Alone, Flies
    <3>2. joined.calls[c].pc = "drain" /\ joined.calls[c].op = joined.drain
      BY <2>5, <2>8
    <3> QED
      BY <3>1, <3>2 DEF Alone, Flies, Over
  <2>15. Good(s, joined, al, {})
    BY <2>9, <2>10, <2>11, <2>12, <2>13, <2>14 DEF Good
  <2>18. Stays(v, joined, {c}) /\ joined.calls[c].pc = "drain"
    BY <2>5, <2>8, <1>0 DEF Stays
  <2>16. CASE Live(v) # {}
    BY <2>1, <2>8, <2>15, <2>16, <2>18
  <2>17. CASE Live(v) = {}
    <3>1. Live(joined) = {}
      BY <2>8, <2>17 DEF Live
    <3>2. {} \in SUBSET Actors /\ joined.waits # <<>>
      BY <2>7, <2>8
    <3>3. /\ Good(s, Fence(joined), al, {}) /\ Fence(joined).up = joined.up
          /\ Fence(joined).durable = joined.durable /\ Fence(joined).unsure = joined.unsure
          /\ Fence(joined).reply = joined.reply /\ Stays(joined, Fence(joined), {})
      BY <3>1, <3>2, <2>15, FenceGood
    <3>4. Stays(v, Fence(joined), {c})
      BY <3>3, <2>18 DEF Stays
    <3>5. Fence(joined).calls[c].pc \in {"drain", "reserve", "activate"} \cup Over
      BY <3>3, <2>18 DEF Stays
    <3> QED
      BY <3>3, <3>4, <3>5, <2>1, <2>8, <2>17
  <2> QED
    BY <2>16, <2>17
<1> QED
  BY <1>9, <1>10, <1>13

-----------------------------------------------------------------------------
(* The turn of one actor: how it begins, and how it ends. *)

\* The actor a goes on, in a server whose document is s.
Turning(s, v, al, a) ==
    /\ Doc(s) /\ Good(s, v, al, {a}) /\ v.up /\ v.reply = "none" /\ Merging(s, v, {a})

\* The step is over.
Settled(s, w, al) ==
    Good(s, w, al, {}) /\ w.reply = "none" /\ Merging(s, w, {}) /\ Covered(s, w, al)

\* The merge's journal allows a to be at pc.
Suits(s, a, pc) == a = Merge => /\ s.merge \in MergeBefore(pc)
                                /\ pc = "fail" => s.rec.op # Merge

\* The journal of the merge still suits its workflow when another actor has moved.
LEMMA MergingKept ==
    ASSUME NEW s, NEW v, NEW w, NEW al \in BOOLEAN, NEW a \in Actors,
           Doc(s), Good(s, w, al, {}), Merging(s, v, {a}), Stays(v, w, {a}),
           Suits(s, a, w.calls[a].pc)
    PROVE  Merging(s, w, {})
<1>1. CASE a = Merge
  BY <1>1 DEF Merging, Suits
<1>2. CASE a # Merge
  <2>1. w.calls[Merge].pc \in {v.calls[Merge].pc, "reserve", "activate"} \cup Over
    BY <1>2, Numbers DEF Stays
  <2>2. CASE w.calls[Merge].pc = v.calls[Merge].pc
    BY <1>2, <2>2 DEF Merging
  <2>3. CASE w.calls[Merge].pc = "activate"
    <3>1. s.merge \in {"merged", "completed"}
      BY <2>3, Numbers DEF Good, Indexed, Shown
    <3> QED
      BY <2>3, <3>1 DEF Merging, MergeBefore, Cleanup
  <2>4. CASE w.calls[Merge].pc \in {"reserve"} \cup Over
    BY <2>4 DEF Merging, MergeBefore, Cleanup, Over, Doc, Stores
  <2> QED
    BY <2>1, <2>2, <2>3, <2>4
<1> QED
  BY <1>1, <1>2

\* A turn may end at a place outside the storage.
LEMMA AtSettles ==
    ASSUME NEW s, NEW v, NEW al \in BOOLEAN, NEW a \in Actors, NEW pc \in Pcs \ Queued,
           Turning(s, v, al, a), Fits(s, v, al, a, pc), Covered(s, v, al), Suits(s, a, pc)
    PROVE  Settled(s, At(v, a, pc), al)
<1>1. /\ Good(s, At(v, a, pc), al, {}) /\ Moves(v, At(v, a, pc))
      /\ At(v, a, pc).calls[a].pc = pc /\ Stays(v, At(v, a, pc), {a})
  BY AtGood DEF Turning
<1> DEFINE w == At(v, a, pc)
<1> HIDE DEF w
<1>2. /\ Good(s, w, al, {}) /\ Moves(v, w) /\ w.calls[a].pc = pc /\ Stays(v, w, {a})
  BY <1>1 DEF w
<1>3. Merging(s, w, {})
  BY <1>2, MergingKept DEF Turning
<1> QED
  BY <1>2, <1>3 DEF Settled, Turning, Moves, Covered, w

\* A turn may end in line.
LEMMA QueueSettles ==
    ASSUME NEW s, NEW v, NEW al \in BOOLEAN, NEW a \in Actors, NEW pc \in Queued,
           Turning(s, v, al, a), Fits(s, v, al, a, pc), Covered(s, v, al), Suits(s, a, pc)
    PROVE  Settled(s, Queue(v, a, pc), al)
<1>1. /\ Good(s, Queue(v, a, pc), al, {}) /\ Moves(v, Queue(v, a, pc))
      /\ Queue(v, a, pc).calls[a].pc = pc /\ Stays(v, Queue(v, a, pc), {a})
  BY QueueGood DEF Turning
<1> DEFINE w == Queue(v, a, pc)
<1> HIDE DEF w
<1>2. /\ Good(s, w, al, {}) /\ Moves(v, w) /\ w.calls[a].pc = pc /\ Stays(v, w, {a})
  BY <1>1 DEF w
<1>3. Merging(s, w, {})
  BY <1>2, MergingKept DEF Turning
<1> QED
  BY <1>2, <1>3 DEF Settled, Turning, Moves, Covered, w

\* A turn may end the call.
LEMMA EndSettles ==
    ASSUME NEW s, NEW v, NEW al \in BOOLEAN, NEW c \in Calls,
           Turning(s, v, al, c), Free(s, v, c), Covered(s, v, al)
    PROVE  Settled(s, End(v, c), al)
<1>1. /\ Good(s, End(v, c), al, {}) /\ Moves(v, End(v, c))
      /\ End(v, c).calls[c].pc \in Over /\ Stays(v, End(v, c), {c})
  BY EndGood DEF Turning
<1> DEFINE w == End(v, c)
<1> HIDE DEF w
<1>2. /\ Good(s, w, al, {}) /\ Moves(v, w) /\ w.calls[c].pc \in Over /\ Stays(v, w, {c})
      /\ c \in Actors
  BY <1>1, Numbers DEF w
<1>3. Suits(s, c, w.calls[c].pc)
  BY <1>2 DEF Suits, MergeBefore, Cleanup, Over, Turning, Doc, Stores
<1>4. Merging(s, w, {})
  BY <1>2, <1>3, MergingKept DEF Turning
<1> QED
  BY <1>2, <1>4 DEF Settled, Turning, Moves, Covered, w

\* A turn may begin a removal: the merge does once git is done.
LEMMA BeginSettles ==
    ASSUME NEW s, NEW v, NEW al \in BOOLEAN, NEW c \in Calls, Turning(s, v, al, c),
           c = Merge => s.merge \in {"merged", "completed"}, Covered(s, v, al)
    PROVE  Settled(s, Begin(v, c), al)
<1> DEFINE w == Begin(v, c)
<1>1. /\ Good(s, w, al, {}) /\ w.durable = v.durable /\ w.unsure = v.unsure /\ w.up = v.up
      /\ w.reply = v.reply /\ Stays(v, w, {c})
      /\ w.calls[c].pc \in {"drain", "reserve", "activate"} \cup Over
  BY BeginGood, ZenonT(30) DEF Turning
<1> HIDE DEF w
<1>2. c \in Actors /\ Suits(s, c, w.calls[c].pc)
  BY <1>1, Numbers DEF Suits, MergeBefore, Cleanup, Over, Turning, Doc, Stores
<1>3. Merging(s, w, {})
  BY <1>1, <1>2, MergingKept DEF Turning
<1> QED
  BY <1>1, <1>3 DEF Settled, Turning, Covered, w

\* A caller whose turn has begun: it has left the line.
Turned(v) == [v EXCEPT !.line = Tail(v.line), !.reply = "none"]

\* The head that learns its outcome leaves the line and has its turn.
LEMMA Popped ==
    ASSUME NEW s, NEW v, NEW al \in BOOLEAN, Doc(s), Good(s, v, al, {}), v.up, v.line # <<>>,
           NEW h, h = Head(v.line), Merging(s, v, {h})
    PROVE  /\ Turning(s, Turned(v), al, h) /\ h \in Actors
           /\ v.calls[h].pc \in Queued \cap PcsOf(h) /\ Turned(v).calls = v.calls
           /\ Turned(v).durable = v.durable /\ Turned(v).fence = v.fence
           /\ Turned(v).unsure = v.unsure /\ Turned(v).regs = v.regs
<1>0. v \in Servers /\ v.line \in Seq(Actors) /\ Distinct(v.line)
  BY DEF Good, Typed, Lined, Servers
<1>1. /\ h \in Actors /\ h \in Range(v.line) /\ Tail(v.line) \in Seq(Actors)
      /\ Range(Tail(v.line)) = Range(v.line) \ {h} /\ Distinct(Tail(v.line))
  BY <1>0, Leaves
<1> DEFINE l == Tail(v.line)
           w == Turned(v)
<1>2. w = [v EXCEPT !.line = l, !.reply = "none"]
  BY DEF Turned
<1> HIDE DEF l, w
<1>3. /\ w \in Servers /\ w.up = v.up /\ w.line = l /\ w.regs = v.regs /\ w.calls = v.calls
      /\ w.durable = v.durable /\ w.fence = v.fence /\ w.drain = v.drain /\ w.waits = v.waits
      /\ w.state = v.state /\ w.rec = v.rec /\ w.unsure = v.unsure /\ w.reply = "none"
  BY <1>0, <1>1, <1>2 DEF Servers, Replies, l
<1>4. v.calls[h].pc \in Queued \cap PcsOf(h)
  BY <1>1 DEF Good, Lined, Typed
<1>5. Typed(w, {h}) /\ Lined(w, {h})
  BY <1>1, <1>3 DEF Good, Typed, Lined, l
<1>6. Indexed(w, {h})
  <2>1. Range(v.waits) \subseteq Calls
    BY <1>0, RangeIs DEF Servers
  <2> QED
    BY <2>1, <1>3, <1>4 DEF Good, Indexed, Queued
<1>7. Fenced(w, {h})
  BY <1>3 DEF Good, Fenced, Live
<1>8. Shown(s, w, {h})
  BY <1>3 DEF Good, Shown
<1>9. Alone(w, al, {h})
  <2>1. h \in Calls => Flies(v, h)
    BY <1>4 DEF Flies, Queued, Over
  <2> QED
    BY <2>1, <1>3 DEF Good, Alone, Flies
<1>10. Merging(s, w, {h})
  BY <1>3 DEF Merging
<1> QED
  BY <1>1, <1>3, <1>4, <1>5, <1>6, <1>7, <1>8, <1>9, <1>10 DEF Turning, Good, w

-----------------------------------------------------------------------------
(* What happens during a turn. *)

\* w is v with another record published, or another barrier, or more knowledge of a.
Tells(v, w, a) ==
    /\ w.up = v.up /\ w.line = v.line /\ w.regs = v.regs /\ w.unsure = v.unsure
    /\ w.durable = v.durable /\ w.fence = v.fence /\ w.drain = v.drain /\ w.waits = v.waits
    /\ w.reply = v.reply
    /\ \A b \in Actors \ {a} : w.calls[b] = v.calls[b]
    /\ w.calls[a].pc = v.calls[a].pc /\ w.calls[a].op = v.calls[a].op

\* Publishing and learning leave everyone in place.
LEMMA Telling ==
    ASSUME NEW s, NEW v, NEW w, NEW al \in BOOLEAN, NEW a \in Actors, Turning(s, v, al, a),
           w \in Servers, Tells(v, w, a),
           w.state = "removed" => ~s.task, Closing(w.rec) => Taken(s), w.state # "absent"
    PROVE  Turning(s, w, al, a)
<1>1. {a} \in SUBSET Actors
  OBVIOUS
<1>2. \A b \in Actors : w.calls[b].pc = v.calls[b].pc /\ w.calls[b].op = v.calls[b].op
  BY DEF Tells
<1>3. Good(s, w, al, {a})
  BY <1>1, <1>2, Showing, ZenonT(30) DEF Turning, Tells
<1>4. Merging(s, w, {a})
  BY <1>2, Numbers DEF Turning, Merging
<1> QED
  BY <1>3, <1>4 DEF Turning, Tells

\* Closing the barrier of the notes is part of a turn.
LEMMA DegradeTurns ==
    ASSUME NEW s, NEW v, NEW al \in BOOLEAN, NEW a \in Actors, Turning(s, v, al, a)
    PROVE  /\ Turning(s, Degrade(v), al, a) /\ Tells(v, Degrade(v), a)
           /\ Degrade(v).calls = v.calls
<1> DEFINE w == Degrade(v)
<1>1. v \in Servers /\ v.up /\ Shown(s, v, {a})
  BY DEF Turning, Good, Typed
<1>2. w \in Servers /\ Tells(v, w, a) /\ w.calls = v.calls /\ w.state = v.state /\ w.rec = v.rec
  BY <1>1 DEF Degrade, Servers, Tells
<1> HIDE DEF w
<1>3. Turning(s, w, al, a)
  BY <1>1, <1>2, Telling DEF Shown
<1> QED
  BY <1>2, <1>3 DEF w

\* So is publishing a record that the document bears out.
LEMMA PublishTurns ==
    ASSUME NEW s, NEW v, NEW al \in BOOLEAN, NEW a \in Actors, Turning(s, v, al, a),
           NEW rec \in Recs, NEW present \in BOOLEAN,
           Closing(rec) => Taken(s), ~present => ~s.task
    PROVE  /\ Turning(s, Publish(v, rec, present), al, a) /\ Tells(v, Publish(v, rec, present), a)
           /\ Publish(v, rec, present).calls = v.calls
<1> DEFINE w == Publish(v, rec, present)
           st == IF present THEN "present" ELSE "removed"
<1>1. v \in Servers /\ v.up /\ Shown(s, v, {a})
  BY DEF Turning, Good, Typed
<1>2. st \in {"absent", "present", "removed"} /\ st # "absent" /\ (st = "removed" => ~s.task)
  OBVIOUS
<1>3. w = [v EXCEPT !.rec = rec, !.state = st]
  BY DEF Publish
<1> HIDE DEF w, st
<1>4. w \in Servers /\ Tells(v, w, a) /\ w.calls = v.calls /\ w.state = st /\ w.rec = rec
  BY <1>1, <1>2, <1>3 DEF Servers, Tells
<1>5. Turning(s, w, al, a)
  BY <1>1, <1>2, <1>4, Telling
<1> QED
  BY <1>4, <1>5 DEF w

\* The call c learns of the record.
Learn(v, c, rec) == [v EXCEPT !.calls[c].rec = rec]

\* So is learning a record.
LEMMA LearnTurns ==
    ASSUME NEW s, NEW v, NEW al \in BOOLEAN, NEW c \in Calls, Turning(s, v, al, c),
           NEW rec \in Recs
    PROVE  /\ Turning(s, Learn(v, c, rec), al, c) /\ Tells(v, Learn(v, c, rec), c)
           /\ Learn(v, c, rec).calls[c].rec = rec
<1> DEFINE w == Learn(v, c, rec)
           k == [v.calls EXCEPT ![c] = [v.calls[c] EXCEPT !.rec = rec]]
<1>1. /\ v \in Servers /\ v.up /\ Shown(s, v, {c}) /\ c \in Actors
      /\ v.calls \in [Actors -> CallType] /\ v.calls[c] \in CallType
  BY Numbers DEF Turning, Good, Typed, Servers
<1>2. /\ [v.calls[c] EXCEPT !.rec = rec] \in CallType
      /\ [v.calls[c] EXCEPT !.rec = rec].pc = v.calls[c].pc
      /\ [v.calls[c] EXCEPT !.rec = rec].op = v.calls[c].op
      /\ [v.calls[c] EXCEPT !.rec = rec].rec = rec
  BY <1>1 DEF CallType
<1>3. /\ k \in [Actors -> CallType] /\ \A b \in Actors \ {c} : k[b] = v.calls[b]
      /\ k[c].pc = v.calls[c].pc /\ k[c].op = v.calls[c].op /\ k[c].rec = rec
  BY <1>1, <1>2
<1>4. w = [v EXCEPT !.calls = k]
  BY DEF Learn
<1> HIDE DEF w, k
<1>5. /\ w \in Servers /\ Tells(v, w, c) /\ w.calls = k /\ w.state = v.state /\ w.rec = v.rec
  BY <1>1, <1>3, <1>4 DEF Servers, Tells
<1>6. Turning(s, w, al, c)
  BY <1>1, <1>5, Telling DEF Shown
<1> QED
  BY <1>3, <1>5, <1>6 DEF w

\* So is giving back a registration, although it may fence the task for others.
LEMMA ReleaseTurns ==
    ASSUME NEW s, NEW v, NEW al \in BOOLEAN, NEW n \in Saves, Turning(s, v, al, n)
    PROVE  /\ Turning(s, Release(v, n), al, n) /\ "active" \notin Release(v, n).regs[n]
           /\ Release(v, n).durable = v.durable /\ Release(v, n).unsure = v.unsure
           /\ Release(v, n).up = v.up
<1> DEFINE w == Release(v, n)
<1>1. /\ Good(s, w, al, {n}) /\ w.up = v.up /\ w.regs[n] = {} /\ w.durable = v.durable
      /\ w.unsure = v.unsure /\ w.reply = v.reply /\ Stays(v, w, {})
  <2>1. Good(s, v, al, {n})
    BY DEF Turning
  <2>2. /\ Good(s, Release(v, n), al, {n})
        /\ Release(v, n).up = v.up /\ Release(v, n).regs[n] = {}
        /\ Release(v, n).durable = v.durable /\ Release(v, n).unsure = v.unsure
        /\ Release(v, n).reply = v.reply /\ Stays(v, Release(v, n), {})
    BY <2>1, ReleaseGood, SMTT(30)
  <2> QED
    BY <2>2
<1> HIDE DEF w
<1>2. Merging(s, w, {n})
  <2>1. n # Merge
    BY Numbers
  <2>2. w.calls[Merge].pc \in {v.calls[Merge].pc, "reserve", "activate"} \cup Over
    BY <1>1, Numbers DEF Stays
  <2>3. CASE w.calls[Merge].pc = v.calls[Merge].pc
    BY <2>1, <2>3 DEF Merging, Turning
  <2>4. CASE w.calls[Merge].pc = "activate"
    <3>1. s.merge \in {"merged", "completed"}
      BY <2>1, <2>4, <1>1, Numbers DEF Good, Indexed, Shown
    <3> QED
      BY <2>4, <3>1 DEF Merging, MergeBefore, Cleanup
  <2>5. CASE w.calls[Merge].pc \in {"reserve"} \cup Over
    BY <2>5 DEF Merging, MergeBefore, Cleanup, Over, Turning, Doc, Stores
  <2> QED
    BY <2>2, <2>3, <2>4, <2>5
<1> QED
  BY <1>1, <1>2 DEF Turning, w

\* So is keeping a registration for an outcome that is not known.
LEMMA RetainTurns ==
    ASSUME NEW s, NEW v, NEW al \in BOOLEAN, NEW n \in Saves, Turning(s, v, al, n),
           "active" \in v.regs[n], NEW as \in {"host", "retry"}
    PROVE  /\ Turning(s, Retain(v, n, as), al, n) /\ "active" \notin Retain(v, n, as).regs[n]
           /\ Retain(v, n, as).durable = v.durable /\ Retain(v, n, as).unsure = v.unsure
           /\ Retain(v, n, as).up = v.up
<1> DEFINE set == (v.regs[n] \ {"active"}) \cup {as}
           w == Retain(v, n, as)
<1>2. n \in Live(v) /\ v.regs[n] \subseteq {"active", "host", "retry"} /\ Good(s, v, al, {n})
  BY DEF Live, Turning, Good, Typed, Servers
<1>3. MayHold(v, n, set) /\ "active" \notin set
  BY <1>2 DEF MayHold
<1> HIDE DEF set, w
<1>4. /\ Good(s, Registered(v, n, set), al, {n}) /\ Registered(v, n, set).regs[n] = set
      /\ Registered(v, n, set).calls = v.calls /\ Registered(v, n, set).up = v.up
      /\ Registered(v, n, set).reply = v.reply
      /\ Registered(v, n, set).durable = v.durable /\ Registered(v, n, set).unsure = v.unsure
  BY <1>2, <1>3, Registering
<1>5. w = Registered(v, n, set)
  BY DEF w, Retain, Registered, set
<1>6. Merging(s, w, {n})
  BY <1>4, <1>5 DEF Merging, Turning
<1> QED
  BY <1>3, <1>4, <1>5, <1>6 DEF Turning, w

-----------------------------------------------------------------------------
(* What a caller does with the outcome. *)

\* Where a save may go.
LEMMA SaveFits ==
    ASSUME NEW s, NEW v, NEW al, NEW n \in Saves, v.up, NEW pc \in SavePcs,
           "active" \in v.regs[n] <=> pc \in Holding
    PROVE  Fits(s, v, al, n, pc) /\ Suits(s, n, pc)
  BY Numbers DEF Fits, Suits, PcsOf, SavePcs, Holding

\* A save without an active registration can be answered.
LEMMA AnswerSettles ==
    ASSUME NEW v, NEW n \in Saves, alone \in BOOLEAN, Turning(store, v, alone, n),
           Covered(store, v, alone), "active" \notin v.regs[n]
    PROVE  Settled(store, Answer(v, n), alone)
<1>1. v.up /\ n \in Actors
  BY Numbers DEF Turning
<1>2. /\ Fits(store, v, alone, n, "read") /\ Suits(store, n, "read")
      /\ Fits(store, v, alone, n, "idle") /\ Suits(store, n, "idle")
  <2>1. /\ "read" \in SavePcs /\ "idle" \in SavePcs
        /\ "read" \notin Holding /\ "idle" \notin Holding
    BY DEF SavePcs, Holding
  <2> QED
    BY <2>1, <1>1, SaveFits
<1>3. "read" \in Queued /\ "idle" \in Pcs \ Queued
  BY DEF Queued, Pcs, RemovalPcs
<1>4. Settled(store, Queue(v, n, "read"), alone)
  BY <1>1, <1>2, <1>3, QueueSettles
<1>5. Settled(store, At(v, n, "idle"), alone)
  BY <1>1, <1>2, <1>3, AtSettles
<1> QED
  BY <1>4, <1>5 DEF Answer

\* It can also end.
LEMMA IdleSettles ==
    ASSUME NEW v, NEW n \in Saves, alone \in BOOLEAN, Turning(store, v, alone, n),
           Covered(store, v, alone), "active" \notin v.regs[n]
    PROVE  Settled(store, At(v, n, "idle"), alone)
<1>1. v.up /\ n \in Actors
  BY Numbers DEF Turning
<1>2. "idle" \in SavePcs /\ "idle" \notin Holding /\ "idle" \in Pcs \ Queued
  BY DEF SavePcs, Holding, Queued, Pcs, RemovalPcs
<1>3. Fits(store, v, alone, n, "idle") /\ Suits(store, n, "idle")
  BY <1>1, <1>2, SaveFits
<1> QED
  BY <1>1, <1>2, <1>3, AtSettles

\* Whatever a save learns, it gives its registration back, keeps it as retained, or writes on.
LEMMA SaveGoesOnSettles ==
    ASSUME NEW v, NEW n \in Saves, NEW pc \in Holding, NEW reply \in Replies,
           alone \in BOOLEAN, Turning(store, v, alone, n), Covered(store, v, alone),
           "active" \in v.regs[n]
    PROVE  Settled(store, SaveGoesOn(v, n, pc, reply), alone)
<1> DEFINE released == Release(v, n)
           degraded == Degrade(v)
           host == Retain(v, n, "host")
           retry == Retain(v, n, "retry")
<1>1. n \in Actors /\ v.up
  BY Numbers DEF Turning
<1>2. \A x : Turning(store, x, alone, n) /\ Covered(store, x, alone) =>
         Settled(store, At(Release(x, n), n, "idle"), alone)
  <2> SUFFICES ASSUME NEW x, Turning(store, x, alone, n), Covered(store, x, alone)
               PROVE  Settled(store, At(Release(x, n), n, "idle"), alone)
    OBVIOUS
  <2> DEFINE w == Release(x, n)
  <2>1. /\ Turning(store, w, alone, n) /\ "active" \notin w.regs[n]
        /\ w.durable = x.durable /\ w.unsure = x.unsure /\ w.up = x.up
    BY ReleaseTurns
  <2> HIDE DEF w
  <2>2. Covered(store, w, alone)
    BY <2>1 DEF Covered
  <2>3. Settled(store, At(w, n, "idle"), alone)
    BY <2>1, <2>2, IdleSettles
  <2> QED
    BY <2>3 DEF w
<1>3. CASE reply = "unsure"
  <2>1. /\ Turning(store, host, alone, n) /\ "active" \notin host.regs[n]
        /\ host.durable = v.durable /\ host.unsure = v.unsure /\ host.up = v.up
    BY RetainTurns
  <2> HIDE DEF host
  <2>2. Turning(store, Degrade(host), alone, n) /\ Tells(host, Degrade(host), n)
    BY <2>1, DegradeTurns, <1>1
  <2>3. Covered(store, Degrade(host), alone) /\ "active" \notin Degrade(host).regs[n]
    BY <2>1, <2>2 DEF Covered, Tells
  <2>4. Settled(store, At(Degrade(host), n, "idle"), alone)
    BY <2>2, <2>3, IdleSettles
  <2>5. SaveGoesOn(v, n, pc, reply) = At(Degrade(host), n, "idle")
    BY <1>3 DEF SaveGoesOn, host
  <2> QED
    BY <2>4, <2>5
<1>4. CASE reply # "unsure" /\ pc = "admit" /\ reply = "ok" /\ store.saves[n] = "admitted"
  <2>1. SaveGoesOn(v, n, pc, reply) = Queue(v, n, "write")
    BY <1>4 DEF SaveGoesOn
  <2>2. "write" \in SavePcs /\ "write" \in Holding /\ "write" \in Queued
    BY DEF SavePcs, Holding, Queued
  <2>3. Fits(store, v, alone, n, "write") /\ Suits(store, n, "write")
    BY <1>1, <2>2, SaveFits
  <2> QED
    BY <2>1, <2>2, <2>3, <1>1, QueueSettles
<1>5. CASE pc = "write" /\ reply = "refused"
  <2>1. SaveGoesOn(v, n, pc, reply) = Queue(v, n, "window")
    BY <1>5 DEF SaveGoesOn
  <2>2. "window" \in SavePcs /\ "window" \in Holding /\ "window" \in Queued
    BY DEF SavePcs, Holding, Queued
  <2>3. Fits(store, v, alone, n, "window") /\ Suits(store, n, "window")
    BY <1>1, <2>2, SaveFits
  <2> QED
    BY <2>1, <2>2, <2>3, <1>1, QueueSettles
<1>6. CASE pc = "window" /\ reply = "refused"
  <2>1. SaveGoesOn(v, n, pc, reply) = At(retry, n, "idle")
    BY <1>6 DEF SaveGoesOn
  <2>2. /\ Turning(store, retry, alone, n) /\ "active" \notin retry.regs[n]
        /\ retry.durable = v.durable /\ retry.unsure = v.unsure /\ retry.up = v.up
    BY RetainTurns
  <2> HIDE DEF retry
  <2>3. Covered(store, retry, alone)
    BY <2>2 DEF Covered
  <2> QED
    BY <2>1, <2>2, <2>3, IdleSettles
<1>7. CASE reply = "threw"
  <2>1. SaveGoesOn(v, n, pc, reply) = At(Release(degraded, n), n, "idle")
    BY <1>7 DEF SaveGoesOn, Holding
  <2>2. Turning(store, degraded, alone, n) /\ Tells(v, degraded, n)
    BY <1>1, DegradeTurns
  <2> HIDE DEF degraded
  <2>3. Covered(store, degraded, alone)
    BY <2>2 DEF Covered, Tells
  <2>4. Settled(store, At(Release(degraded, n), n, "idle"), alone)
    BY <2>2, <2>3, <1>2
  <2>5. SaveGoesOn(v, n, pc, reply) = At(Release(degraded, n), n, "idle")
    BY <2>1 DEF degraded
  <2> QED
    BY <2>4, <2>5
<1>8. CASE pc # "window" /\ reply = "ok" /\ store.saves[n] = "terminal"
  <2>1. SaveGoesOn(v, n, pc, reply) = Answer(released, n)
    BY <1>8 DEF SaveGoesOn
  <2>2. /\ Turning(store, released, alone, n) /\ "active" \notin released.regs[n]
        /\ released.durable = v.durable /\ released.unsure = v.unsure /\ released.up = v.up
    BY ReleaseTurns
  <2> HIDE DEF released
  <2>3. Covered(store, released, alone)
    BY <2>2 DEF Covered
  <2> QED
    BY <2>1, <2>2, <2>3, AnswerSettles
<1>9. CASE /\ reply # "unsure" /\ reply # "threw"
           /\ ~(pc = "admit" /\ reply = "ok" /\ store.saves[n] = "admitted")
           /\ ~(pc = "write" /\ reply = "refused") /\ ~(pc = "window" /\ reply = "refused")
           /\ ~(pc # "window" /\ reply = "ok" /\ store.saves[n] = "terminal")
  <2>1. SaveGoesOn(v, n, pc, reply) = At(Release(v, n), n, "idle")
    BY <1>9 DEF SaveGoesOn
  <2> QED
    BY <2>1, <1>2
<1> QED
  BY <1>3, <1>4, <1>5, <1>6, <1>7, <1>8, <1>9

\* The read of an answer changes the barrier at most.
LEMMA ReadGoesOnSettles ==
    ASSUME NEW v, NEW n \in Saves, NEW reply \in Replies,
           alone \in BOOLEAN, Turning(store, v, alone, n), Covered(store, v, alone),
           "active" \notin v.regs[n]
    PROVE  Settled(store, ReadGoesOn(v, n, reply), alone)
<1> DEFINE degraded == Degrade(v)
<1>1. n \in Actors
  BY Numbers
<1>2. Turning(store, degraded, alone, n) /\ Tells(v, degraded, n)
  BY <1>1, DegradeTurns
<1>3. ReadGoesOn(v, n, reply) = At(IF reply = "ok" THEN v ELSE degraded, n, "idle")
  BY DEF ReadGoesOn
<1> HIDE DEF degraded
<1>4. Covered(store, degraded, alone) /\ "active" \notin degraded.regs[n]
  BY <1>2 DEF Covered, Tells
<1>5. Settled(store, At(v, n, "idle"), alone)
  BY IdleSettles
<1>6. Settled(store, At(degraded, n, "idle"), alone)
  BY <1>2, <1>4, IdleSettles
<1> QED
  BY <1>3, <1>5, <1>6

\* The merge frees the index, because git has done it by the time it is in it.
LEMMA MergeIsFree ==
    ASSUME NEW s, NEW v, NEW al, NEW X, Doc(s), Good(s, v, al, X)
    PROVE  Free(s, v, Merge)
<1>1. v.calls[Merge].op \in {Merge, NoOp}
  BY DEF Good, Typed
<1>2. v.calls[Merge].op = Merge => s.merge \in {"merged", "completed"}
  BY Numbers DEF Good, Shown
<1> QED
  BY <1>1, <1>2 DEF Free, Doc, Taken

\* A call that a durable record closes the task for.
LEMMA CleanupFits ==
    ASSUME NEW s, NEW v, NEW al \in BOOLEAN, NEW c \in Calls, Turning(s, v, al, c),
           v.durable # NoOp, c = Merge => s.merge \in {"merged", "completed"},
           NEW pc \in Cleanup \cup {"conclude"}, pc = "conclude" => c = Merge,
           pc \in {"finalizing", "finalized"} => ~s.task,
           pc = "step" => v.calls[c].rec.steps < Steps
    PROVE  /\ Fits(s, v, al, c, pc) /\ Suits(s, c, pc) /\ Covered(s, v, al) /\ Free(s, v, c)
           /\ c \in Actors
<1>1. v.fence = NoOp
  BY DEF Turning, Good, Indexed
<1>2. c \notin Saves /\ c \in Actors
  BY Numbers
<1>3. pc \in PcsOf(c) /\ pc \notin {"drain", "reserve", "activate", "fail"}
  BY <1>2 DEF PcsOf, MergePcs, RemovalPcs, Cleanup
<1>4. Fits(s, v, al, c, pc)
  BY <1>1, <1>2, <1>3 DEF Fits, Free, Turning
<1>5. Suits(s, c, pc)
  BY <1>3 DEF Suits, MergeBefore, Cleanup
<1> QED
  BY <1>1, <1>2, <1>4, <1>5 DEF Free, Covered

\* The removal goes on from a record that closes the task or has removed it.
LEMMA ProceedSettles ==
    ASSUME NEW s, NEW v, NEW al \in BOOLEAN, NEW c \in Calls, Turning(s, v, al, c),
           v.durable # NoOp, c = Merge => s.merge \in {"merged", "completed"},
           NEW rec \in Recs, rec.phase = "committed" => ~s.task
    PROVE  Settled(s, Proceed(v, c, rec), al)
<1> DEFINE w == Learn(v, c, rec)
<1>1. Turning(s, w, al, c) /\ Tells(v, w, c)
  BY LearnTurns
<1>2. Proceed(v, c, rec) =
         CASE rec.phase = "reserved" -> At(w, c, "cleaning")
           [] rec.phase = "cleaned" -> Queue(w, c, "commit")
           [] rec.phase = "committed" -> At(w, c, "finalizing")
           [] rec.phase = "complete" /\ c = Merge -> Queue(w, c, "conclude")
           [] OTHER -> End(w, c)
  BY DEF Proceed, Learn
<1> HIDE DEF w
<1>3. w.durable # NoOp
  BY <1>1 DEF Tells
<1>4. /\ {"cleaning", "commit", "finalizing"} \subseteq Cleanup
      /\ {"cleaning", "finalizing"} \subseteq Pcs \ Queued
      /\ {"commit", "conclude"} \subseteq Queued
  BY DEF Cleanup, Queued, Pcs, RemovalPcs
<1>5. Settled(s, End(w, c), al) /\ Settled(s, At(w, c, "cleaning"), al)
  <2>1. /\ Fits(s, w, al, c, "cleaning") /\ Suits(s, c, "cleaning") /\ Covered(s, w, al)
        /\ Free(s, w, c) /\ c \in Actors
    BY <1>1, <1>3, <1>4, CleanupFits
  <2> QED
    BY <2>1, <1>1, <1>4, EndSettles, AtSettles
<1>6. Settled(s, Queue(w, c, "commit"), al)
  <2>1. /\ Fits(s, w, al, c, "commit") /\ Suits(s, c, "commit") /\ Covered(s, w, al)
        /\ c \in Actors
    BY <1>1, <1>3, <1>4, CleanupFits
  <2> QED
    BY <2>1, <1>1, <1>4, QueueSettles
<1>7. ~s.task => Settled(s, At(w, c, "finalizing"), al)
  <2> SUFFICES ASSUME ~s.task PROVE Settled(s, At(w, c, "finalizing"), al)
    OBVIOUS
  <2>1. /\ Fits(s, w, al, c, "finalizing") /\ Suits(s, c, "finalizing") /\ Covered(s, w, al)
        /\ c \in Actors
    BY <1>1, <1>3, <1>4, CleanupFits
  <2> QED
    BY <2>1, <1>1, <1>4, AtSettles
<1>8. c = Merge => Settled(s, Queue(w, c, "conclude"), al)
  <2> SUFFICES ASSUME c = Merge PROVE Settled(s, Queue(w, c, "conclude"), al)
    OBVIOUS
  <2>1. /\ Fits(s, w, al, c, "conclude") /\ Suits(s, c, "conclude") /\ Covered(s, w, al)
        /\ c \in Actors
    BY <1>1, <1>3, <1>4, CleanupFits
  <2> QED
    BY <2>1, <1>1, <1>4, QueueSettles
<1> QED
  BY <1>2, <1>5, <1>6, <1>7, <1>8

\* The removal leaves its finalizers, and the merge records that it is completed.
LEMMA LeaveSettles ==
    ASSUME NEW s, NEW v, NEW al \in BOOLEAN, NEW c \in Calls, Turning(s, v, al, c),
           v.durable # NoOp, c = Merge => s.merge \in {"merged", "completed"},
           NEW rec \in Recs, ~s.task
    PROVE  Settled(s, Leave(v, c, rec), al)
<1> DEFINE w == Publish(v, rec, FALSE)
<1>0. c \in Actors /\ Taken(s)
  BY Numbers DEF Taken
<1>1. Turning(s, w, al, c) /\ Tells(v, w, c)
  BY <1>0, PublishTurns
<1>2. Leave(v, c, rec) = IF c = Merge THEN Queue(w, c, "conclude") ELSE End(w, c)
  BY DEF Leave
<1> HIDE DEF w
<1>3. w.durable # NoOp
  BY <1>1 DEF Tells
<1>4. "conclude" \in Queued /\ "cleaning" \in Cleanup
  BY DEF Queued, Cleanup
<1>5. CASE c = Merge
  <2>1. Fits(s, w, al, c, "conclude") /\ Suits(s, c, "conclude") /\ Covered(s, w, al)
    BY <1>1, <1>3, <1>5, CleanupFits
  <2> QED
    BY <2>1, <1>0, <1>1, <1>2, <1>4, <1>5, QueueSettles
<1>6. CASE c # Merge
  <2>1. Covered(s, w, al) /\ Free(s, w, c)
    BY <1>1, <1>3, <1>4, <1>6, CleanupFits
  <2> QED
    BY <2>1, <1>1, <1>2, <1>6, EndSettles
<1> QED
  BY <1>5, <1>6

\* A fence becomes durable when the document closes the task.
LEMMA PromoteTurns ==
    ASSUME NEW s, NEW v, NEW al \in BOOLEAN, NEW c \in Calls, Turning(s, v, al, c),
           NEW op \in Calls, Promotable(v, op), Taken(s),
           op = Merge => s.merge \in {"merged", "completed"}
    PROVE  Turning(s, Promote(v, op), al, c) /\ Promote(v, op).durable # NoOp
<1> DEFINE w == Promote(v, op)
<1>0. Good(s, v, al, {c})
  BY DEF Turning
<1>1. /\ Good(s, w, al, {c}) /\ w.durable # NoOp /\ w.up = v.up /\ w.calls = v.calls
      /\ w.reply = v.reply
  BY <1>0, PromoteGood
<1> HIDE DEF w
<1>2. Merging(s, w, {c})
  BY <1>1 DEF Turning, Merging
<1> QED
  BY <1>1, <1>2 DEF Turning, w

\* A removal that was not reserved takes its own fence or drain back.
LEMMA CancelTurns ==
    ASSUME NEW s, NEW v, NEW al \in BOOLEAN, NEW c \in Calls, Turning(s, v, al, c),
           v.calls[c].op # NoOp, Covered(s, v, al)
    PROVE  /\ Turning(s, Cancel(v, v.calls[c].op), al, c)
           /\ Free(s, Cancel(v, v.calls[c].op), c) /\ Covered(s, Cancel(v, v.calls[c].op), al)
<1> DEFINE w == Cancel(v, v.calls[c].op)
<1>0. Good(s, v, al, {c})
  BY DEF Turning
<1>1. /\ Good(s, w, al, {c}) /\ Free(s, w, c) /\ w.durable = v.durable /\ w.unsure = v.unsure
      /\ w.up = v.up /\ w.calls = v.calls /\ w.reply = v.reply
  BY <1>0, CancelGood
<1> HIDE DEF w
<1>2. Merging(s, w, {c}) /\ Covered(s, w, al)
  BY <1>1 DEF Turning, Merging, Covered
<1> QED
  BY <1>1, <1>2 DEF Turning, w

\* What the call c may rely on when it learns of the outcome of its mutation.
Knows(s, v, c, pc, reply) ==
    /\ pc \in Cleanup => v.durable # NoOp
    /\ pc \in {"reserve", "activate"} => v.calls[c].op # NoOp
    /\ pc = "finalized" => ~s.task
    /\ pc = "reserve" => c # Merge
    /\ pc = "activate" => c = Merge
    /\ c = Merge => s.merge \in {"merged", "completed"}
    /\ pc = "reserve" /\ reply = "ok" => s.rec.phase \notin {"none", "dormant"}
    /\ pc = "activate" /\ reply = "ok" => s.rec.op = Merge /\ s.rec.phase # "dormant"
    /\ pc = "commit" /\ reply = "ok" => ~s.task

\* The record's removal has taken the task, and its operation is a call's.
LEMMA ActiveRecord ==
    ASSUME NEW s, Doc(s), s.rec.phase # "dormant", s.rec.phase # "none"
    PROVE  /\ Taken(s) /\ s.rec.op \in Calls
           /\ s.rec.op = Merge => s.merge \in {"merged", "completed"}
<1>1. s.rec \in Recs
  BY DEF Doc, Stores
<1>2. s.rec.op \in Calls
  <2>1. s.rec.op # NoOp
    BY DEF Doc, NoRec
  <2> QED
    BY <1>1, <2>1 DEF Recs, Ops
<1>3. Taken(s)
  BY <1>1 DEF Doc, Taken, Closing, Before, Recs, Phases
<1> QED
  BY <1>2, <1>3 DEF Doc

\* From a reservation that was written or found, the removal goes on.
LEMMA ActivatedSettles ==
    ASSUME NEW v, NEW c \in Calls, NEW op, alone \in BOOLEAN, Turning(store, v, alone, c),
           store.rec.phase # "dormant", store.rec.phase # "none", op = store.rec.op,
           c = Merge => store.merge \in {"merged", "completed"},
           Covered(store, v, alone) \/ v.fence = op
    PROVE  Settled(store,
                   IF Promotable(v, op)
                   THEN Proceed(Promote(Publish(v, store.rec, store.task), op), c, store.rec)
                   ELSE End(v, c), alone)
<1> DEFINE shown == Publish(v, store.rec, store.task)
           promoted == Promote(shown, op)
<1>0. /\ Doc(store) /\ store.rec \in Recs /\ store.task \in BOOLEAN /\ c \in Actors
      /\ Taken(store) /\ op \in Calls /\ op # NoOp
      /\ op = Merge => store.merge \in {"merged", "completed"}
  BY ActiveRecord, Numbers DEF Turning, Doc, Stores
<1>1. Turning(store, shown, alone, c) /\ Tells(v, shown, c)
  <2>1. ~store.task => ~store.task
    OBVIOUS
  <2> QED
    BY <1>0, PublishTurns
<1> HIDE DEF shown
<1>2. CASE Promotable(v, op)
  <2>1. Promotable(shown, op)
    BY <1>1, <1>2 DEF Tells, Promotable
  <2>2. Turning(store, promoted, alone, c) /\ promoted.durable # NoOp
    BY <1>0, <1>1, <2>1, PromoteTurns
  <2> HIDE DEF promoted
  <2>3. store.rec.phase = "committed" => ~store.task
    BY <1>0 DEF Doc, Before
  <2>4. Settled(store, Proceed(promoted, c, store.rec), alone)
    BY <1>0, <2>2, <2>3, ProceedSettles
  <2> QED
    BY <1>2, <2>4 DEF promoted, shown
<1>3. CASE ~Promotable(v, op)
  <2>1. Covered(store, v, alone)
    BY <1>0, <1>3 DEF Promotable, Covered
  <2>2. Free(store, v, c)
    BY <1>0 DEF Free
  <2>3. Settled(store, End(v, c), alone)
    BY <2>1, <2>2, EndSettles
  <2> QED
    BY <1>3, <2>3
<1> QED
  BY <1>2, <1>3

\* Whatever a removal learns at its place in line, the invariant is whole again.
LEMMA RemovalGoesOnSettles ==
    ASSUME NEW v, NEW c \in Calls, NEW reply \in Replies,
           NEW pc \in {"reserve", "activate", "step", "cleaned", "commit", "finalized"},
           alone \in BOOLEAN, Turning(store, v, alone, c),
           Knows(store, v, c, pc, reply), v.calls[c].rec \in Recs,
           \/ Covered(store, v, alone)
           \/ pc \in {"reserve", "activate"} /\ reply = "ok" /\ v.fence = store.rec.op
    PROVE  Settled(store, RemovalGoesOn(v, c, pc, reply), alone)
<1> DEFINE rec == store.rec
           here == Publish(v, rec, TRUE)
           gone == Publish(v, rec, FALSE)
           op == v.calls[c].op
<1>0. /\ Doc(store) /\ rec \in Recs /\ c \in Actors /\ v.up
      /\ rec.phase = "committed" => ~store.task
      /\ Closing(rec) => Taken(store)
  BY Numbers DEF Turning, Doc, Stores, Before, Taken
<1>1. ASSUME pc \in Cleanup
      PROVE  /\ v.durable # NoOp /\ Covered(store, v, alone) /\ Free(store, v, c)
             /\ Turning(store, here, alone, c) /\ Tells(v, here, c) /\ here.durable # NoOp
  <2>1. v.durable # NoOp
    BY <1>1 DEF Knows
  <2>2. Turning(store, here, alone, c) /\ Tells(v, here, c)
    BY <1>0, PublishTurns
  <2>3. Covered(store, v, alone) /\ Free(store, v, c)
    BY <2>1 DEF Covered, Free, Turning, Good, Indexed
  <2> QED
    BY <2>1, <2>2, <2>3 DEF Tells
<1>2. pc \in Cleanup <=> pc \notin {"reserve", "activate"}
  BY DEF Cleanup
<1> HIDE DEF here
<1>3. CASE pc = "reserve" /\ reply = "ok"
  <2>1. RemovalGoesOn(v, c, pc, reply) =
           IF Promotable(v, rec.op)
           THEN Proceed(Promote(Publish(v, store.rec, store.task), rec.op), c, store.rec)
           ELSE End(v, c)
    BY <1>3 DEF RemovalGoesOn
  <2>2. rec.phase # "none" /\ rec.phase # "dormant" /\ c # Merge
    BY <1>3 DEF Knows
  <2>3. Covered(store, v, alone) \/ v.fence = rec.op
    OBVIOUS
  <2> QED
    BY <2>1, <2>2, <2>3, ActivatedSettles
<1>4. CASE pc = "activate" /\ reply = "ok"
  <2>1. RemovalGoesOn(v, c, pc, reply) =
           IF Promotable(v, Merge)
           THEN Proceed(Promote(Publish(v, store.rec, store.task), Merge), c, store.rec)
           ELSE End(v, c)
    BY <1>4 DEF RemovalGoesOn
  <2>2. /\ rec.op = Merge /\ rec.phase # "dormant"
        /\ c = Merge => store.merge \in {"merged", "completed"}
    BY <1>4 DEF Knows
  <2>3. rec.phase # "none"
    BY <1>0, <2>2, Numbers DEF Doc, NoRec
  <2>4. Covered(store, v, alone) \/ v.fence = rec.op
    OBVIOUS
  <2> QED
    BY <2>1, <2>2, <2>3, <2>4, ActivatedSettles
<1>5. CASE pc = "reserve" /\ reply \in {"absent", "conflict"}
  <2> DEFINE w == Cancel(v, op)
  <2>1. RemovalGoesOn(v, c, pc, reply) = End(w, c)
    BY <1>5 DEF RemovalGoesOn
  <2>2. op # NoOp /\ Covered(store, v, alone)
    BY <1>5 DEF Knows
  <2>3. Turning(store, w, alone, c) /\ Free(store, w, c) /\ Covered(store, w, alone)
    BY <2>2, CancelTurns
  <2> HIDE DEF w
  <2> QED
    BY <2>1, <2>3, EndSettles
<1>6. CASE pc = "reserve" /\ reply \notin {"ok", "absent", "conflict"}
  <2> DEFINE w == Cancel(v, op)
             d == Degrade(w)
  <2>1. RemovalGoesOn(v, c, pc, reply) = End(d, c)
    BY <1>6 DEF RemovalGoesOn
  <2>2. op # NoOp /\ Covered(store, v, alone)
    BY <1>6 DEF Knows
  <2>3. Turning(store, w, alone, c) /\ Free(store, w, c) /\ Covered(store, w, alone)
    BY <2>2, CancelTurns
  <2> HIDE DEF w
  <2>4. Turning(store, d, alone, c) /\ Tells(w, d, c)
    BY <1>0, <2>3, DegradeTurns
  <2> HIDE DEF d
  <2>5. Free(store, d, c) /\ Covered(store, d, alone)
    BY <2>3, <2>4 DEF Free, Covered, Tells
  <2> QED
    BY <2>1, <2>4, <2>5, EndSettles
<1>7. CASE pc = "activate" /\ reply # "ok"
  <2> DEFINE d == Degrade(v)
  <2>1. RemovalGoesOn(v, c, pc, reply) = End(d, c)
    BY <1>7 DEF RemovalGoesOn
  <2>2. c = Merge /\ Covered(store, v, alone)
    BY <1>7 DEF Knows
  <2>3. Turning(store, d, alone, c) /\ Tells(v, d, c)
    BY <1>0, DegradeTurns
  <2> HIDE DEF d
  <2>4. Free(store, d, c)
    BY <2>2, <2>3, MergeIsFree DEF Turning
  <2>5. Covered(store, d, alone)
    BY <2>2, <2>3 DEF Covered, Tells
  <2> QED
    BY <2>1, <2>3, <2>4, <2>5, EndSettles
<1>8. CASE pc = "step" /\ reply = "ok"
  <2> DEFINE w == Learn(here, c, rec)
  <2>1. RemovalGoesOn(v, c, pc, reply) =
           IF rec.steps < Steps THEN At(w, c, "cleaning") ELSE Queue(w, c, "cleaned")
    BY <1>8 DEF RemovalGoesOn, here, Learn
  <2>2. Turning(store, w, alone, c) /\ Tells(here, w, c)
    BY <1>0, <1>1, <1>2, <1>8, LearnTurns
  <2> HIDE DEF w
  <2>3. w.durable # NoOp /\ (c = Merge => store.merge \in {"merged", "completed"})
    BY <1>1, <1>2, <1>8, <2>2 DEF Tells, Knows
  <2>4. "cleaning" \in Cleanup /\ "cleaned" \in Cleanup /\ "cleaning" \in Pcs \ Queued
        /\ "cleaned" \in Queued
    BY DEF Cleanup, Pcs, RemovalPcs, Queued
  <2>5. /\ Fits(store, w, alone, c, "cleaning") /\ Suits(store, c, "cleaning")
        /\ Covered(store, w, alone)
    BY <2>2, <2>3, <2>4, CleanupFits
  <2>6. Fits(store, w, alone, c, "cleaned") /\ Suits(store, c, "cleaned")
    BY <2>2, <2>3, <2>4, CleanupFits
  <2>7. Settled(store, At(w, c, "cleaning"), alone)
    BY <1>0, <2>2, <2>4, <2>5, AtSettles
  <2>8. Settled(store, Queue(w, c, "cleaned"), alone)
    BY <1>0, <2>2, <2>4, <2>5, <2>6, QueueSettles
  <2> QED
    BY <2>1, <2>7, <2>8
<1>9. CASE pc = "cleaned" /\ reply = "ok"
  <2>1. RemovalGoesOn(v, c, pc, reply) = Proceed(here, c, rec)
    BY <1>9 DEF RemovalGoesOn, here
  <2> QED
    BY <2>1, <1>0, <1>1, <1>2, <1>9, ProceedSettles DEF Knows
<1>10. CASE pc = "commit" /\ reply = "ok"
  <2>1. RemovalGoesOn(v, c, pc, reply) =
           IF rec.phase = "complete" THEN Leave(gone, c, rec) ELSE Proceed(gone, c, rec)
    BY <1>10 DEF RemovalGoesOn
  <2>2. ~store.task /\ (c = Merge => store.merge \in {"merged", "completed"})
    BY <1>10 DEF Knows
  <2>3. Turning(store, gone, alone, c) /\ Tells(v, gone, c)
    BY <1>0, <2>2, PublishTurns
  <2> HIDE DEF gone
  <2>4. gone.durable # NoOp
    BY <2>3, <1>1, <1>2, <1>10 DEF Tells
  <2>5. Settled(store, Leave(gone, c, rec), alone)
    BY <1>0, <2>2, <2>3, <2>4, LeaveSettles
  <2>6. Settled(store, Proceed(gone, c, rec), alone)
    BY <1>0, <2>2, <2>3, <2>4, ProceedSettles
  <2> QED
    BY <2>1, <2>5, <2>6
<1>11. CASE pc = "finalized" /\ reply = "ok"
  <2> DEFINE w == Learn(v, c, rec)
  <2>1. RemovalGoesOn(v, c, pc, reply) =
           IF rec.phase = "committed" THEN At(w, c, "finalizing") ELSE Leave(v, c, rec)
    BY <1>11 DEF RemovalGoesOn, Learn
  <2>2. ~store.task /\ (c = Merge => store.merge \in {"merged", "completed"})
    BY <1>11 DEF Knows
  <2>3. Turning(store, w, alone, c) /\ Tells(v, w, c)
    BY <1>0, LearnTurns
  <2> HIDE DEF w
  <2>4. w.durable # NoOp /\ v.durable # NoOp
    BY <2>3, <1>1, <1>2, <1>11 DEF Tells
  <2>5. "finalizing" \in Cleanup /\ "finalizing" \in Pcs \ Queued
    BY DEF Cleanup, Pcs, RemovalPcs, Queued
  <2>6. /\ Fits(store, w, alone, c, "finalizing") /\ Suits(store, c, "finalizing")
        /\ Covered(store, w, alone)
    BY <2>2, <2>3, <2>4, <2>5, CleanupFits
  <2>7. Settled(store, At(w, c, "finalizing"), alone)
    BY <1>0, <2>3, <2>5, <2>6, AtSettles
  <2>8. Settled(store, Leave(v, c, rec), alone)
    BY <1>0, <2>2, <2>4, LeaveSettles
  <2> QED
    BY <2>1, <2>7, <2>8
<1>12. CASE pc = "finalized" /\ reply # "ok"
  <2>1. RemovalGoesOn(v, c, pc, reply) = Leave(v, c, v.calls[c].rec)
    BY <1>12 DEF RemovalGoesOn
  <2>2. ~store.task /\ (c = Merge => store.merge \in {"merged", "completed"})
    BY <1>12 DEF Knows
  <2>3. v.durable # NoOp
    BY <1>1, <1>2, <1>12
  <2> QED
    BY <2>1, <2>2, <2>3, LeaveSettles
<1>13. CASE pc \in {"step", "cleaned", "commit"} /\ reply # "ok"
  <2>1. RemovalGoesOn(v, c, pc, reply) = End(v, c)
    BY <1>13 DEF RemovalGoesOn
  <2> QED
    BY <2>1, <1>1, <1>2, <1>13, EndSettles
<1> QED
  BY <1>3, <1>4, <1>5, <1>6, <1>7, <1>8, <1>9, <1>10, <1>11, <1>12, <1>13

\* Where the merge may go before git has done it.
Early == {"link", "authorize", "mark", "git", "abort", "fail", "succeed", "doubt", "admit-merge"}

\* Before git has done the merge, its call is bound to no index.
LEMMA EarlyFits ==
    ASSUME NEW s, NEW v, NEW al \in BOOLEAN, Turning(s, v, al, Merge), NEW pc \in Early
    PROVE  Fits(s, v, al, Merge, pc) /\ Merge \in Actors
<1>1. Free(s, v, Merge)
  BY MergeIsFree DEF Turning
<1>2. Merge \notin Saves /\ Merge \in Actors
  BY Numbers
<1> QED
  BY <1>1, <1>2 DEF Fits, Early, PcsOf, MergePcs, Cleanup, Turning

\* Whatever the merge learns before its removal, its journal suits its next place.
LEMMA MergeGoesOnSettles ==
    ASSUME NEW v, NEW reply \in Replies,
           NEW pc \in {"admit-merge", "link", "mark", "abort", "fail", "succeed", "doubt",
                       "conclude"},
           alone \in BOOLEAN, Turning(store, v, alone, Merge), Covered(store, v, alone),
           reply = "ok" => store.merge \in MergeAfter(pc),
           reply \in {"absent", "conflict"} =>
              store.merge \in MergeBefore(pc) /\ store.rec.op # Merge,
           pc = "abort" /\ reply = "ok" => store.rec.op # Merge
    PROVE  Settled(store, MergeGoesOn(v, pc, reply), alone)
<1>0. /\ Doc(store) /\ store.rec \in Recs /\ Merge \in Actors /\ Merge \in Calls
      /\ Closing(store.rec) => Taken(store)
  BY Numbers DEF Turning, Doc, Stores, Taken
<1>1. /\ {"link", "fail"} \subseteq Queued /\ {"authorize", "git"} \subseteq Pcs \ Queued
      /\ {"link", "fail", "authorize", "git"} \subseteq Early
  BY DEF Queued, Pcs, MergePcs, Early
<1>2. ASSUME pc \in {"link", "abort"}, reply \in {"absent", "conflict"}
      PROVE  Settled(store, Queue(v, Merge, "fail"), alone)
  <2>1. Suits(store, Merge, "fail")
    BY <1>2 DEF Suits, MergeBefore, Cleanup
  <2>2. Fits(store, v, alone, Merge, "fail")
    BY <1>1, EarlyFits
  <2> QED
    BY <2>1, <2>2, <1>0, <1>1, QueueSettles
<1>3. CASE pc = "admit-merge" /\ reply = "ok"
  <2>1. Suits(store, Merge, "link")
    BY <1>3 DEF Suits, MergeBefore, MergeAfter, Cleanup
  <2>2. MergeGoesOn(v, pc, reply) = Queue(v, Merge, "link")
    BY <1>3 DEF MergeGoesOn
  <2>3. Fits(store, v, alone, Merge, "link")
    BY <1>1, EarlyFits
  <2>4. Settled(store, Queue(v, Merge, "link"), alone)
    BY <2>1, <2>3, <1>0, <1>1, QueueSettles
  <2> QED
    BY <2>2, <2>4
<1>4. CASE pc = "link" /\ reply = "ok"
  <2> DEFINE w == Publish(v, store.rec, TRUE)
  <2>1. Suits(store, Merge, "authorize")
    BY <1>4 DEF Suits, MergeBefore, MergeAfter, Cleanup
  <2>2. MergeGoesOn(v, pc, reply) = At(w, Merge, "authorize")
    BY <1>4 DEF MergeGoesOn
  <2>3. Turning(store, w, alone, Merge) /\ Tells(v, w, Merge)
    BY <1>0, PublishTurns
  <2> HIDE DEF w
  <2>4. Covered(store, w, alone)
    BY <2>3 DEF Covered, Tells
  <2>5. Fits(store, w, alone, Merge, "authorize")
    BY <1>1, <2>3, EarlyFits
  <2>6. Settled(store, At(w, Merge, "authorize"), alone)
    BY <2>1, <2>3, <2>4, <2>5, <1>0, <1>1, AtSettles
  <2> QED
    BY <2>2, <2>6 DEF w
<1>5. CASE pc = "link" /\ reply \in {"absent", "conflict"}
  BY <1>2, <1>5 DEF MergeGoesOn
<1>6. CASE pc = "abort" /\ reply = "absent"
  BY <1>2, <1>6 DEF MergeGoesOn
<1>7. CASE pc = "mark" /\ reply = "ok"
  <2>1. Suits(store, Merge, "git")
    BY <1>7 DEF Suits, MergeBefore, MergeAfter, Cleanup
  <2>2. MergeGoesOn(v, pc, reply) = At(v, Merge, "git")
    BY <1>7 DEF MergeGoesOn
  <2>3. Fits(store, v, alone, Merge, "git")
    BY <1>1, EarlyFits
  <2>4. Settled(store, At(v, Merge, "git"), alone)
    BY <2>1, <2>3, <1>0, <1>1, AtSettles
  <2> QED
    BY <2>2, <2>4
<1>8. CASE pc = "abort" /\ reply = "ok"
  <2> DEFINE w == [v EXCEPT !.rec = NoRec]
  <2>1. Suits(store, Merge, "fail")
    BY <1>8 DEF Suits, MergeBefore, MergeAfter, Cleanup
  <2>2. MergeGoesOn(v, pc, reply) = Queue(w, Merge, "fail")
    BY <1>8 DEF MergeGoesOn
  <2>3. NoRec \in Recs /\ ~Closing(NoRec)
    BY Numbers DEF NoRec, Recs, Phases, Ops, Closing
  <2>4. v \in Servers /\ v.up /\ Shown(store, v, {Merge})
    BY DEF Turning, Good, Typed
  <2>5. w \in Servers /\ Tells(v, w, Merge) /\ w.state = v.state /\ w.rec = NoRec
    BY <2>3, <2>4 DEF Servers, Tells
  <2> HIDE DEF w
  <2>6. Turning(store, w, alone, Merge)
    BY <2>3, <2>4, <2>5, <1>0, Telling DEF Shown
  <2>7. Covered(store, w, alone)
    BY <2>5 DEF Covered, Tells
  <2>8. Fits(store, w, alone, Merge, "fail")
    BY <1>1, <2>6, EarlyFits
  <2>9. Settled(store, Queue(w, Merge, "fail"), alone)
    BY <2>1, <2>6, <2>7, <2>8, <1>0, <1>1, QueueSettles
  <2> QED
    BY <2>2, <2>9 DEF w
<1>9. CASE pc = "succeed" /\ reply = "ok"
  <2>1. MergeGoesOn(v, pc, reply) = Begin(v, Merge)
    BY <1>9 DEF MergeGoesOn
  <2>2. store.merge \in {"merged", "completed"}
    BY <1>9 DEF MergeAfter, Cleanup
  <2> QED
    BY <2>1, <2>2, <1>0, BeginSettles
<1>10. CASE ~\/ pc = "admit-merge" /\ reply = "ok"
             \/ pc = "link" /\ reply \in {"ok", "absent", "conflict"}
             \/ pc = "abort" /\ reply \in {"absent", "ok"}
             \/ pc = "mark" /\ reply = "ok"
             \/ pc = "succeed" /\ reply = "ok"
  <2>1. MergeGoesOn(v, pc, reply) = End(v, Merge)
    BY <1>10 DEF MergeGoesOn
  <2>2. Free(store, v, Merge)
    BY MergeIsFree DEF Turning
  <2> QED
    BY <2>1, <2>2, <1>0, EndSettles
<1> QED
  BY <1>3, <1>4, <1>5, <1>6, <1>7, <1>8, <1>9, <1>10

-----------------------------------------------------------------------------
(* The steps. *)

\* A step that ends settled keeps the invariant.
LEMMA Rests ==
    ASSUME Settled(store', server', alone'), Doc(store'), alone' \in BOOLEAN, faults' \in Nat
    PROVE  IInv'
  BY DEF IInv, Settled

\* Whoever is at the head goes on with the outcome of its mutation.
LEMMA ContinueKeeps == ASSUME IInv, Continue PROVE IInv'
<1> DEFINE h == Head(server.line)
           v == Turned(server)
           pc == server.calls[h].pc
           reply == server.reply
<1>1. /\ Doc(store) /\ alone \in BOOLEAN /\ faults \in Nat /\ Good(store, server, alone, {})
      /\ Pending(store, server, alone) /\ Merging(store, server, {h})
      /\ server.up /\ reply # "none" /\ server.line # <<>>
  BY DEF IInv, Continue, Pending
<1>0. h = Head(server.line)
  OBVIOUS
<1> HIDE DEF h
<1>2. /\ Turning(store, v, alone, h) /\ h \in Actors /\ pc \in Queued \cap PcsOf(h)
      /\ v.calls = server.calls /\ v.durable = server.durable /\ v.fence = server.fence
      /\ v.unsure = server.unsure /\ v.regs = server.regs
  BY <1>1, <1>0, Popped
<1> USE DEF h
<1> HIDE DEF v
<1>3. /\ UNCHANGED <<store, faults, alone>>
      /\ server' = CASE pc = "read" -> ReadGoesOn(v, h, reply)
                     [] h \in Saves /\ pc # "read" -> SaveGoesOn(v, h, pc, reply)
                     [] h \in Calls /\ pc \in {"admit-merge", "link", "mark", "abort", "fail",
                                               "succeed", "doubt", "conclude"} ->
                           MergeGoesOn(v, pc, reply)
                     [] OTHER -> RemovalGoesOn(v, h, pc, reply)
  BY DEF Continue, Head1, v, Turned
<1> SUFFICES Settled(store, server', alone)
  BY <1>1, <1>3, Rests
<1>4. reply \in Replies /\ v.up /\ v.calls[h].rec \in Recs /\ Calls \cap Saves = {}
      /\ Actors = Calls \cup Saves /\ server.calls[h] \in CallType
  <2>1. server.calls[h] \in CallType /\ reply \in Replies
    BY <1>1, <1>2 DEF Good, Typed, Servers
  <2> QED
    BY <2>1, <1>2, Numbers DEF Turning, CallType
<1>5. Covered(store, server, alone) => Covered(store, v, alone)
  BY <1>1, <1>2, <1>4 DEF Covered
<1>6. h \in Saves => ("active" \in v.regs[h] <=> pc \in Holding)
  BY <1>1, <1>2 DEF Good, Fenced
<1>7. pc \notin {"reserve", "activate"} => Covered(store, v, alone)
  BY <1>1, <1>5 DEF Pending, Told
<1>8. CASE pc = "read"
  <2>1. h \in Saves
    BY <1>2, <1>4, <1>8, Numbers DEF PcsOf, MergePcs, RemovalPcs, Cleanup
  <2>2. "active" \notin v.regs[h]
    BY <1>6, <1>8, <2>1 DEF Holding
  <2>3. Settled(store, ReadGoesOn(v, h, reply), alone)
    BY <1>1, <1>2, <1>4, <1>7, <1>8, <2>1, <2>2, ReadGoesOnSettles
  <2> QED
    BY <2>3, <1>3, <1>8
<1>9. CASE h \in Saves /\ pc # "read"
  <2>1. pc \in Holding /\ pc \notin {"reserve", "activate"}
    BY <1>2, <1>9 DEF PcsOf, SavePcs, Queued, Holding
  <2>2. Settled(store, SaveGoesOn(v, h, pc, reply), alone)
    BY <1>1, <1>2, <1>4, <1>6, <1>7, <1>9, <2>1, SaveGoesOnSettles
  <2> QED
    BY <2>2, <1>3, <1>4, <1>9
<1>10. CASE h \in Calls /\ pc \in {"admit-merge", "link", "mark", "abort", "fail",
                                   "succeed", "doubt", "conclude"}
  <2>1. h = Merge
    BY <1>2, <1>4, <1>10 DEF PcsOf, RemovalPcs, Cleanup
  <2>2. /\ reply = "ok" => store.merge \in MergeAfter(pc)
        /\ reply \in {"absent", "conflict"} =>
              store.merge \in MergeBefore(pc) /\ store.rec.op # Merge
        /\ pc = "abort" /\ reply = "ok" => store.rec.op # Merge
    BY <1>1, <2>1 DEF Pending, Told
  <2>3. Settled(store, MergeGoesOn(v, pc, reply), alone)
    BY <1>1, <1>2, <1>4, <1>7, <1>10, <2>1, <2>2, MergeGoesOnSettles
  <2>4. pc # "read" /\ h \notin Saves
    BY <1>4, <1>10
  <2> QED
    BY <2>3, <2>4, <1>3, <1>10
<1>11. CASE h \in Calls /\ pc \notin {"read", "admit-merge", "link", "mark", "abort", "fail",
                                      "succeed", "doubt", "conclude"}
  <2>1. pc \in {"reserve", "activate", "step", "cleaned", "commit", "finalized"}
    BY <1>2, <1>4, <1>11 DEF PcsOf, MergePcs, RemovalPcs, Cleanup, Queued
  <2>2. /\ pc = "reserve" => h # Merge
        /\ pc = "activate" => h = Merge
        /\ pc \notin {"reserve", "activate"} => pc \in Cleanup
    BY <1>2, <1>4, <1>11, <2>1 DEF PcsOf, MergePcs, RemovalPcs, Cleanup
  <2>3. Knows(store, v, h, pc, reply)
    <3>1. pc \in Cleanup => v.durable # NoOp
      BY <1>1, <1>2, <1>11 DEF Good, Fenced
    <3>2. pc \in {"reserve", "activate"} => v.calls[h].op # NoOp
      BY <1>1, <1>2, <1>11 DEF Good, Indexed
    <3>3. pc = "finalized" => ~store.task
      BY <1>1, <1>11 DEF Good, Shown
    <3>4. h = Merge => store.merge \in {"merged", "completed"}
      BY <1>1, <2>1, <2>2 DEF Pending, Told
    <3> QED
      BY <3>1, <3>2, <3>3, <3>4, <2>2, <1>1 DEF Knows, Pending, Told
  <2>4. \/ Covered(store, v, alone)
        \/ pc \in {"reserve", "activate"} /\ reply = "ok" /\ v.fence = store.rec.op
    BY <1>1, <1>2, <1>5 DEF Pending, Told
  <2>5. Settled(store, RemovalGoesOn(v, h, pc, reply), alone)
    BY <1>1, <1>2, <1>4, <1>11, <2>1, <2>3, <2>4, RemovalGoesOnSettles
  <2>6. pc # "read" /\ h \notin Saves
    BY <1>4, <1>11
  <2> QED
    BY <2>5, <2>6, <1>3, <1>11
<1> QED
  BY <1>4, <1>2, <1>8, <1>9, <1>10, <1>11

-----------------------------------------------------------------------------
(* What a mutation does to the document. *)

\* Nothing the server relies on is undone in t.
Grows(s, t) ==
    /\ Taken(s) => Taken(t)
    /\ ~s.task => ~t.task
    /\ s.merge \in {"merged", "completed"} => t.merge \in {"merged", "completed"}

\* The head of the line is h, and its mutation has not been served.
Serving(h) ==
    /\ Doc(store) /\ alone \in BOOLEAN /\ Good(store, server, alone, {})
    /\ Merging(store, server, {}) /\ Covered(store, server, alone)
    /\ server.up /\ h \in Actors /\ server.calls[h].pc \in Queued \cap PcsOf(h)
    /\ server.calls[h] \in CallType

\* The outcome m of the mutation of h is in order.
Granted(h, m) ==
    /\ Doc(m.store) /\ Grows(store, m.store)
    /\ m.reply \in {"ok", "absent", "conflict", "threw"}
    /\ h # Merge => /\ m.store.merge = store.merge
                    /\ m.store.rec.op = Merge =>
                          store.rec.op = Merge \/ store.merge \in {"merged", "completed"}
    /\ Told(m.store, server, alone, h, m.reply)

\* The mutation that is served is that of somebody in line.
LEMMA Heads ==
    ASSUME IInv, server.up, server.line # <<>>, server.reply = "none"
    PROVE  Serving(Head1)
<1>1. server \in Servers /\ server.line \in Seq(Actors) /\ Distinct(server.line)
  BY DEF IInv, Good, Typed, Lined, Servers
<1>2. Head1 \in Actors /\ Head1 \in Range(server.line)
  BY <1>1, Leaves DEF Head1
<1>3. server.calls[Head1].pc \in Queued \cap PcsOf(Head1) /\ server.calls[Head1] \in CallType
  BY <1>1, <1>2 DEF IInv, Good, Lined, Typed, Servers
<1> QED
  BY <1>2, <1>3 DEF IInv, Serving

\* Where the head's mutation comes from.
LEMMA Callers ==
    ASSUME NEW h, Serving(h)
    PROVE  LET pc == server.calls[h].pc IN
           /\ pc \in {"admit", "write", "window", "read"} => h \in Saves /\ h # Merge
           /\ pc \in {"activate", "conclude", "admit-merge", "link", "mark", "abort", "fail",
                      "succeed", "doubt"} => h = Merge
           /\ pc \in {"reserve", "activate"} \cup Cleanup => h \in Calls
           /\ pc = "reserve" => h # Merge
  BY Numbers DEF Serving, PcsOf, SavePcs, MergePcs, RemovalPcs, Cleanup, Holding

\* A mutation that throws, or finds done what it asks for, leaves the document alone.
LEMMA Undone ==
    ASSUME NEW h, Serving(h)
    PROVE  Doc(store) /\ Grows(store, store) /\ Told(store, server, alone, h, "threw")
<1>1. h = Merge => store.merge \in MergeBefore(server.calls[h].pc)
  BY DEF Serving, Merging
<1> QED
  BY <1>1 DEF Serving, Grows, Told, MergeBefore, Cleanup

\* Who throws may always do so.
LEMMA ThrowGranted == ASSUME NEW h, Serving(h) PROVE Granted(h, Throw)
  BY Undone DEF Granted, Throw, Outcome

\* Who finds done what it asks for may rely on it.
LEMMA KeepGranted ==
    ASSUME NEW h, Serving(h), NEW pc, pc = server.calls[h].pc,
           h = Merge => store.merge \in MergeAfter(pc) /\ pc # "abort",
           pc = "reserve" => store.rec.phase \notin {"none", "dormant"},
           pc = "activate" => store.rec.op = Merge /\ store.rec.phase # "dormant",
           pc = "commit" => ~store.task
    PROVE  Granted(h, Keep)
<1>1. Doc(store) /\ Grows(store, store) /\ Told(store, server, alone, h, "threw")
  BY Undone
<1>2. Told(store, server, alone, h, "ok")
  BY <1>1 DEF Told, Serving
<1> QED
  BY <1>1, <1>2 DEF Granted, Keep, Outcome

\* The fields of a changed document.
LEMMA Fields ==
    ASSUME Doc(store)
    PROVE  /\ \A rec \in Recs : /\ WithRec(rec) \in Stores /\ WithRec(rec).rec = rec
                                /\ WithRec(rec).task = store.task
                                /\ WithRec(rec).merge = store.merge
           /\ \A phase \in Phases :
                 /\ [store.rec EXCEPT !.phase = phase] \in Recs
                 /\ [store.rec EXCEPT !.phase = phase].phase = phase
                 /\ [store.rec EXCEPT !.phase = phase].op = store.rec.op
           /\ \A to \in Merges : /\ [store EXCEPT !.merge = to] \in Stores
                                 /\ [store EXCEPT !.merge = to].merge = to
                                 /\ [store EXCEPT !.merge = to].task = store.task
                                 /\ [store EXCEPT !.merge = to].rec = store.rec
           /\ \A op \in Calls, phase \in Phases :
                 /\ NewRec(op, phase) \in Recs
                 /\ NewRec(op, phase).op = op /\ NewRec(op, phase).phase = phase
           /\ NoRec \in Recs /\ NoRec.op = NoOp /\ NoRec.phase = "none"
<1>1. store \in Stores /\ store.rec \in Recs
  BY DEF Doc, Stores
<1>2. NoRec \in Recs /\ NoRec.op = NoOp /\ NoRec.phase = "none"
  BY Numbers DEF NoRec, Recs, Phases, Ops
<1>3. \A rec \in Recs : /\ WithRec(rec) \in Stores /\ WithRec(rec).rec = rec
                        /\ WithRec(rec).task = store.task /\ WithRec(rec).merge = store.merge
  BY <1>1 DEF WithRec, Stores
<1>4. \A phase \in Phases :
                 /\ [store.rec EXCEPT !.phase = phase] \in Recs
                 /\ [store.rec EXCEPT !.phase = phase].phase = phase
                 /\ [store.rec EXCEPT !.phase = phase].op = store.rec.op
  BY <1>1 DEF Recs
<1>5. \A to \in Merges : /\ [store EXCEPT !.merge = to] \in Stores
                         /\ [store EXCEPT !.merge = to].merge = to
                         /\ [store EXCEPT !.merge = to].task = store.task
                         /\ [store EXCEPT !.merge = to].rec = store.rec
  BY <1>1 DEF Stores
<1>6. \A op \in Calls, phase \in Phases :
         /\ NewRec(op, phase) \in Recs
         /\ NewRec(op, phase).op = op /\ NewRec(op, phase).phase = phase
  BY <1>2 DEF NewRec, Recs
<1> QED
  BY <1>2, <1>3, <1>4, <1>5, <1>6

\* A record that takes the place of another, of the same task.
LEMMA RecordGranted ==
    ASSUME NEW h, Serving(h), NEW rec \in Recs, rec.op # NoOp \/ rec = NoRec,
           rec.phase = "none" => rec = NoRec,
           store.task <=> rec.phase \in Before \cup {"none"},
           Closing(store.rec) => Taken(WithRec(rec)),
           rec.op = Merge => IF rec.phase = "dormant"
                             THEN store.merge \in {"admitted", "merging", "merged", "manual"}
                             ELSE store.merge \in {"merged", "completed"},
           h # Merge => (rec.op = Merge =>
                            store.rec.op = Merge \/ store.merge \in {"merged", "completed"}),
           Told(WithRec(rec), server, alone, h, "ok")
    PROVE  Granted(h, Outcome(WithRec(rec), "ok"))
<1> DEFINE t == WithRec(rec)
<1>1. Doc(store)
  BY DEF Serving
<1>2. t \in Stores /\ t.rec = rec /\ t.task = store.task /\ t.merge = store.merge
  BY <1>1, Fields
<1> HIDE DEF t
<1>3. Doc(t)
  BY <1>1, <1>2 DEF Doc
<1>4. Grows(store, t)
  BY <1>2 DEF Grows, Taken, t
<1> QED
  BY <1>2, <1>3, <1>4 DEF Granted, Outcome, t

\* reserve: afterwards there is a record that closes the task, or none.
LEMMA ReserveGranted ==
    ASSUME NEW c, Serving(c), server.calls[c].pc = "reserve"
    PROVE  Granted(c, Reserve(c))
<1> DEFINE rec == store.rec
           op == server.calls[c].op
           new == NewRec(op, "reserved")
<1>1. /\ Doc(store) /\ rec \in Recs /\ c \in Calls /\ c # Merge
  BY Callers DEF Serving, Doc, Stores
<1>2. /\ op \in Calls
      /\ op = Merge => store.merge \in {"merged", "completed"}
      /\ alone => server.durable # NoOp \/ server.fence = op
  BY <1>1 DEF Serving, Good, Indexed, Shown, Alone, CallType, Ops
<1>3. \A reply \in {"absent", "conflict"} : Granted(c, Outcome(store, reply))
  <2>1. Doc(store) /\ Grows(store, store) /\ Told(store, server, alone, c, "threw")
    BY Undone
  <2>2. \A reply \in {"absent", "conflict"} : Told(store, server, alone, c, reply)
    BY <2>1, <1>1 DEF Told
  <2> QED
    BY <2>1, <2>2 DEF Granted, Outcome
<1>4. CASE rec = NoRec /\ store.task
  <2>1. Reserve(c) = Outcome(WithRec(new), "ok")
    BY <1>1, <1>4, Fields DEF Reserve
  <2>2. /\ new \in Recs /\ new.op = op /\ new.phase = "reserved"
        /\ WithRec(new).rec = new /\ WithRec(new).task = store.task
        /\ WithRec(new).merge = store.merge
    <3>1. "reserved" \in Phases
      BY DEF Phases
    <3>2. new \in Recs /\ new.op = op /\ new.phase = "reserved"
      <4> HIDE DEF op
      <4> QED
        BY <1>1, <1>2, <3>1, Fields
    <3> HIDE DEF new
    <3> QED
      BY <1>1, <3>2, Fields
  <2> HIDE DEF new, op
  <2>3. Told(WithRec(new), server, alone, c, "ok")
    BY <2>2, <1>1, <1>2 DEF Told, Covered, op
  <2>4. op # NoOp
    BY <1>2, Numbers
  <2>5. ~Closing(rec) /\ "reserved" \in Before
    BY <1>1, <1>4, Fields DEF Closing, Before
  <2>6. Granted(c, Outcome(WithRec(new), "ok"))
    BY <2>2, <2>3, <2>4, <2>5, <1>1, <1>2, <1>4, RecordGranted
  <2> QED
    BY <2>1, <2>6
<1>5. CASE ~(rec = NoRec /\ store.task)
  <2>1. Reserve(c) \in {Outcome(store, "absent"), Outcome(store, "conflict"), Keep, Throw}
    BY <1>5 DEF Reserve
  <2>2. Reserve(c) = Keep => rec.phase \notin {"none", "dormant"} \/ Keep = Throw
                             \/ Keep \in {Outcome(store, "absent"), Outcome(store, "conflict")}
    BY <1>1, <1>5 DEF Reserve, Doc
  <2>3. Granted(c, Throw)
    BY ThrowGranted
  <2>4. rec.phase \notin {"none", "dormant"} => Granted(c, Keep)
    BY <1>1, KeepGranted
  <2> QED
    BY <2>1, <2>2, <2>3, <2>4, <1>3
<1> QED
  BY <1>4, <1>5

\* completeCleanupStep counts, and changes nothing else.
LEMMA StepGranted ==
    ASSUME NEW c, Serving(c), server.calls[c].pc = "step"
    PROVE  Granted(c, CompleteStep(server.calls[c].rec.steps))
<1> DEFINE rec == store.rec
           done == server.calls[c].rec.steps
           new == [rec EXCEPT !.steps = rec.steps + 1]
<1>1. /\ Doc(store) /\ rec \in Recs /\ c \in Calls /\ done \in 0 .. Steps
      /\ server.durable # NoOp /\ done < Steps
      /\ c = Merge => store.merge \in {"merged", "completed"}
  BY Callers, Numbers DEF Serving, Doc, Stores, Good, Fenced, Shown, Cleanup, CallType, Recs,
                          Merging, MergeBefore
<1>2. c = Merge => store.merge \in MergeAfter("step")
  BY <1>1 DEF MergeAfter, MergeBefore, Cleanup
<1>3. CASE rec.steps = done /\ rec.phase = "reserved"
  <2>1. CompleteStep(done) = Outcome(WithRec(new), "ok")
    BY <1>1, <1>3 DEF CompleteStep, Recs
  <2>2. new \in Recs /\ new.op = rec.op /\ new.phase = rec.phase
    BY <1>1, <1>3, Numbers DEF Recs
  <2>3. /\ WithRec(new).rec = new /\ WithRec(new).task = store.task
        /\ WithRec(new).merge = store.merge
    BY <1>1, <2>2, Fields
  <2> HIDE DEF new
  <2>4. Told(WithRec(new), server, alone, c, "ok")
    BY <1>1, <1>2, <2>3 DEF Told, Covered
  <2>5. rec.op # NoOp
    BY <1>1, <1>3, Fields DEF Doc
  <2> QED
    BY <2>1, <2>2, <2>3, <2>4, <2>5, <1>1, <1>3, RecordGranted DEF Doc, Taken, Closing
<1>4. CASE ~(rec.steps = done /\ rec.phase = "reserved")
  <2>1. CompleteStep(done) \in {Keep, Throw}
    BY <1>4 DEF CompleteStep
  <2>2. Granted(c, Keep) /\ Granted(c, Throw)
    BY <1>2, KeepGranted, ThrowGranted
  <2> QED
    BY <2>1, <2>2
<1> QED
  BY <1>3, <1>4

\* A call that cleans up works on an active record.
LEMMA Cleaning ==
    ASSUME NEW c, Serving(c), server.calls[c].pc \in Cleanup
    PROVE  /\ c \in Calls /\ server.durable # NoOp
           /\ c = Merge => /\ store.merge \in {"merged", "completed"}
                           /\ store.merge \in MergeAfter(server.calls[c].pc)
<1>1. c \in Calls
  BY Callers
<1>2. c = Merge => store.merge \in {"merged", "completed"}
  BY DEF Serving, Merging, MergeBefore, Cleanup
<1>3. c = Merge => store.merge \in MergeAfter(server.calls[c].pc)
  BY <1>2 DEF MergeAfter, MergeBefore, Cleanup
<1> QED
  BY <1>1, <1>2, <1>3 DEF Serving, Good, Fenced

\* completeCleanup changes the phase, and the task stays.
LEMMA CleanupGranted ==
    ASSUME NEW c, Serving(c), server.calls[c].pc = "cleaned"
    PROVE  Granted(c, CompleteCleanup)
<1> DEFINE new == [store.rec EXCEPT !.phase = "cleaned"]
<1>1. /\ Doc(store) /\ store.rec \in Recs /\ c \in Calls /\ server.durable # NoOp
      /\ c = Merge => store.merge \in MergeAfter("cleaned")
      /\ c = Merge => store.merge \in {"merged", "completed"}
  BY Cleaning DEF Serving, Doc, Stores, Cleanup
<1>2. CASE store.rec.phase = "reserved"
  <2>1. CompleteCleanup = Outcome(WithRec(new), "ok")
    BY <1>2 DEF CompleteCleanup, Phase
  <2>2. new \in Recs /\ new.op = store.rec.op /\ new.phase = "cleaned"
    BY <1>1 DEF Recs, Phases
  <2> HIDE DEF new
  <2>3. /\ WithRec(new).rec = new /\ WithRec(new).task = store.task
        /\ WithRec(new).merge = store.merge
    BY <1>1, <2>2, Fields
  <2>4. Told(WithRec(new), server, alone, c, "ok")
    BY <1>1, <2>3 DEF Told, Covered
  <2>5. new.op # NoOp /\ Taken(WithRec(new)) /\ store.task
    BY <1>1, <1>2, <2>2, <2>3, Fields DEF Doc, Taken, Closing, Before
  <2>6. Granted(c, Outcome(WithRec(new), "ok"))
    BY <1>1, <1>2, <2>2, <2>3, <2>4, <2>5, RecordGranted DEF Doc, Before
  <2> QED
    BY <2>1, <2>6
<1>3. CASE store.rec.phase # "reserved"
  <2>1. CompleteCleanup = Keep
    BY <1>3 DEF CompleteCleanup
  <2> QED
    BY <2>1, <1>1, KeepGranted
<1> QED
  BY <1>2, <1>3

\* commit: the task and its record change together.
LEMMA CommitGranted ==
    ASSUME NEW c, Serving(c), server.calls[c].pc = "commit"
    PROVE  Granted(c, Commit)
<1> DEFINE new == [store.rec EXCEPT !.phase = "committed"]
           t == [WithRec(new) EXCEPT !.task = FALSE]
<1>1. /\ Doc(store) /\ store.rec \in Recs /\ c \in Calls /\ server.durable # NoOp
      /\ store.task \in BOOLEAN
      /\ c = Merge => store.merge \in MergeAfter("commit")
      /\ c = Merge => store.merge \in {"merged", "completed"}
  BY Cleaning DEF Serving, Doc, Stores, Cleanup
<1>2. CASE store.rec.phase = "cleaned" /\ store.task
  <2>1. Commit = Outcome(t, "ok")
    BY <1>2 DEF Commit, Phase
  <2>2. new \in Recs /\ new.op = store.rec.op /\ new.phase = "committed"
    BY <1>1 DEF Recs, Phases
  <2> HIDE DEF new
  <2>3. WithRec(new) \in Stores /\ WithRec(new).rec = new /\ WithRec(new).merge = store.merge
    BY <1>1, <2>2, Fields
  <2>4. t \in Stores /\ t.rec = new /\ t.merge = store.merge /\ ~t.task
    BY <2>3 DEF Stores
  <2> HIDE DEF t
  <2>5. Doc(t)
    BY <1>1, <1>2, <2>2, <2>4, Fields DEF Doc, Before
  <2>6. Grows(store, t)
    BY <2>4 DEF Grows, Taken
  <2>7. Told(t, server, alone, c, "ok")
    BY <1>1, <2>4 DEF Told, Covered
  <2>8. Granted(c, Outcome(t, "ok"))
    BY <2>2, <2>4, <2>5, <2>6, <2>7 DEF Granted, Outcome
  <2> QED
    BY <2>1, <2>8
<1>3. CASE ~(store.rec.phase = "cleaned" /\ store.task)
  <2>1. Commit = Throw \/ (Commit = Keep /\ ~store.task)
    BY <1>1, <1>3 DEF Commit
  <2>2. ~store.task => Granted(c, Keep)
    BY <1>1, KeepGranted
  <2> QED
    BY <2>1, <2>2, ThrowGranted
<1> QED
  BY <1>2, <1>3

\* completeFinalizer: the task is gone already.
LEMMA FinalizerGranted ==
    ASSUME NEW c, Serving(c), server.calls[c].pc = "finalized"
    PROVE  Granted(c, CompleteFinalizer(server.calls[c].rec.finals))
<1> DEFINE rec == store.rec
           done == server.calls[c].rec.finals
           phase == IF done + 1 = Finalizers THEN "complete" ELSE rec.phase
           new == [rec EXCEPT !.finals = rec.finals + 1, !.phase = phase]
<1>1. /\ Doc(store) /\ rec \in Recs /\ c \in Calls /\ server.durable # NoOp
      /\ c = Merge => store.merge \in MergeAfter("finalized")
      /\ c = Merge => store.merge \in {"merged", "completed"}
  BY Cleaning DEF Serving, Doc, Stores, Cleanup
<1>2. CASE rec.phase = "committed" /\ rec.finals = done
  <2>1. CompleteFinalizer(done) = Outcome(WithRec(new), "ok")
    BY <1>1, <1>2 DEF CompleteFinalizer, Recs
  <2>2. phase \in Phases /\ phase \in {"complete", "committed"}
    BY <1>2 DEF Phases
  <2> HIDE DEF phase
  <2> DEFINE counted == [rec EXCEPT !.finals = rec.finals + 1]
  <2>8. counted \in Recs /\ counted.op = rec.op
    BY <1>1 DEF Recs
  <2>9. new = [counted EXCEPT !.phase = phase]
    OBVIOUS
  <2> HIDE DEF new, counted
  <2>3. new \in Recs /\ new.op = rec.op /\ new.phase = phase
    BY <2>2, <2>8, <2>9 DEF Recs
  <2>4. /\ WithRec(new).rec = new /\ WithRec(new).task = store.task
        /\ WithRec(new).merge = store.merge
    BY <1>1, <2>3, Fields
  <2>5. Told(WithRec(new), server, alone, c, "ok")
    BY <1>1, <2>4 DEF Told, Covered
  <2>6. new.op # NoOp /\ Taken(WithRec(new)) /\ ~store.task
    BY <1>1, <1>2, <2>3, <2>4, Fields DEF Doc, Taken, Before
  <2>7. Granted(c, Outcome(WithRec(new), "ok"))
    BY <1>1, <1>2, <2>2, <2>3, <2>4, <2>5, <2>6, RecordGranted DEF Doc, Before
  <2> QED
    BY <2>1, <2>7
<1>3. CASE ~(rec.phase = "committed" /\ rec.finals = done)
  <2>1. CompleteFinalizer(done) \in {Keep, Throw}
    BY <1>3 DEF CompleteFinalizer
  <2>2. Granted(c, Keep) /\ Granted(c, Throw)
    BY <1>1, KeepGranted, ThrowGranted
  <2> QED
    BY <2>1, <2>2
<1> QED
  BY <1>2, <1>3

\* The merge's journal goes on.
LEMMA MergeToGranted ==
    ASSUME Serving(Merge), NEW from \in Merges, NEW to \in Merges,
           server.calls[Merge].pc \in {"admit-merge", "mark", "fail", "succeed", "doubt",
                                       "conclude"},
           to \in MergeAfter(server.calls[Merge].pc),
           from \in {"merged", "completed"} => to \in {"merged", "completed"},
           store.merge = from /\ store.rec.op = Merge =>
              IF store.rec.phase = "dormant"
              THEN to \in {"admitted", "merging", "merged", "manual"}
              ELSE to \in {"merged", "completed"},
           store.merge = from /\ to = "completed" => ~store.task
    PROVE  Granted(Merge, MergeTo(from, to))
<1> DEFINE t == [store EXCEPT !.merge = to]
           pc == server.calls[Merge].pc
<1>1. /\ Doc(store) /\ store.merge \in Merges
      /\ pc \notin {"reserve", "activate", "commit", "abort"} \cup Cleanup
  BY DEF Serving, Doc, Stores, Cleanup
<1>2. CASE store.merge = from
  <2>1. MergeTo(from, to) = Outcome(t, "ok") \/ (from = to /\ MergeTo(from, to) = Keep)
    BY <1>2 DEF MergeTo
  <2>2. /\ t \in Stores /\ t.merge = to /\ t.task = store.task /\ t.rec = store.rec
    BY <1>1, Fields
  <2> HIDE DEF t
  <2>3. Doc(t)
    BY <1>1, <1>2, <2>2 DEF Doc
  <2>4. Grows(store, t)
    BY <1>2, <2>2 DEF Grows, Taken
  <2>5. Covered(t, server, alone)
    BY <2>2 DEF Covered, Taken, Serving
  <2>6. Told(t, server, alone, Merge, "ok")
    BY <1>1, <2>2, <2>5 DEF Told
  <2>7. Granted(Merge, Outcome(t, "ok"))
    BY <2>2, <2>3, <2>4, <2>6 DEF Granted, Outcome
  <2>8. from = to => Granted(Merge, Keep)
    BY <1>1, <1>2, KeepGranted
  <2> QED
    BY <2>1, <2>7, <2>8
<1>3. CASE store.merge # from
  <2>1. MergeTo(from, to) = Throw \/ (store.merge = to /\ MergeTo(from, to) = Keep)
    BY <1>3 DEF MergeTo
  <2>2. store.merge = to => Granted(Merge, Keep)
    BY <1>1, KeepGranted
  <2> QED
    BY <2>1, <2>2, ThrowGranted
<1> QED
  BY <1>2, <1>3

\* The mutations of the merge that are not about the removal record.
LEMMA JournalGranted ==
    ASSUME Serving(Merge), NEW pc, pc = server.calls[Merge].pc
    PROVE  /\ pc = "admit-merge" => Granted(Merge, MergeTo("issued", "admitted"))
                                    /\ store.merge = "issued"
           /\ pc = "mark" => Granted(Merge, MergeTo("admitted", "merging"))
           /\ pc = "fail" => Granted(Merge, Fails)
           /\ pc = "succeed" => Granted(Merge, MergeTo("merging", "merged"))
           /\ pc = "doubt" => Granted(Merge, MergeTo("merging", "manual"))
           /\ pc = "conclude" => Granted(Merge, Conclude)
<1>1. /\ Doc(store) /\ store.merge \in MergeBefore(pc)
      /\ pc = "fail" => store.rec.op # Merge
  BY DEF Serving, Merging
<1>2. /\ {"issued", "admitted", "merging", "merged", "completed", "failed", "manual"} \subseteq Merges
  BY DEF Merges
<1>3. /\ MergeBefore("admit-merge") = {"issued"} /\ MergeAfter("admit-merge") = {"admitted"}
      /\ MergeBefore("mark") = {"admitted"} /\ MergeAfter("mark") = {"merging"}
      /\ MergeBefore("fail") = {"admitted", "merging"} /\ MergeAfter("fail") = Merges
      /\ MergeBefore("succeed") = {"merging"} /\ MergeAfter("succeed") = {"merged"}
      /\ MergeBefore("doubt") = {"merging"} /\ MergeAfter("doubt") = Merges
      /\ MergeBefore("conclude") = {"merged", "completed"} /\ MergeAfter("conclude") = Merges
  BY DEF MergeBefore, MergeAfter, Cleanup
<1>4. CASE pc = "admit-merge"
  <2>1. store.merge = "issued" /\ store.rec.op # Merge
    BY <1>1, <1>3, <1>4 DEF Doc
  <2>2. Granted(Merge, MergeTo("issued", "admitted"))
    BY <2>1, <1>2, <1>3, <1>4, MergeToGranted
  <2> QED
    BY <2>1, <2>2, <1>4
<1>5. CASE pc = "mark"
  <2>1. Granted(Merge, MergeTo("admitted", "merging"))
    BY <1>1, <1>2, <1>3, <1>5, MergeToGranted DEF Doc
  <2> QED
    BY <2>1, <1>5
<1>6. CASE pc = "fail"
  <2>1. Granted(Merge, MergeTo("admitted", "failed"))
    BY <1>1, <1>2, <1>3, <1>6, MergeToGranted
  <2>2. Granted(Merge, MergeTo("merging", "failed"))
    BY <1>1, <1>2, <1>3, <1>6, MergeToGranted
  <2> QED
    BY <2>1, <2>2, <1>6 DEF Fails
<1>7. CASE pc = "succeed"
  <2>1. Granted(Merge, MergeTo("merging", "merged"))
    BY <1>1, <1>2, <1>3, <1>7, MergeToGranted DEF Doc
  <2> QED
    BY <2>1, <1>7
<1>8. CASE pc = "doubt"
  <2>1. Granted(Merge, MergeTo("merging", "manual"))
    BY <1>1, <1>2, <1>3, <1>8, MergeToGranted DEF Doc
  <2> QED
    BY <2>1, <1>8
<1>9. CASE pc = "conclude"
  <2>1. ASSUME ~(store.merge = "merged" /\ store.task)
        PROVE  Granted(Merge, MergeTo("merged", "completed"))
    <3>1. store.merge = "merged" /\ store.rec.op = Merge => store.rec.phase # "dormant"
      BY <2>1, <1>1 DEF Doc, Before
    <3> QED
      BY <2>1, <3>1, <1>1, <1>2, <1>3, <1>9, MergeToGranted
  <2> QED
    BY <2>1, <1>9, ThrowGranted DEF Conclude
<1> QED
  BY <1>4, <1>5, <1>6, <1>7, <1>8, <1>9

\* reserveLinkedRemoval: a dormant record only, and only of an admitted merge.
LEMMA LinkGranted ==
    ASSUME Serving(Merge), server.calls[Merge].pc = "link"
    PROVE  Granted(Merge, Link)
<1> DEFINE new == NewRec(Merge, "dormant")
<1>1. Doc(store) /\ store.rec \in Recs /\ store.task \in BOOLEAN /\ Merge \in Calls
  BY Numbers DEF Serving, Doc, Stores
<1>2. store.merge = "admitted" /\ store.merge \in MergeAfter("link")
  BY DEF Serving, Merging, MergeAfter, MergeBefore, Cleanup
<1>3. CASE store.task /\ store.rec = NoRec
  <2>1. Link = Outcome(WithRec(new), "ok")
    BY <1>3 DEF Link
  <2>2. new \in Recs /\ new.op = Merge /\ new.phase = "dormant"
    <3>1. "dormant" \in Phases
      BY DEF Phases
    <3> QED
      BY <1>1, <3>1, Fields
  <2> HIDE DEF new
  <2>3. /\ WithRec(new).rec = new /\ WithRec(new).task = store.task
        /\ WithRec(new).merge = store.merge
    BY <1>1, <2>2, Fields
  <2>4. Covered(WithRec(new), server, alone)
    BY <1>3, <2>2, <2>3 DEF Covered, Taken, Closing
  <2>5. Told(WithRec(new), server, alone, Merge, "ok")
    BY <1>2, <2>3, <2>4 DEF Told, Cleanup
  <2>6. new.op # NoOp /\ ~Closing(store.rec) /\ "dormant" \in Before
    BY <1>1, <1>3, <2>2, Numbers, Fields DEF Closing, Before
  <2>7. Granted(Merge, Outcome(WithRec(new), "ok"))
    BY <1>1, <1>2, <1>3, <2>2, <2>3, <2>5, <2>6, RecordGranted
  <2> QED
    BY <2>1, <2>7
<1>4. CASE ~(store.task /\ store.rec = NoRec)
  <2>1. \/ Link = Outcome(store, "absent") /\ ~store.task
        \/ Link = Keep /\ store.rec.op = Merge
        \/ Link = Outcome(store, "conflict") /\ store.rec.op # Merge
    BY <1>1, <1>4 DEF Link
  <2>2. ~store.task => store.rec.op # Merge
    BY <1>1, <1>2 DEF Doc, Before
  <2>3. Granted(Merge, Keep)
    BY <1>1, <1>2, KeepGranted
  <2>4. ASSUME store.rec.op # Merge, NEW reply \in {"absent", "conflict"}
        PROVE  Granted(Merge, Outcome(store, reply))
    <3>1. Grows(store, store) /\ Told(store, server, alone, Merge, "threw")
      BY Undone
    <3>2. store.merge \in MergeBefore("link")
      BY <1>2 DEF MergeBefore, Cleanup
    <3>3. Told(store, server, alone, Merge, reply)
      BY <2>4, <3>1, <3>2 DEF Told
    <3> QED
      BY <3>1, <3>3, <1>1 DEF Granted, Outcome
  <2> QED
    BY <2>1, <2>2, <2>3, <2>4
<1> QED
  BY <1>3, <1>4

\* abortLinkedRemovalBeforeProof: afterwards no record is the merge's.
LEMMA AbortGranted ==
    ASSUME Serving(Merge), server.calls[Merge].pc = "abort"
    PROVE  Granted(Merge, Abort)
<1>1. Doc(store) /\ store.rec \in Recs /\ store.task \in BOOLEAN /\ Merge \in Calls
  BY Numbers DEF Serving, Doc, Stores
<1>2. /\ store.merge \in MergeBefore("abort") /\ store.merge \in MergeAfter("abort")
      /\ store.merge \in {"admitted", "merging"}
  BY DEF Serving, Merging, MergeAfter, MergeBefore, Cleanup
<1>3. CASE store.rec.op # Merge
  <2>1. Abort = Outcome(store, "absent")
    BY <1>3 DEF Abort
  <2>2. Grows(store, store) /\ Told(store, server, alone, Merge, "threw")
    BY Undone
  <2>3. Told(store, server, alone, Merge, "absent")
    BY <1>2, <1>3, <2>2 DEF Told
  <2>4. Granted(Merge, Outcome(store, "absent"))
    BY <2>2, <2>3, <1>1 DEF Granted, Outcome
  <2> QED
    BY <2>1, <2>4
<1>4. CASE store.rec.op = Merge /\ store.rec.phase = "dormant"
  <2>1. Abort = Outcome(WithRec(NoRec), "ok")
    BY <1>4 DEF Abort
  <2>2. /\ NoRec \in Recs /\ NoRec.op = NoOp /\ NoRec.phase = "none" /\ NoOp # Merge
        /\ WithRec(NoRec).rec = NoRec /\ WithRec(NoRec).task = store.task
        /\ WithRec(NoRec).merge = store.merge
    BY <1>1, Fields, Numbers
  <2>3. store.task /\ ~Closing(store.rec) /\ ~Closing(NoRec)
    BY <1>1, <1>4, <2>2 DEF Doc, Before, Closing
  <2>4. Covered(WithRec(NoRec), server, alone)
    BY <2>2, <2>3 DEF Covered, Taken
  <2>5. Told(WithRec(NoRec), server, alone, Merge, "ok")
    BY <1>2, <2>2, <2>4 DEF Told, Cleanup
  <2>6. Granted(Merge, Outcome(WithRec(NoRec), "ok"))
    BY <2>2, <2>3, <2>5, RecordGranted
  <2> QED
    BY <2>1, <2>6
<1>5. CASE store.rec.op = Merge /\ store.rec.phase # "dormant"
  <2>1. Abort = Throw
    BY <1>5 DEF Abort
  <2> QED
    BY <2>1, ThrowGranted
<1> QED
  BY <1>3, <1>4, <1>5

\* activateLinkedRemovalProof: the merge is done.
LEMMA ActivateGranted ==
    ASSUME Serving(Merge), server.calls[Merge].pc = "activate"
    PROVE  Granted(Merge, Activate)
<1> DEFINE new == [store.rec EXCEPT !.phase = "reserved"]
<1>1. Doc(store) /\ store.rec \in Recs /\ store.task \in BOOLEAN /\ Merge \in Calls
  BY Numbers DEF Serving, Doc, Stores
<1>2. /\ store.merge \in {"merged", "completed"} /\ store.merge \in MergeAfter("activate")
      /\ server.calls[Merge].op = Merge
      /\ alone => server.durable # NoOp \/ server.fence = Merge
  BY <1>1 DEF Serving, Merging, MergeAfter, MergeBefore, Good, Indexed, Alone, Cleanup
<1>3. CASE store.rec.op = Merge /\ store.rec.phase = "dormant" /\ store.task
  <2>1. Activate = Outcome(WithRec(new), "ok")
    BY <1>3 DEF Activate, Phase
  <2>2. new \in Recs /\ new.op = Merge /\ new.phase = "reserved"
    BY <1>1, <1>3 DEF Recs, Phases
  <2> HIDE DEF new
  <2>3. /\ WithRec(new).rec = new /\ WithRec(new).task = store.task
        /\ WithRec(new).merge = store.merge
    BY <1>1, <2>2, Fields
  <2>4. Told(WithRec(new), server, alone, Merge, "ok")
    BY <1>2, <2>2, <2>3 DEF Told, Covered
  <2>5. new.op # NoOp /\ ~Closing(store.rec) /\ "reserved" \in Before
    BY <1>1, <1>3, <2>2, Numbers DEF Closing, Before
  <2>6. Granted(Merge, Outcome(WithRec(new), "ok"))
    BY <1>1, <1>2, <1>3, <2>2, <2>3, <2>4, <2>5, RecordGranted
  <2> QED
    BY <2>1, <2>6
<1>4. CASE ~(store.rec.op = Merge /\ store.rec.phase = "dormant" /\ store.task)
  <2>1. Activate = Throw \/ (Activate = Keep /\ store.rec.op = Merge /\ store.rec.phase # "dormant")
    BY <1>1, <1>4 DEF Activate
  <2>2. store.rec.op = Merge /\ store.rec.phase # "dormant" => Granted(Merge, Keep)
    BY <1>2, KeepGranted
  <2> QED
    BY <2>1, <2>2, ThrowGranted
<1> QED
  BY <1>3, <1>4

\* The operations of the notes touch neither journal.
LEMMA SaveIsGranted ==
    ASSUME NEW n \in Saves, Serving(n), server.calls[n].pc \in Holding, NEW state \in SaveStates
    PROVE  Granted(n, SaveIs(n, state)) /\ Granted(n, Keep) /\ Granted(n, Throw)
<1> DEFINE t == [store EXCEPT !.saves[n] = state]
           f == [store.saves EXCEPT ![n] = state]
<1>1. /\ Doc(store) /\ store \in Stores /\ n # Merge
      /\ server.calls[n].pc \notin {"reserve", "activate", "commit"}
  BY Numbers DEF Serving, Doc, Holding
<1>2. f \in [Saves -> SaveStates] /\ t = [store EXCEPT !.saves = f]
  BY <1>1 DEF Stores
<1> HIDE DEF f, t
<1>3. /\ t \in Stores /\ t.task = store.task /\ t.rec = store.rec /\ t.merge = store.merge
  BY <1>1, <1>2 DEF Stores
<1>4. Doc(t) /\ Grows(store, t)
  BY <1>1, <1>3 DEF Doc, Grows, Taken
<1>5. Covered(t, server, alone)
  BY <1>3 DEF Covered, Taken, Serving
<1>6. Told(t, server, alone, n, "ok")
  BY <1>1, <1>5 DEF Told
<1>7. Granted(n, Outcome(t, "ok"))
  BY <1>3, <1>4, <1>6 DEF Granted, Outcome
<1>8. SaveIs(n, state) = Outcome(t, "ok")
  BY DEF SaveIs, t
<1>9. Granted(n, Keep)
  BY <1>1, KeepGranted
<1> QED
  BY <1>7, <1>8, <1>9, ThrowGranted

\* Every mutation leaves a document in order, and tells its caller what is so.
LEMMA MutationGranted == ASSUME NEW h, Serving(h) PROVE Granted(h, Mutation(h))
<1> DEFINE call == server.calls[h]
           pc == call.pc
           mine == store.rec.op = call.rec.op
<1>0. /\ pc \in Queued
      /\ pc \in {"admit", "write", "window", "read"} => h \in Saves /\ h # Merge
      /\ pc \in {"activate", "conclude", "admit-merge", "link", "mark", "abort", "fail",
                 "succeed", "doubt"} => h = Merge
  BY Callers DEF Serving
<1>1. Granted(h, Throw)
  BY ThrowGranted
<1>2. CASE pc = "reserve"
  <2>1. Mutation(h) = Reserve(h)
    BY <1>2 DEF Mutation
  <2> QED
    BY <2>1, <1>2, ReserveGranted
<1>3. CASE pc = "step"
  <2>1. Mutation(h) = IF mine THEN CompleteStep(call.rec.steps) ELSE Throw
    BY <1>3 DEF Mutation
  <2> QED
    BY <2>1, <1>1, <1>3, StepGranted
<1>4. CASE pc = "cleaned"
  <2>1. Mutation(h) = IF mine THEN CompleteCleanup ELSE Throw
    BY <1>4 DEF Mutation
  <2> QED
    BY <2>1, <1>1, <1>4, CleanupGranted
<1>5. CASE pc = "commit"
  <2>1. Mutation(h) = IF mine THEN Commit ELSE Throw
    BY <1>5 DEF Mutation
  <2> QED
    BY <2>1, <1>1, <1>5, CommitGranted
<1>6. CASE pc = "finalized"
  <2>1. Mutation(h) = IF mine THEN CompleteFinalizer(call.rec.finals) ELSE Throw
    BY <1>6 DEF Mutation
  <2> QED
    BY <2>1, <1>1, <1>6, FinalizerGranted
<1>7. CASE pc \in {"admit-merge", "mark", "fail", "succeed", "doubt", "conclude"}
  <2>1. h = Merge
    BY <1>0, <1>7
  <2>2. /\ pc = "admit-merge" => Granted(Merge, MergeTo("issued", "admitted"))
                                 /\ store.merge = "issued"
        /\ pc = "mark" => Granted(Merge, MergeTo("admitted", "merging"))
        /\ pc = "fail" => Granted(Merge, Fails)
        /\ pc = "succeed" => Granted(Merge, MergeTo("merging", "merged"))
        /\ pc = "doubt" => Granted(Merge, MergeTo("merging", "manual"))
        /\ pc = "conclude" => Granted(Merge, Conclude)
    BY <2>1, JournalGranted
  <2>3. /\ pc = "admit-merge" /\ store.merge = "issued" =>
              Mutation(h) = MergeTo("issued", "admitted")
        /\ pc = "mark" => Mutation(h) = MergeTo("admitted", "merging")
        /\ pc = "fail" => Mutation(h) = Fails
        /\ pc = "succeed" => Mutation(h) = MergeTo("merging", "merged")
        /\ pc = "doubt" => Mutation(h) = MergeTo("merging", "manual")
        /\ pc = "conclude" => Mutation(h) = Conclude
    BY DEF Mutation
  <2> QED
    BY <1>7, <2>1, <2>2, <2>3
<1>8. CASE pc = "link"
  <2>1. Mutation(h) = Link /\ h = Merge
    BY <1>0, <1>8 DEF Mutation
  <2> QED
    BY <2>1, <1>8, LinkGranted
<1>9. CASE pc = "abort"
  <2>1. Mutation(h) = Abort /\ h = Merge
    BY <1>0, <1>9 DEF Mutation
  <2> QED
    BY <2>1, <1>9, AbortGranted
<1>10. CASE pc = "activate"
  <2>1. Mutation(h) = Activate /\ h = Merge
    BY <1>0, <1>10 DEF Mutation
  <2> QED
    BY <2>1, <1>10, ActivateGranted
<1>11. CASE pc \in Holding
  <2>1. h \in Saves
    BY <1>0, <1>11 DEF Holding
  <2>2. store.saves[h] \in SaveStates /\ "admitted" \in SaveStates /\ "terminal" \in SaveStates
    BY <2>1 DEF Serving, Doc, Stores, SaveStates
  <2>3. Mutation(h) \in {Keep, Throw, SaveIs(h, "admitted"), SaveIs(h, "terminal"),
                         SaveIs(h, store.saves[h])}
    BY <1>11 DEF Mutation, Holding
  <2>4. /\ Granted(h, SaveIs(h, "admitted")) /\ Granted(h, SaveIs(h, "terminal"))
        /\ Granted(h, SaveIs(h, store.saves[h])) /\ Granted(h, Keep)
    BY <1>11, <2>1, <2>2, SaveIsGranted
  <2> QED
    BY <1>1, <2>3, <2>4
<1>12. CASE pc = "read"
  <2>1. Mutation(h) \in {Keep, Throw}
    BY <1>12 DEF Mutation
  <2>2. Granted(h, Keep)
    BY <1>0, <1>12, KeepGranted
  <2> QED
    BY <1>1, <2>1, <2>2
<1> QED
  BY <1>0, <1>2, <1>3, <1>4, <1>5, <1>6, <1>7, <1>8, <1>9, <1>10, <1>11, <1>12
     DEF Queued, Holding

\* The server learns the outcome, of a document that has gone on.
LEMMA GrowsGood ==
    ASSUME NEW s, NEW t, NEW v, NEW w, NEW al, Good(s, v, al, {}), Doc(s), Doc(t), Grows(s, t),
           w \in Servers, w.up = v.up, w.state = v.state, w.rec = v.rec,
           /\ w.durable = v.durable /\ w.fence = v.fence /\ w.drain = v.drain /\ w.waits = v.waits
           /\ w.regs = v.regs /\ w.calls = v.calls /\ w.line = v.line
    PROVE  Good(t, w, al, {})
<1>1. Typed(w, {}) /\ Lined(w, {}) /\ Indexed(w, {}) /\ Fenced(w, {}) /\ Alone(w, al, {})
  BY DEF Good, Typed, Lined, Indexed, Fenced, Alone, Live, Flies
<1>2. Taken(s) \/ s.merge = "merged" => Taken(t) \/ t.merge = "merged"
  BY DEF Grows, Doc, Taken
<1>3. Shown(t, w, {})
  BY <1>2 DEF Good, Shown, Grows
<1> QED
  BY <1>1, <1>3 DEF Good

\* The storage has served the head, which has not gone on yet.
LEMMA Answered ==
    ASSUME Serving(Head1), server.line # <<>>, NEW t, NEW w, NEW reply \in Replies \ {"none"},
           Doc(t), Grows(store, t), w \in Servers, w.reply = reply,
           w.up = server.up, w.state = server.state, w.rec = server.rec,
           /\ w.durable = server.durable /\ w.fence = server.fence /\ w.drain = server.drain
           /\ w.waits = server.waits /\ w.regs = server.regs /\ w.calls = server.calls
           /\ w.line = server.line,
           Head1 # Merge => /\ t.merge = store.merge
                            /\ t.rec.op = Merge =>
                                  store.rec.op = Merge \/ store.merge \in {"merged", "completed"},
           Told(t, w, alone, Head1, reply)
    PROVE  Good(t, w, alone, {}) /\ Pending(t, w, alone) /\ Merging(t, w, {Head1})
<1>1. Good(t, w, alone, {})
  BY GrowsGood DEF Serving
<1>3. Pending(t, w, alone)
  BY DEF Pending, Head1, Serving
<1>4. Merging(t, w, {Head1})
  <2> SUFFICES ASSUME Head1 # Merge
               PROVE  /\ t.merge \in MergeBefore(server.calls[Merge].pc)
                      /\ server.calls[Merge].pc = "fail" => t.rec.op # Merge
    BY DEF Merging
  <2>1. /\ store.merge \in MergeBefore(server.calls[Merge].pc)
        /\ server.calls[Merge].pc = "fail" => store.rec.op # Merge
    BY DEF Serving, Merging
  <2>2. server.calls[Merge].pc = "fail" => store.merge \in {"admitted", "merging"}
    BY <2>1 DEF MergeBefore, Cleanup
  <2> QED
    BY <2>1, <2>2
<1> QED
  BY <1>1, <1>3, <1>4

\* A write that is served, refused, or of unknown durability.
LEMMA ServeKeeps == ASSUME IInv, Serve PROVE IInv'
<1> DEFINE m == Mutation(Head1)
<1>1. /\ Serving(Head1) /\ server.line # <<>> /\ server.reply = "none" /\ server.up
      /\ alone' = alone /\ alone \in BOOLEAN /\ faults \in Nat /\ server \in Servers
  BY Heads DEF Serve, IInv, Good, Typed
<1>2. Granted(Head1, m)
  BY <1>1, MutationGranted
<1>3. Doc(store) /\ Grows(store, store) /\ Told(store, server, alone, Head1, "threw")
  BY <1>1, Undone
<1> HIDE DEF m
<1>4. /\ \/ ~server.unsure /\ store' = m.store /\ server' = [server EXCEPT !.reply = m.reply]
         \/ server.unsure /\ store' = store /\ server' = [server EXCEPT !.reply = "unsure"]
         \/ store' = store /\ server' = [server EXCEPT !.reply = "refused"]
         \/ store' = m.store /\ server' = [server EXCEPT !.reply = "unsure", !.unsure = TRUE]
            /\ m.reply = "ok"
      /\ faults' \in Nat
  BY <1>1 DEF Serve, m
<1>5. m.reply \in Replies \ {"none"} /\ {"unsure", "refused"} \subseteq Replies \ {"none"}
  BY <1>2 DEF Granted, Replies
<1>6. PICK r \in Replies \ {"none"}, u \in BOOLEAN :
         /\ server' = [server EXCEPT !.reply = r, !.unsure = u]
         /\ \/ store' = m.store /\ r = m.reply /\ u = server.unsure
            \/ store' = store /\ r \in {"unsure", "refused"} /\ u = server.unsure
            \/ store' = m.store /\ r = "unsure" /\ u = TRUE /\ m.reply = "ok"
  <2>1. \A r : /\ [server EXCEPT !.reply = r] = [server EXCEPT !.reply = r, !.unsure = server.unsure]
               /\ server.unsure \in BOOLEAN
    BY <1>1 DEF Servers
  <2> QED
    BY <1>4, <1>5, <2>1
<1> DEFINE w == [server EXCEPT !.reply = r, !.unsure = u]
<1>7. /\ w \in Servers /\ w.reply = r /\ w.unsure = u
      /\ w.up = server.up /\ w.state = server.state /\ w.rec = server.rec
      /\ w.durable = server.durable /\ w.fence = server.fence /\ w.drain = server.drain
      /\ w.waits = server.waits /\ w.regs = server.regs /\ w.calls = server.calls
      /\ w.line = server.line
  BY <1>1 DEF Servers
<1>8. server' = w
  BY <1>6
<1> HIDE DEF w
<1>9. /\ Doc(store') /\ Grows(store, store')
      /\ Head1 # Merge =>
            /\ store'.merge = store.merge
            /\ store'.rec.op = Merge =>
                  store.rec.op = Merge \/ store.merge \in {"merged", "completed"}
  BY <1>2, <1>3, <1>6 DEF Granted
<1>10. Told(store', w, alone, Head1, r)
  <2>1. CASE store' = m.store /\ r = m.reply /\ u = server.unsure
    <3>1. Told(m.store, server, alone, Head1, m.reply)
      BY <1>2 DEF Granted
    <3>2. Told(m.store, w, alone, Head1, m.reply)
      BY <3>1, <2>1, <1>7 DEF Told, Covered
    <3> QED
      BY <3>2, <2>1
  <2>2. CASE store' = store /\ r \in {"unsure", "refused"} /\ u = server.unsure
    <3>1. Told(store, w, alone, Head1, r)
      BY <1>3, <2>2, <1>7 DEF Told, Covered
    <3> QED
      BY <3>1, <2>2
  <2>3. CASE store' = m.store /\ r = "unsure" /\ u = TRUE
    <3>1. Told(m.store, server, alone, Head1, m.reply)
      BY <1>2 DEF Granted
    <3>2. Told(m.store, w, alone, Head1, "unsure")
      BY <3>1, <2>3, <1>7 DEF Told, Covered
    <3> QED
      BY <3>2, <2>3
  <2> QED
    BY <1>6, <2>1, <2>2, <2>3
<1>11. Good(store', w, alone, {}) /\ Pending(store', w, alone) /\ Merging(store', w, {Head1})
  BY <1>1, <1>7, <1>9, <1>10, Answered
<1>12. Head(w.line) = Head1
  BY <1>7 DEF Head1
<1> QED
  BY <1>1, <1>4, <1>6, <1>7, <1>8, <1>9, <1>11, <1>12 DEF IInv

-----------------------------------------------------------------------------
(* Steps beside the storage: an actor that is not in line goes on. *)

\* From v to w the actor a goes on, and the head of the line does not notice.
Behind(v, w, a) ==
    /\ w.up = v.up /\ w.unsure = v.unsure /\ w.reply = v.reply /\ w.durable = v.durable
    /\ v.fence # NoOp => w.fence = v.fence
    /\ v.line # <<>> => w.line # <<>> /\ Head(w.line) = Head(v.line)
    /\ \A b \in Actors \ {a} : \/ w.calls[b].pc = v.calls[b].pc
                               \/ v.calls[b].pc \in {"inspect", "again", "drain"}
    /\ Stays(v, w, {a})

\* Two movements behind the head are one.
LEMMA BehindBoth ==
    ASSUME NEW u, NEW v, NEW w, NEW a, Behind(u, v, a), Behind(v, w, a)
    PROVE  Behind(u, w, a)
<1>1. Stays(u, w, {a})
  BY DEF Behind, Stays
<1> QED
  BY <1>1 DEF Behind

\* Going to a place outside the storage happens behind the head.
LEMMA AtBehind ==
    ASSUME NEW v \in Servers, NEW a \in Actors, NEW pc PROVE Behind(v, At(v, a, pc), a)
<1> DEFINE k == [v.calls EXCEPT ![a] = [v.calls[a] EXCEPT !.pc = pc]]
           w == At(v, a, pc)
<1>1. v.calls \in [Actors -> CallType] /\ Calls \subseteq Actors
  BY Numbers DEF Servers
<1>2. \A b \in Actors \ {a} : k[b] = v.calls[b]
  BY <1>1
<1>3. w = [v EXCEPT !.calls = k]
  BY DEF At
<1> HIDE DEF k, w
<1>4. /\ w.up = v.up /\ w.unsure = v.unsure /\ w.reply = v.reply /\ w.durable = v.durable
      /\ w.fence = v.fence /\ w.line = v.line /\ w.calls = k
  BY <1>3 DEF Servers
<1> QED
  BY <1>1, <1>2, <1>4 DEF Behind, Stays, w

\* So does the end of a call,
LEMMA EndBehind ==
    ASSUME NEW v \in Servers, NEW c \in Calls PROVE Behind(v, End(v, c), c)
<1> DEFINE k == [v.calls EXCEPT ![c] = Ended(c)]
           w == End(v, c)
<1>1. v.calls \in [Actors -> CallType] /\ Calls \subseteq Actors
  BY Numbers DEF Servers
<1>2. \A b \in Actors \ {c} : k[b] = v.calls[b]
  BY <1>1
<1>3. w = [v EXCEPT !.calls = k]
  BY DEF End
<1> HIDE DEF k, w
<1>4. /\ w.up = v.up /\ w.unsure = v.unsure /\ w.reply = v.reply /\ w.durable = v.durable
      /\ w.fence = v.fence /\ w.line = v.line /\ w.calls = k
  BY <1>3 DEF Servers
<1> QED
  BY <1>1, <1>2, <1>4 DEF Behind, Stays, w

\* Whoever comes to a line does not change its head.
LEMMA HeadStays ==
    ASSUME NEW S, NEW q \in Seq(S), q # <<>>
    PROVE  /\ \A e \in S : Append(q, e) # <<>> /\ Head(Append(q, e)) = Head(q)
           /\ \A r \in Seq(S) : q \o r # <<>> /\ Head(q \o r) = Head(q)
<1>1. Len(q) \in Nat \ {0} /\ Head(q) = q[1] /\ Len(<<>>) = 0
  BY EmptySeq, LenProperties, HeadTailProperties
<1>2. ASSUME NEW e \in S
      PROVE  Append(q, e) # <<>> /\ Head(Append(q, e)) = Head(q)
  <2> DEFINE t == Append(q, e)
  <2>1. t \in Seq(S) /\ Len(t) = Len(q) + 1 /\ t[1] = q[1]
    BY <1>1, AppendProperties
  <2> HIDE DEF t
  <2>2. t # <<>>
    BY <2>1, <1>1
  <2>3. Head(t) = t[1]
    BY <2>1, <2>2, HeadTailProperties
  <2> QED
    BY <2>1, <2>2, <2>3, <1>1 DEF t
<1>3. ASSUME NEW r \in Seq(S)
      PROVE  q \o r # <<>> /\ Head(q \o r) = Head(q)
  <2> DEFINE t == q \o r
  <2>1. t \in Seq(S) /\ Len(t) = Len(q) + Len(r) /\ Len(r) \in Nat
    BY ConcatProperties, LenProperties
  <2>2. t[1] = q[1]
    BY <1>1, <2>1, ConcatProperties
  <2> HIDE DEF t
  <2>3. t # <<>>
    BY <2>1, <1>1
  <2>4. Head(t) = t[1]
    BY <2>1, <2>3, HeadTailProperties
  <2> QED
    BY <2>2, <2>3, <2>4, <1>1 DEF t
<1> QED
  BY <1>2, <1>3

\* coming to the line,
LEMMA QueueBehind ==
    ASSUME NEW v \in Servers, NEW a \in Actors, NEW pc,
           \A c \in Calls \ {a} : v.calls[c].pc \notin {"inspect", "again"}
    PROVE  Behind(v, Queue(v, a, pc), a)
<1> DEFINE d == Disturbed(v, {a})
           k == [d EXCEPT ![a].pc = pc]
           l == Append(v.line, a)
           w == Queue(v, a, pc)
<1>1. v.calls \in [Actors -> CallType] /\ Calls \subseteq Actors /\ v.line \in Seq(Actors)
  BY Numbers DEF Servers
<1>2. \A b \in Actors \ {a} : d[b] = v.calls[b] \/ v.calls[b].pc \in {"inspect", "again"}
  BY DEF Disturbed
<1>3. d \in [Actors -> {d[b] : b \in Actors}]
  BY DEF Disturbed
<1> HIDE DEF d
<1>4. \A b \in Actors \ {a} : k[b] = d[b]
  BY <1>3
<1>5. v.line # <<>> => l # <<>> /\ Head(l) = Head(v.line)
  BY <1>1, HeadStays
<1>6. w = [v EXCEPT !.calls = k, !.line = l]
  BY DEF Queue, d
<1> HIDE DEF k, w, l
<1>7. /\ w.up = v.up /\ w.unsure = v.unsure /\ w.reply = v.reply /\ w.durable = v.durable
      /\ w.fence = v.fence /\ w.line = l /\ w.calls = k
  BY <1>6 DEF Servers
<1> QED
  BY <1>1, <1>2, <1>4, <1>5, <1>7 DEF Behind, Stays, w

\* publishing and learning,
LEMMA TellsBehind ==
    ASSUME NEW v, NEW w, NEW a, Tells(v, w, a) PROVE Behind(v, w, a)
  BY Numbers DEF Tells, Behind, Stays

\* a registration,
LEMMA RegisteredBehind ==
    ASSUME NEW v \in Servers, NEW n \in Saves, NEW as
    PROVE  Behind(v, Registered(v, n, as), n)
<1> DEFINE w == Registered(v, n, as)
           r == [v.regs EXCEPT ![n] = as]
<1>1. w = [v EXCEPT !.regs = r]
  BY DEF Registered
<1> HIDE DEF r, w
<1>2. /\ w.up = v.up /\ w.unsure = v.unsure /\ w.reply = v.reply /\ w.durable = v.durable
      /\ w.fence = v.fence /\ w.line = v.line /\ w.calls = v.calls
  BY <1>1 DEF Servers
<1> QED
  BY <1>2 DEF Behind, Stays, w

\* the fence, which lets everyone who has waited come to the line,
LEMMA FenceBehind ==
    ASSUME NEW v \in Servers, NEW a, v.fence = NoOp,
           \A b \in Range(v.waits) \ {a} : v.calls[b].pc = "drain",
           \A c \in Calls \ {a} : v.calls[c].pc \notin {"inspect", "again"}
    PROVE  Behind(v, Fence(v), a)
<1> DEFINE W == Range(v.waits)
           d == Disturbed(v, W)
           k == [b \in Actors |-> IF b \in W THEN [d[b] EXCEPT !.pc = Asks(b)] ELSE d[b]]
           l == v.line \o v.waits
           w == Fence(v)
<1>1. /\ v.calls \in [Actors -> CallType] /\ Calls \subseteq Actors /\ v.line \in Seq(Actors)
      /\ v.waits \in Seq(Actors) /\ W \subseteq Calls
  <2>1. v.waits \in Seq(Calls) /\ Calls \subseteq Actors
    BY Numbers DEF Servers
  <2> QED
    BY <2>1, RangeIs, SeqMonotonic DEF Servers
<1> HIDE DEF W
<1>2. \A b \in Actors \ W : \/ d[b] = v.calls[b]
                            \/ v.calls[b].pc \in {"inspect", "again"}
  BY DEF Disturbed
<1>3. \A b \in W : d[b] = v.calls[b]
  BY <1>1 DEF Disturbed
<1> HIDE DEF d
<1>4. \A b \in Actors : k[b] = IF b \in W THEN [d[b] EXCEPT !.pc = Asks(b)] ELSE d[b]
  OBVIOUS
<1>5. \A b \in W : k[b].pc = Asks(b) /\ Asks(b) \in {"reserve", "activate"}
  <2>1. \A pc : \A e \in CallType : [e EXCEPT !.pc = pc].pc = pc
    BY DEF CallType
  <2>2. \A b \in W : v.calls[b] \in CallType /\ b \in Actors
    BY <1>1
  <2> QED
    BY <2>1, <2>2, <1>3, <1>4 DEF Asks
<1>6. v.line # <<>> => l # <<>> /\ Head(l) = Head(v.line)
  BY <1>1, HeadStays
<1>7. w = [v EXCEPT !.fence = v.drain, !.drain = NoOp, !.waits = <<>>, !.line = l, !.calls = k]
  BY DEF Fence, d, W
<1> HIDE DEF k, w, l
<1>8. /\ w.up = v.up /\ w.unsure = v.unsure /\ w.reply = v.reply /\ w.durable = v.durable
      /\ w.line = l /\ w.calls = k
  BY <1>7 DEF Servers
<1>9. \A b \in Actors \ {a} : \/ w.calls[b].pc = v.calls[b].pc
                              \/ v.calls[b].pc \in {"inspect", "again", "drain"}
  BY <1>2, <1>4, <1>8 DEF W
<1>10. Stays(v, w, {a})
  BY <1>1, <1>2, <1>4, <1>5, <1>8 DEF Stays
<1> QED
  BY <1>6, <1>8, <1>9, <1>10 DEF Behind, w

\* and the begin of a removal.
LEMMA BeginBehind ==
    ASSUME NEW s, NEW v, NEW al \in BOOLEAN, NEW c \in Calls, Good(s, v, al, {c})
    PROVE  Behind(v, Begin(v, c), c)
<1> DEFINE known == IF v.durable # NoOp THEN v.durable
                    ELSE IF v.fence # NoOp THEN v.fence ELSE v.drain
           op == IF known = NoOp THEN c ELSE known
           k == [v.calls EXCEPT ![c] = [v.calls[c] EXCEPT !.op = op]]
           w == [v EXCEPT !.calls[c].op = op]
           joined == [At(w, c, "drain") EXCEPT !.drain = op, !.waits = Append(@, c)]
<1>1. Begin(v, c) = IF c = Merge /\ op # c THEN End(w, c)
                    ELSE IF v.durable # NoOp \/ v.fence # NoOp THEN Queue(w, c, Asks(c))
                    ELSE IF Live(v) = {} THEN Fence(joined) ELSE joined
  BY DEF Begin
<1>2. /\ v \in Servers /\ v.calls \in [Actors -> CallType] /\ c \in Actors
      /\ v.calls[c] \in CallType /\ v.waits \in Seq(Calls) /\ v.waits \in Seq(Actors)
      /\ \A d \in {v.durable, v.fence, v.drain} : d \in Ops
  BY Numbers, SeqMonotonic DEF Good, Typed, Servers
<1>3. op \in Ops
  BY <1>2 DEF Ops
<1>4. /\ \A b \in Calls \ {c} : v.calls[b].pc \notin {"inspect", "again"}
      /\ \A b \in Range(v.waits) : v.calls[b].pc = "drain"
  BY Numbers DEF Good, Typed, Indexed, PcsOf, MergePcs, RemovalPcs, Cleanup
<1> HIDE DEF op
<1>5. /\ k \in [Actors -> CallType] /\ \A b \in Actors \ {c} : k[b] = v.calls[b]
  BY <1>2, <1>3 DEF CallType
<1>6. w = [v EXCEPT !.calls = k]
  OBVIOUS
<1> HIDE DEF k, w
<1>7. /\ w \in Servers /\ w.calls = k
      /\ w.up = v.up /\ w.unsure = v.unsure /\ w.reply = v.reply /\ w.durable = v.durable
      /\ w.fence = v.fence /\ w.line = v.line /\ w.waits = v.waits
  BY <1>2, <1>5, <1>6 DEF Servers
<1>8. Behind(v, w, c) /\ \A b \in Calls \ {c} : w.calls[b].pc \notin {"inspect", "again"}
  BY <1>4, <1>5, <1>7, Numbers DEF Behind, Stays
<1>9. Behind(v, End(w, c), c) /\ Behind(v, Queue(w, c, Asks(c)), c)
  <2>1. Behind(w, End(w, c), c)
    BY <1>7, EndBehind
  <2>2. Behind(w, Queue(w, c, Asks(c)), c)
    BY <1>2, <1>7, <1>8, QueueBehind
  <2> QED
    BY <1>8, <2>1, <2>2, BehindBoth
<1>10. CASE v.durable = NoOp /\ v.fence = NoOp
  <2> DEFINE u == At(w, c, "drain")
             q == Append(v.waits, c)
             t == [w.calls EXCEPT ![c] = [w.calls[c] EXCEPT !.pc = "drain"]]
  <2>1. Behind(w, u, c)
    BY <1>2, <1>7, AtBehind
  <2>2. /\ t \in [Actors -> CallType] /\ \A b \in Actors \ {c} : t[b] = w.calls[b]
        /\ u = [w EXCEPT !.calls = t]
    <3>1. w.calls \in [Actors -> CallType] /\ w.calls[c] \in CallType /\ "drain" \in Pcs
      BY <1>2, <1>5, <1>7 DEF Pcs, RemovalPcs
    <3>2. [w.calls[c] EXCEPT !.pc = "drain"] \in CallType
      BY <3>1, CallMoves
    <3> QED
      BY <3>1, <3>2 DEF At
  <2> HIDE DEF t, u
  <2>3. /\ u \in Servers /\ u.calls = t /\ u.waits = v.waits /\ u.fence = NoOp /\ u.line = w.line
        /\ u.up = w.up /\ u.unsure = w.unsure /\ u.reply = w.reply /\ u.durable = w.durable
    BY <2>2, <1>7, <1>10 DEF Servers
  <2>4. joined = [u EXCEPT !.drain = op, !.waits = q]
    BY <2>3 DEF u
  <2>5. q \in Seq(Calls) /\ Range(q) = Range(v.waits) \cup {c}
    BY <1>2, Stands
  <2> HIDE DEF q, joined
  <2>6. /\ joined \in Servers /\ joined.calls = t /\ joined.waits = q /\ joined.fence = NoOp
        /\ joined.line = u.line /\ joined.up = u.up /\ joined.unsure = u.unsure
        /\ joined.reply = u.reply /\ joined.durable = u.durable
    BY <1>3, <2>3, <2>4, <2>5 DEF Servers
  <2>7. Behind(u, joined, c)
    BY <2>3, <2>6, Numbers DEF Behind, Stays
  <2>8. Behind(v, joined, c)
    BY <1>8, <2>1, <2>7, BehindBoth
  <2>9. /\ \A b \in Range(joined.waits) \ {c} : joined.calls[b].pc = "drain"
        /\ \A b \in Calls \ {c} : joined.calls[b].pc \notin {"inspect", "again"}
    <3>1. Range(v.waits) \subseteq Actors
      BY <1>2, RangeIs
    <3> QED
      BY <3>1, <1>4, <1>5, <1>7, <1>8, <2>2, <2>5, <2>6, Numbers
  <2>10. Behind(joined, Fence(joined), c)
    BY <2>6, <2>9, FenceBehind
  <2>11. Behind(v, Fence(joined), c)
    BY <2>8, <2>10, BehindBoth
  <2>12. Begin(v, c) \in {End(w, c), Fence(joined), joined}
    BY <1>1, <1>10 DEF joined, w
  <2> QED
    BY <1>9, <2>8, <2>11, <2>12
<1>11. CASE v.durable # NoOp \/ v.fence # NoOp
  <2>1. Begin(v, c) \in {End(w, c), Queue(w, c, Asks(c))}
    BY <1>1, <1>11 DEF w
  <2> QED
    BY <1>9, <2>1
<1> QED
  BY <1>10, <1>11

\* The step of an actor that is not in line keeps the invariant.
LEMMA BesideKeeps ==
    ASSUME IInv, NEW a \in Actors, server.calls[a].pc \notin Queued, store' = store,
           alone' \in BOOLEAN, alone' => alone, faults' \in Nat,
           Good(store, server', alone', {}), Behind(server, server', a),
           Suits(store, a, server'.calls[a].pc)
    PROVE  IInv'
<1> DEFINE w == server'
           al == alone'
           h == Head(server.line)
<1>1. Doc(store) /\ Good(store, server, alone, {}) /\ alone \in BOOLEAN
  BY DEF IInv
<1> HIDE DEF w, al
<1>2. /\ Good(store, w, al, {}) /\ Behind(server, w, a) /\ Suits(store, a, w.calls[a].pc)
      /\ al \in BOOLEAN /\ (al => alone)
  BY DEF w, al
<1>3. ASSUME Merging(store, server, {})
      PROVE  Merging(store, w, {})
  <2>1. Merging(store, server, {a})
    BY <1>3 DEF Merging
  <2>2. Stays(server, w, {a})
    BY <1>2 DEF Behind
  <2> QED
    BY <1>1, <1>2, <2>1, <2>2, MergingKept
<1>4. CASE server.reply = "none"
  <2>1. Merging(store, w, {})
    BY <1>3, <1>4 DEF IInv
  <2>2. Covered(store, w, al)
    BY <1>2, <1>4 DEF IInv, Covered, Behind
  <2>3. w.reply = "none"
    BY <1>2, <1>4 DEF Behind
  <2> QED
    BY <1>1, <1>2, <2>1, <2>2, <2>3 DEF IInv, w, al
<1>5. CASE server.reply # "none"
  <2>1. /\ server.up /\ server.line # <<>> /\ Told(store, server, alone, h, server.reply)
        /\ Merging(store, server, {h})
    BY <1>5 DEF IInv, Pending
  <2>2. server \in Servers /\ server.line \in Seq(Actors) /\ Distinct(server.line)
    BY <1>1 DEF Good, Typed, Lined, Servers
  <2>3. h \in Actors /\ h \in Range(server.line)
    BY <2>1, <2>2, Leaves
  <2> HIDE DEF h
  <2>4. server.calls[h].pc \in Queued /\ h # a
    BY <1>1, <2>3 DEF Good, Lined
  <2>5. w.calls[h].pc = server.calls[h].pc
    BY <1>2, <2>3, <2>4 DEF Behind, Queued
  <2>6. w.line # <<>> /\ Head(w.line) = h /\ w.reply = server.reply /\ w.up
    BY <1>2, <2>1 DEF Behind, h
  <2>7. Covered(store, server, alone) => Covered(store, w, al)
    BY <1>2 DEF Behind, Covered
  <2>8. \/ Covered(store, w, al)
        \/ /\ server.calls[h].pc \in {"reserve", "activate"}
           /\ server.reply = "ok" /\ w.fence = store.rec.op
    <3>1. CASE Covered(store, server, alone)
      BY <3>1, <2>7
    <3>2. CASE ~Covered(store, server, alone)
      <4>1. /\ server.calls[h].pc \in {"reserve", "activate"}
            /\ server.reply = "ok" /\ server.fence = store.rec.op
        BY <2>1, <3>2 DEF Told
      <4>2. store.rec.op # NoOp
        BY <1>1, <2>1, <4>1, Numbers, Fields DEF Told, Doc
      <4> QED
        BY <4>1, <4>2, <1>2 DEF Behind
    <3> QED
      BY <3>1, <3>2
  <2>9. Told(store, w, al, h, server.reply)
    BY <2>1, <2>5, <2>8 DEF Told
  <2>10. Pending(store, w, al)
    BY <2>6, <2>9 DEF Pending
  <2>11. Merging(store, w, {h})
    <3>1. CASE h = Merge
      BY <3>1 DEF Merging
    <3>2. CASE h # Merge
      <4>1. Merging(store, server, {})
        BY <2>1, <3>2 DEF Merging
      <4> QED
        BY <4>1, <1>3 DEF Merging
    <3> QED
      BY <3>1, <3>2
  <2> QED
    BY <1>1, <1>2, <1>5, <2>6, <2>10, <2>11 DEF IInv, w, al
<1> QED
  BY <1>4, <1>5

\* What the merge may rely on while it is not in line.
LEMMA MergeRests ==
    ASSUME IInv, server.calls[Merge].pc \notin Queued
    PROVE  store.merge \in MergeBefore(server.calls[Merge].pc)
<1>1. CASE server.reply = "none"
  BY <1>1 DEF IInv, Merging
<1>2. CASE server.reply # "none"
  <2>1. server \in Servers /\ server.line \in Seq(Actors) /\ Distinct(server.line)
        /\ server.line # <<>>
    BY <1>2 DEF IInv, Good, Typed, Lined, Servers, Pending
  <2>2. Head(server.line) \in Actors /\ Head(server.line) \in Range(server.line)
    BY <2>1, Leaves
  <2>3. Head(server.line) # Merge
    BY <2>2, Numbers DEF IInv, Good, Lined
  <2> QED
    BY <1>2, <2>3 DEF IInv, Merging
<1> QED
  BY <1>1, <1>2

\* The actor a goes on beside the storage.
Moving(s, v, al, a) == Doc(s) /\ Good(s, v, al, {a}) /\ v.up /\ al \in BOOLEAN

\* The merge may go anywhere before git has done it.
LEMMA EarlyMay ==
    ASSUME NEW s, NEW v, NEW al, Moving(s, v, al, Merge), NEW pc \in Early
    PROVE  Fits(s, v, al, Merge, pc) /\ Merge \in Actors
<1>1. Free(s, v, Merge)
  BY MergeIsFree DEF Moving
<1>2. Merge \notin Saves /\ Merge \in Actors
  BY Numbers
<1> QED
  BY <1>1, <1>2 DEF Fits, Early, PcsOf, MergePcs, Cleanup, Moving

\* A removal under a durable closing may go on.
LEMMA CleanupMay ==
    ASSUME NEW s, NEW v, NEW al, NEW c \in Calls, Moving(s, v, al, c),
           v.durable # NoOp, c = Merge => s.merge \in {"merged", "completed"},
           NEW pc \in Cleanup \cup {"conclude"}, pc = "conclude" => c = Merge,
           pc \in {"finalizing", "finalized"} => ~s.task,
           pc = "step" => v.calls[c].rec.steps < Steps
    PROVE  Fits(s, v, al, c, pc) /\ Suits(s, c, pc) /\ Free(s, v, c) /\ c \in Actors
<1>1. v.fence = NoOp
  BY DEF Moving, Good, Indexed
<1>2. c \notin Saves /\ c \in Actors
  BY Numbers
<1>3. pc \in PcsOf(c) /\ pc \notin {"drain", "reserve", "activate", "fail"}
  BY <1>2 DEF PcsOf, MergePcs, RemovalPcs, Cleanup
<1>4. Fits(s, v, al, c, pc)
  BY <1>1, <1>2, <1>3 DEF Fits, Free, Moving
<1>5. Suits(s, c, pc)
  BY <1>3 DEF Suits, MergeBefore, Cleanup
<1> QED
  BY <1>1, <1>2, <1>4, <1>5 DEF Free

\* Publishing a record that the document bears out keeps the rest in place.
LEMMA PublishGood ==
    ASSUME NEW s, NEW v, NEW al \in BOOLEAN, NEW a \in Actors, Good(s, v, al, {a}),
           NEW rec \in Recs, NEW present \in BOOLEAN,
           Closing(rec) => Taken(s), ~present => ~s.task
    PROVE  /\ Good(s, Publish(v, rec, present), al, {a})
           /\ Tells(v, Publish(v, rec, present), a) /\ Publish(v, rec, present) \in Servers
<1> DEFINE w == Publish(v, rec, present)
           st == IF present THEN "present" ELSE "removed"
<1>1. v \in Servers /\ Shown(s, v, {a}) /\ {a} \in SUBSET Actors
  BY DEF Good, Typed
<1>2. st \in {"absent", "present", "removed"} /\ st # "absent" /\ (st = "removed" => ~s.task)
  OBVIOUS
<1>3. w = [v EXCEPT !.rec = rec, !.state = st]
  BY DEF Publish
<1> HIDE DEF w, st
<1>4. w \in Servers /\ Tells(v, w, a) /\ w.calls = v.calls /\ w.state = st /\ w.rec = rec
  BY <1>1, <1>2, <1>3 DEF Servers, Tells
<1>5. Good(s, w, al, {a})
  BY <1>1, <1>2, <1>4, Showing DEF Tells
<1> QED
  BY <1>4, <1>5 DEF w

\* So does closing the barrier of the notes.
LEMMA DegradeGood ==
    ASSUME NEW s, NEW v, NEW al \in BOOLEAN, NEW X \in SUBSET Actors, Good(s, v, al, X),
           NEW a
    PROVE  /\ Good(s, Degrade(v), al, X) /\ Degrade(v) \in Servers
           /\ Tells(v, Degrade(v), a) /\ Degrade(v).calls = v.calls
<1> DEFINE w == Degrade(v)
<1>1. v \in Servers /\ Shown(s, v, X)
  BY DEF Good, Typed
<1>2. w \in Servers /\ Tells(v, w, a) /\ w.calls = v.calls /\ w.state = v.state /\ w.rec = v.rec
  BY <1>1 DEF Degrade, Servers, Tells
<1> HIDE DEF w
<1>3. Good(s, w, al, X)
  BY <1>1, <1>2, Showing DEF Shown, Tells
<1> QED
  BY <1>2, <1>3 DEF w

\* The actor a sets out from the server as it is, and is at v when it takes its last step.
Beside(v, a) ==
    /\ a \in Actors /\ server.calls[a].pc \notin Queued /\ Behind(server, v, a)
    /\ Good(store, v, alone', {a}) /\ alone' \in BOOLEAN /\ (alone' => alone)
    /\ UNCHANGED <<store, faults>>

\* No call inspects: only saves are disturbed.
LEMMA Others ==
    ASSUME NEW s, NEW v, NEW al, NEW a, Good(s, v, al, {a})
    PROVE  /\ v \in Servers
           /\ \A c \in Calls \ {a} : v.calls[c].pc \notin {"inspect", "again"}
  BY Numbers DEF Good, Typed, PcsOf, MergePcs, RemovalPcs, Cleanup

\* A step beside the storage that ends in line keeps the invariant,
LEMMA QueueBeside ==
    ASSUME IInv, NEW v, NEW a, NEW pc \in Queued, Beside(v, a),
           Fits(store, v, alone', a, pc), Suits(store, a, pc), server' = Queue(v, a, pc)
    PROVE  IInv'
<1> DEFINE w == Queue(v, a, pc)
<1>1. /\ a \in Actors /\ alone' \in BOOLEAN /\ Good(store, v, alone', {a}) /\ v \in Servers
      /\ \A c \in Calls \ {a} : v.calls[c].pc \notin {"inspect", "again"}
  BY Others DEF Beside
<1>2. Good(store, w, alone', {}) /\ w.calls[a].pc = pc
  BY <1>1, QueueGood
<1>3. Behind(v, w, a)
  BY <1>1, QueueBehind
<1> HIDE DEF w
<1>4. Behind(server, w, a)
  BY <1>3, BehindBoth DEF Beside
<1>5. server' = w
  BY DEF w
<1>6. faults' \in Nat /\ store' = store
  BY DEF Beside, IInv
<1> QED
  BY <1>1, <1>2, <1>4, <1>5, <1>6, BesideKeeps DEF Beside

\* one that ends outside,
LEMMA AtBeside ==
    ASSUME IInv, NEW v, NEW a, NEW pc \in Pcs \ Queued, Beside(v, a),
           Fits(store, v, alone', a, pc), Suits(store, a, pc), server' = At(v, a, pc)
    PROVE  IInv'
<1> DEFINE w == At(v, a, pc)
<1>1. /\ a \in Actors /\ alone' \in BOOLEAN /\ Good(store, v, alone', {a}) /\ v \in Servers
  BY Others DEF Beside
<1>2. Good(store, w, alone', {}) /\ w.calls[a].pc = pc
  BY <1>1, AtGood
<1>3. Behind(v, w, a)
  BY <1>1, AtBehind
<1> HIDE DEF w
<1>4. Behind(server, w, a)
  BY <1>3, BehindBoth DEF Beside
<1>5. server' = w
  BY DEF w
<1>6. faults' \in Nat /\ store' = store
  BY DEF Beside, IInv
<1> QED
  BY <1>1, <1>2, <1>4, <1>5, <1>6, BesideKeeps DEF Beside

\* one that ends the call,
LEMMA EndBeside ==
    ASSUME IInv, NEW v, NEW c \in Calls, Beside(v, c), Free(store, v, c), server' = End(v, c)
    PROVE  IInv'
<1> DEFINE w == End(v, c)
<1>1. /\ c \in Actors /\ alone' \in BOOLEAN /\ Good(store, v, alone', {c}) /\ v \in Servers
  BY Others DEF Beside
<1>2. Good(store, w, alone', {}) /\ w.calls[c].pc \in Over
  BY <1>1, EndGood
<1>3. Behind(v, w, c)
  BY <1>1, EndBehind
<1> HIDE DEF w
<1>4. Behind(server, w, c)
  BY <1>3, BehindBoth DEF Beside
<1>5. server' = w
  BY DEF w
<1>6. faults' \in Nat /\ store' = store
  BY DEF Beside, IInv
<1>7. Suits(store, c, w.calls[c].pc)
  BY <1>2 DEF Suits, MergeBefore, Cleanup, Over, IInv, Doc, Stores
<1> QED
  BY <1>1, <1>2, <1>4, <1>5, <1>6, <1>7, BesideKeeps DEF Beside

\* and one that begins a removal.
LEMMA BeginBeside ==
    ASSUME IInv, NEW v, NEW c \in Calls, Beside(v, c), v.up,
           c = Merge => store.merge \in {"merged", "completed"}, server' = Begin(v, c)
    PROVE  IInv'
<1> DEFINE w == Begin(v, c)
<1>1. /\ c \in Actors /\ alone' \in BOOLEAN /\ Good(store, v, alone', {c}) /\ Doc(store)
  BY DEF Beside, IInv
<1>2. Good(store, w, alone', {}) /\ w.calls[c].pc \in {"drain", "reserve", "activate"} \cup Over
  BY <1>1, BeginGood
<1>3. Behind(v, w, c)
  BY <1>1, BeginBehind
<1> HIDE DEF w
<1>4. Behind(server, w, c)
  BY <1>3, BehindBoth DEF Beside
<1>5. server' = w
  BY DEF w
<1>6. faults' \in Nat /\ store' = store
  BY DEF Beside, IInv
<1>7. Suits(store, c, w.calls[c].pc)
  BY <1>2 DEF Suits, MergeBefore, Cleanup, Over, IInv, Doc, Stores
<1> QED
  BY <1>1, <1>2, <1>4, <1>5, <1>6, <1>7, BesideKeeps DEF Beside

\* An actor sets out.
LEMMA SetsOut ==
    ASSUME IInv, NEW a \in Actors, server.calls[a].pc \notin Queued \cup {"drain"}, server.up,
           UNCHANGED <<store, faults>>, alone' \in BOOLEAN,
           alone' => alone /\ (a \in Calls => \A c \in Calls \ {a} : ~Flies(server, c))
    PROVE  /\ Beside(server, a) /\ Moving(store, server, alone', a) /\ Doc(store)
           /\ server \in Servers /\ server.calls[a] \in CallType
           /\ a = Merge => store.merge \in MergeBefore(server.calls[Merge].pc)
<1>1. Good(store, server, alone, {}) /\ alone \in BOOLEAN /\ Doc(store) /\ server \in Servers
  BY DEF IInv, Good, Typed
<1>2. Good(store, server, alone', {a})
  BY <1>1, Aside
<1>3. Behind(server, server, a)
  BY DEF Behind, Stays
<1>4. a = Merge => store.merge \in MergeBefore(server.calls[Merge].pc)
  BY MergeRests
<1> QED
  BY <1>1, <1>2, <1>3, <1>4 DEF Beside, Moving, Servers

\* What flies alone, goes on alone.
LEMMA GoesOnAlone ==
    ASSUME IInv, NEW a \in Actors, a \in Calls => Flies(server, a), UNCHANGED alone
    PROVE  /\ alone' \in BOOLEAN
           /\ alone' => alone /\ (a \in Calls => \A c \in Calls \ {a} : ~Flies(server, c))
<1>1. alone => Alone(server, TRUE, {})
  BY DEF IInv, Good, Alone
<1> QED
  BY <1>1 DEF IInv, Alone

\* A request to remove the task.
LEMMA RemoveTaskKeeps == ASSUME IInv, NEW c \in Removals, RemoveTask(c) PROVE IInv'
<1>1. /\ server.up /\ server.calls[c].pc = "idle" /\ UNCHANGED <<store, faults>>
      /\ server' = Begin(server, c) /\ alone' = (alone /\ InFlight = {})
  BY DEF RemoveTask, Takes
<1>2. c \in Calls /\ c \in Actors /\ c # Merge
  BY Numbers
<1>3. alone' \in BOOLEAN /\ (alone' => alone /\ \A d \in Calls \ {c} : ~Flies(server, d))
  BY <1>1 DEF InFlight, Flies, Over, IInv
<1>4. Beside(server, c)
  BY <1>1, <1>2, <1>3, SetsOut DEF Queued
<1> QED
  BY <1>1, <1>2, <1>4, BeginBeside

\* The merge is started, or found in its journal by a later process.
LEMMA StartMergeKeeps == ASSUME IInv, StartMerge PROVE IInv'
<1>1. /\ server.up /\ server.calls[Merge].pc = "idle" /\ UNCHANGED <<store, faults>>
      /\ alone' = (alone /\ InFlight = {})
  BY DEF StartMerge, Takes
<1>2. Merge \in Calls /\ Merge \in Actors
  BY Numbers
<1>3. alone' \in BOOLEAN /\ (alone' => alone /\ \A d \in Calls \ {Merge} : ~Flies(server, d))
  BY <1>1 DEF InFlight, Flies, Over, IInv
<1>4. Beside(server, Merge) /\ Moving(store, server, alone', Merge) /\ Doc(store)
  BY <1>1, <1>2, <1>3, SetsOut DEF Queued
<1>5. /\ Fits(store, server, alone', Merge, "admit-merge")
      /\ Fits(store, server, alone', Merge, "link")
      /\ Fits(store, server, alone', Merge, "doubt")
  BY <1>4, EarlyMay DEF Early
<1>6. {"admit-merge", "link", "doubt"} \subseteq Queued
  BY DEF Queued
<1>7. CASE store.merge = "issued" /\ server' = Queue(server, Merge, "admit-merge")
  <2>1. Suits(store, Merge, "admit-merge")
    BY <1>7 DEF Suits, MergeBefore, Cleanup
  <2> QED
    BY <2>1, <1>4, <1>5, <1>6, <1>7, QueueBeside
<1>8. CASE store.merge = "admitted" /\ server' = Queue(server, Merge, "link")
  <2>1. Suits(store, Merge, "link")
    BY <1>8 DEF Suits, MergeBefore, Cleanup
  <2> QED
    BY <2>1, <1>4, <1>5, <1>6, <1>8, QueueBeside
<1>9. CASE store.merge = "merging" /\ server' = Queue(server, Merge, "doubt")
  <2>1. Suits(store, Merge, "doubt")
    BY <1>9 DEF Suits, MergeBefore, Cleanup
  <2> QED
    BY <2>1, <1>4, <1>5, <1>6, <1>9, QueueBeside
<1>10. CASE store.merge = "merged" /\ server' = Begin(server, Merge)
  BY <1>1, <1>2, <1>4, <1>10, BeginBeside
<1> QED
  BY <1>7, <1>8, <1>9, <1>10 DEF StartMerge, Takes

\* The merge is authorized or not.
LEMMA AuthorizedKeeps == ASSUME IInv, NEW yes \in BOOLEAN, Authorized(yes) PROVE IInv'
<1>1. /\ server.up /\ server.calls[Merge].pc = "authorize" /\ UNCHANGED <<store, faults, alone>>
      /\ server' = Queue(server, Merge, IF yes THEN "mark" ELSE "abort")
  BY DEF Authorized, Takes
<1>2. Merge \in Calls /\ Merge \in Actors /\ Flies(server, Merge)
  BY <1>1, Numbers DEF Flies, Over
<1>3. /\ alone' \in BOOLEAN
      /\ alone' => alone /\ (Merge \in Calls => \A c \in Calls \ {Merge} : ~Flies(server, c))
  BY <1>1, <1>2, GoesOnAlone
<1>4. /\ Beside(server, Merge) /\ Moving(store, server, alone', Merge)
      /\ store.merge \in MergeBefore("authorize")
  BY <1>1, <1>2, <1>3, SetsOut DEF Queued
<1>5. ASSUME NEW pc \in {"mark", "abort"}
      PROVE  pc \in Queued /\ Fits(store, server, alone', Merge, pc) /\ Suits(store, Merge, pc)
  <2>1. pc \in Queued /\ pc \in Early /\ Suits(store, Merge, pc)
    BY <1>4 DEF Queued, Early, Suits, MergeBefore, Cleanup
  <2> QED
    BY <2>1, <1>4, EarlyMay
<1> QED
  BY <1>1, <1>4, <1>5, QueueBeside

\* Git has done the merge or not.
LEMMA GitEndsKeeps == ASSUME IInv, NEW merged \in BOOLEAN, GitEnds(merged) PROVE IInv'
<1>1. /\ server.up /\ server.calls[Merge].pc = "git" /\ UNCHANGED <<store, faults, alone>>
      /\ server' = Queue(server, Merge, IF merged THEN "succeed" ELSE "abort")
  BY DEF GitEnds, Takes
<1>2. Merge \in Calls /\ Merge \in Actors /\ Flies(server, Merge)
  BY <1>1, Numbers DEF Flies, Over
<1>3. /\ alone' \in BOOLEAN
      /\ alone' => alone /\ (Merge \in Calls => \A c \in Calls \ {Merge} : ~Flies(server, c))
  BY <1>1, <1>2, GoesOnAlone
<1>4. /\ Beside(server, Merge) /\ Moving(store, server, alone', Merge)
      /\ store.merge \in MergeBefore("git")
  BY <1>1, <1>2, <1>3, SetsOut DEF Queued
<1>5. ASSUME NEW pc \in {"succeed", "abort"}
      PROVE  pc \in Queued /\ Fits(store, server, alone', Merge, pc) /\ Suits(store, Merge, pc)
  <2>1. pc \in Queued /\ pc \in Early /\ Suits(store, Merge, pc)
    BY <1>4 DEF Queued, Early, Suits, MergeBefore, Cleanup
  <2> QED
    BY <2>1, <1>4, EarlyMay
<1> QED
  BY <1>1, <1>4, <1>5, QueueBeside

\* A participant of the cleanup answers.
LEMMA CleanedKeeps ==
    ASSUME IInv, NEW c \in Calls, NEW done \in BOOLEAN, Cleaned(c, done) PROVE IInv'
<1> DEFINE pc == IF server.calls[c].rec.steps < Steps THEN "step" ELSE "cleaned"
<1>1. /\ server.up /\ server.calls[c].pc = "cleaning" /\ UNCHANGED <<store, faults, alone>>
      /\ server' = IF done THEN Queue(server, c, pc) ELSE End(server, c)
  BY DEF Cleaned, Takes
<1>2. c \in Actors /\ Flies(server, c) /\ server.calls[c].pc \notin Queued \cup {"drain"}
  BY <1>1, Numbers DEF Flies, Over, Queued
<1>3. /\ alone' \in BOOLEAN
      /\ alone' => alone /\ (c \in Calls => \A d \in Calls \ {c} : ~Flies(server, d))
  BY <1>1, <1>2, GoesOnAlone
<1>4. /\ Beside(server, c) /\ Moving(store, server, alone', c)
      /\ c = Merge => store.merge \in MergeBefore("cleaning")
  BY <1>1, <1>2, <1>3, SetsOut
<1>5. server.durable # NoOp
  BY <1>1 DEF IInv, Good, Fenced, Cleanup
<1>6. c = Merge => store.merge \in {"merged", "completed"}
  BY <1>4 DEF MergeBefore, Cleanup
<1>7. /\ pc \in Queued /\ pc \in Cleanup /\ pc \notin {"finalizing", "finalized", "conclude"}
      /\ pc = "step" => server.calls[c].rec.steps < Steps
  BY DEF Queued, Cleanup
<1> HIDE DEF pc
<1>8. Fits(store, server, alone', c, pc) /\ Suits(store, c, pc) /\ Free(store, server, c)
  BY <1>4, <1>5, <1>6, <1>7, CleanupMay
<1>9. CASE done
  <2>1. server' = Queue(server, c, pc)
    BY <1>1, <1>9
  <2> QED
    BY <2>1, <1>4, <1>7, <1>8, QueueBeside
<1>10. CASE ~done
  <2>1. server' = End(server, c)
    BY <1>1, <1>10
  <2> QED
    BY <2>1, <1>4, <1>8, EndBeside
<1> QED
  BY <1>9, <1>10

\* A finalizer answers.
LEMMA FinalizedKeeps ==
    ASSUME IInv, NEW c \in Calls, NEW done \in BOOLEAN, Finalized(c, done) PROVE IInv'
<1> DEFINE rec == server.calls[c].rec
           v == Publish(server, rec, FALSE)
<1>1. /\ server.up /\ server.calls[c].pc = "finalizing" /\ UNCHANGED <<store, faults, alone>>
      /\ server' = IF done THEN Queue(server, c, "finalized") ELSE Leave(server, c, rec)
  BY DEF Finalized, Takes
<1>2. c \in Actors /\ Flies(server, c) /\ server.calls[c].pc \notin Queued \cup {"drain"}
  BY <1>1, Numbers DEF Flies, Over, Queued
<1>3. /\ alone' \in BOOLEAN
      /\ alone' => alone /\ (c \in Calls => \A d \in Calls \ {c} : ~Flies(server, d))
  BY <1>1, <1>2, GoesOnAlone
<1>4. /\ Beside(server, c) /\ Moving(store, server, alone', c) /\ Doc(store)
      /\ server \in Servers /\ server.calls[c] \in CallType
      /\ c = Merge => store.merge \in MergeBefore("finalizing")
  BY <1>1, <1>2, <1>3, SetsOut
<1>5. server.durable # NoOp /\ ~store.task
  BY <1>1 DEF IInv, Good, Fenced, Shown, Cleanup
<1>6. c = Merge => store.merge \in {"merged", "completed"}
  BY <1>4 DEF MergeBefore, Cleanup
<1>7. CASE done
  <2>1. "finalized" \in Queued /\ "finalized" \in Cleanup
    BY DEF Queued, Cleanup
  <2>2. Fits(store, server, alone', c, "finalized") /\ Suits(store, c, "finalized")
    BY <2>1, <1>4, <1>5, <1>6, CleanupMay
  <2> QED
    BY <2>1, <2>2, <1>1, <1>4, <1>7, QueueBeside
<1>8. CASE ~done
  <2>1. rec \in Recs /\ (Closing(rec) => Taken(store))
    BY <1>4, <1>5 DEF CallType, Taken
  <2> HIDE DEF rec
  <2>2. Good(store, v, alone', {c}) /\ Tells(server, v, c) /\ v \in Servers
    <3>1. Good(store, server, alone', {c}) /\ alone' \in BOOLEAN /\ c \in Actors
      BY <1>2, <1>4 DEF Moving
    <3>2. (~FALSE => ~store.task) /\ FALSE \in BOOLEAN
      BY <1>5
    <3> QED
      BY <3>1, <3>2, <2>1, PublishGood
  <2>3. server' = IF c = Merge THEN Queue(v, c, "conclude") ELSE End(v, c)
    BY <1>1, <1>8 DEF Leave
  <2> HIDE DEF v
  <2>4. Beside(v, c)
    <3>1. Behind(server, v, c)
      BY <2>2, TellsBehind
    <3> QED
      BY <3>1, <2>2, <1>4 DEF Beside
  <2>5. Moving(store, v, alone', c) /\ v.durable # NoOp
    BY <2>2, <1>1, <1>3, <1>4, <1>5 DEF Moving, Tells
  <2>6. CASE c = Merge
    <3>1. Fits(store, v, alone', c, "conclude") /\ Suits(store, c, "conclude")
      BY <2>5, <2>6, <1>6, CleanupMay
    <3>2. "conclude" \in Queued /\ server' = Queue(v, c, "conclude")
      BY <2>3, <2>6 DEF Queued
    <3> QED
      BY <3>1, <3>2, <2>4, QueueBeside
  <2>7. CASE c # Merge
    <3>1. "finalizing" \in Cleanup
      BY DEF Cleanup
    <3>2. Free(store, v, c)
      BY <3>1, <2>5, <2>7, <1>5, CleanupMay
    <3>3. server' = End(v, c)
      BY <2>3, <2>7
    <3> QED
      BY <3>2, <3>3, <2>4, EndBeside
  <2> QED
    BY <2>6, <2>7
<1> QED
  BY <1>7, <1>8

\* A save that is not in line sets out.
LEMMA SaveSetsOut ==
    ASSUME IInv, NEW n \in Saves, server.up, server.calls[n].pc \notin Queued,
           UNCHANGED <<store, faults, alone>>
    PROVE  /\ Beside(server, n) /\ Moving(store, server, alone', n) /\ n \in Actors
           /\ "active" \notin server.regs[n] /\ server \in Servers
<1>1. n \in Actors /\ n \notin Calls
  BY Numbers
<1>2. server.calls[n].pc \in SavePcs /\ "active" \notin server.regs[n]
  BY <1>1 DEF IInv, Good, Typed, PcsOf, Fenced, Holding, Queued
<1>3. server.calls[n].pc \notin Queued \cup {"drain"}
  BY <1>2 DEF SavePcs, Holding, Queued
<1>4. alone' \in BOOLEAN /\ (alone' => alone /\ (n \in Calls => \A d \in Calls \ {n} : ~Flies(server, d)))
  BY <1>1 DEF IInv
<1> QED
  BY <1>1, <1>2, <1>3, <1>4, SetsOut

\* A save that holds no active registration ends its turn there.
LEMMA SaveAtKeeps ==
    ASSUME IInv, NEW v, NEW n \in Saves, Beside(v, n), v.up, "active" \notin v.regs[n],
           NEW pc \in {"idle", "inspect", "again"}, server' = At(v, n, pc)
    PROVE  IInv'
<1>1. pc \in SavePcs /\ pc \notin Holding /\ pc \in Pcs \ Queued
  BY DEF SavePcs, Holding, Pcs, Queued
<1>2. Fits(store, v, alone', n, pc) /\ Suits(store, n, pc)
  BY <1>1, SaveFits
<1> QED
  BY <1>1, <1>2, AtBeside

\* An actor may close the barrier on its way.
LEMMA DegradeBeside ==
    ASSUME NEW v, NEW n, Beside(v, n)
    PROVE  /\ Beside(Degrade(v), n) /\ Degrade(v).up = v.up /\ Degrade(v).regs = v.regs
<1>1. Good(store, v, alone', {n}) /\ alone' \in BOOLEAN /\ {n} \in SUBSET Actors
  BY DEF Beside
<1>2. Good(store, Degrade(v), alone', {n}) /\ Tells(v, Degrade(v), n)
  BY <1>1, DegradeGood
<1>3. Behind(v, Degrade(v), n)
  BY <1>2, TellsBehind
<1>4. Behind(server, Degrade(v), n)
  BY <1>3, BehindBoth DEF Beside
<1> QED
  BY <1>2, <1>4 DEF Beside, Tells

\* A save begins, or finds the storage busy.
LEMMA SaveKeeps == ASSUME IInv, NEW n \in Saves, Save(n) PROVE IInv'
<1>1. /\ server.up /\ server.calls[n].pc = "idle" /\ UNCHANGED <<store, faults, alone>>
      /\ \/ server' = At(server, n, "inspect")
         \/ server' = Degrade(server)
  BY DEF Save, Takes
<1>2. server.calls[n].pc \notin Queued
  BY <1>1 DEF Queued
<1>3. /\ Beside(server, n) /\ n \in Actors /\ "active" \notin server.regs[n]
  BY <1>1, <1>2, SaveSetsOut
<1>4. CASE server' = At(server, n, "inspect")
  BY <1>1, <1>3, <1>4, SaveAtKeeps
<1>5. CASE server' = Degrade(server)
  <2>1. Good(store, server, alone', {}) /\ alone' \in BOOLEAN /\ {} \in SUBSET Actors
    BY <1>1 DEF IInv
  <2>2. Good(store, Degrade(server), alone', {}) /\ Tells(server, Degrade(server), n)
    BY <2>1, DegradeGood
  <2>3. Behind(server, Degrade(server), n)
    BY <2>2, TellsBehind
  <2>4. Suits(store, n, server'.calls[n].pc)
    BY Numbers DEF Suits
  <2>5. Good(store, server', alone', {}) /\ Behind(server, server', n)
    BY <2>2, <2>3, <1>5
  <2>6. faults' \in Nat /\ store' = store /\ (alone' => alone)
    BY <1>1 DEF IInv
  <2> QED
    BY <2>1, <2>4, <2>5, <2>6, <1>2, <1>3, BesideKeeps
<1> QED
  BY <1>1, <1>4, <1>5

\* The answer of a save that has inspected the document.
LEMMA AnswerKeeps ==
    ASSUME IInv, NEW n \in Saves, Beside(server, n), server.up, "active" \notin server.regs[n],
           server' = Answer(server, n)
    PROVE  IInv'
<1>1. "read" \in SavePcs /\ "read" \notin Holding /\ "read" \in Queued
  BY DEF SavePcs, Holding, Queued
<1>2. Fits(store, server, alone', n, "read") /\ Suits(store, n, "read")
  BY <1>1, SaveFits
<1>3. CASE server' = Queue(server, n, "read")
  BY <1>1, <1>2, <1>3, QueueBeside
<1>4. CASE server' = At(server, n, "idle")
  BY <1>4, SaveAtKeeps
<1> QED
  BY <1>3, <1>4 DEF Answer

\* A registration that may be held keeps the rest in place.
LEMMA StillGood ==
    ASSUME NEW s, NEW v, NEW al \in BOOLEAN, NEW n \in Saves, NEW as,
           Good(s, v, al, {n}), MayHold(v, n, as)
    PROVE  Good(s, Registered(v, n, as), al, {n})
  BY Registering

\* A save is admitted while the task is open, or while another registration of it is left.
LEMMA AdmitKeeps ==
    ASSUME IInv, NEW n \in Saves, Beside(server, n), server.up, "active" \notin server.regs[n],
           server' = Admit(server, n)
    PROVE  IInv'
<1> DEFINE as == server.regs[n] \cup {"active"}
           v == Registered(server, n, as)
<1>1. CASE server' \in {At(server, n, "idle"), At(server, n, "again")}
  BY <1>1, SaveAtKeeps
<1>2. CASE server' = Queue(v, n, "admit") /\ (n \in Live(server) \/ ~IndexClosing(server))
  <2>1. Good(store, server, alone', {n}) /\ alone' \in BOOLEAN /\ server \in Servers /\ n \in Actors
    BY DEF Beside, Good, Typed
  <2>2. MayHold(server, n, as)
    BY <1>2, <2>1 DEF MayHold, Servers
  <2>3. "active" \in as
    OBVIOUS
  <2> HIDE DEF as
  <2>4. /\ Good(store, v, alone', {n}) /\ v.regs[n] = as /\ v.up = server.up
    <3>1. Good(store, v, alone', {n})
      BY <2>1, <2>2, StillGood
    <3>2. server.regs \in [Saves -> SUBSET {"active", "host", "retry"}]
      BY <2>1 DEF Servers
    <3> DEFINE r == [server.regs EXCEPT ![n] = as]
    <3>3. v = [server EXCEPT !.regs = r] /\ r[n] = as
      BY <3>2 DEF Registered
    <3> HIDE DEF r, v
    <3>4. v.regs = r /\ v.up = server.up
      BY <3>3, <2>1 DEF Servers
    <3> QED
      BY <3>1, <3>3, <3>4
  <2>5. Behind(server, v, n)
    BY <2>1, RegisteredBehind
  <2> HIDE DEF v
  <2>6. Beside(v, n)
    BY <2>4, <2>5 DEF Beside
  <2>7. "admit" \in SavePcs /\ "admit" \in Holding /\ "admit" \in Queued
    BY DEF SavePcs, Holding, Queued
  <2>8. v.up /\ ("active" \in v.regs[n] <=> "admit" \in Holding)
    BY <2>3, <2>4, <2>7
  <2>9. Fits(store, v, alone', n, "admit") /\ Suits(store, n, "admit")
    BY <2>7, <2>8, SaveFits
  <2> QED
    BY <1>2, <2>6, <2>7, <2>9, QueueBeside
<1>3. Queue([server EXCEPT !.regs[n] = @ \cup {"active"}], n, "admit") = Queue(v, n, "admit")
  BY DEF Registered
<1>4. \/ server' \in {At(server, n, "idle"), At(server, n, "again")}
      \/ server' = Queue(v, n, "admit") /\ (n \in Live(server) \/ ~IndexClosing(server))
  <2> HIDE DEF v
  <2> QED
    BY <1>3 DEF Admit
<1> QED
  BY <1>1, <1>2, <1>4

\* A save that has inspected the document goes on.
LEMMA InspectedKeeps == ASSUME IInv, NEW n \in Saves, Inspected(n) PROVE IInv'
<1>1. /\ server.up /\ server.calls[n].pc \in {"inspect", "again", "disturbed"}
      /\ UNCHANGED <<store, faults, alone>>
      /\ \/ server' = At(Degrade(server), n, "idle")
         \/ server' = Answer(server, n)
         \/ server' = Admit(server, n)
  BY DEF Inspected, Takes
<1>2. server.calls[n].pc \notin Queued
  BY <1>1 DEF Queued
<1>3. Beside(server, n) /\ "active" \notin server.regs[n]
  BY <1>1, <1>2, SaveSetsOut
<1>4. CASE server' = At(Degrade(server), n, "idle")
  <2> DEFINE v == Degrade(server)
  <2>1. Beside(v, n) /\ v.up /\ "active" \notin v.regs[n]
    BY <1>1, <1>3, DegradeBeside
  <2> HIDE DEF v
  <2>2. server' = At(v, n, "idle")
    BY <1>4 DEF v
  <2> QED
    BY <2>1, <2>2, SaveAtKeeps
<1>5. CASE server' = Answer(server, n)
  BY <1>1, <1>3, <1>5, AnswerKeeps
<1>6. CASE server' = Admit(server, n)
  BY <1>1, <1>3, <1>6, AdmitKeeps
<1> QED
  BY <1>1, <1>4, <1>5, <1>6

-----------------------------------------------------------------------------
(* A process that ends, and one that starts: nobody is on the way. *)

\* Nobody is on the way: only what is published must be borne out by the document.
LEMMA QuietGood ==
    ASSUME NEW s, NEW w \in Servers, NEW al \in BOOLEAN, Doc(s),
           w.line = <<>>, w.waits = <<>>, w.fence = NoOp, w.drain = NoOp,
           \A n \in Saves : w.regs[n] = {},
           \A a \in Actors : w.calls[a].pc \in Over /\ w.calls[a].pc \in PcsOf(a),
           w.calls[Merge].op \in {Merge, NoOp},
           \A c \in Calls : w.calls[c].op = Merge => s.merge \in {"merged", "completed"},
           w.durable = Merge => s.merge \in {"merged", "completed"},
           w.state = "removed" => ~s.task, Closing(w.rec) => Taken(s),
           w.durable # NoOp => Taken(s), w.up => w.state # "absent"
    PROVE  Good(s, w, al, {}) /\ Merging(s, w, {})
<1>0. /\ Calls \subseteq Actors /\ Saves \subseteq Actors /\ Merge \in Calls /\ NoOp \notin Calls
      /\ Merge # NoOp
  BY Numbers
<1>1. Range(w.line) = {} /\ Range(w.waits) = {} /\ Distinct(w.line) /\ Distinct(w.waits)
  <2>1. w.line \in Seq(Actors) /\ w.waits \in Seq(Calls)
    BY DEF Servers
  <2>2. Range(w.line) = {} /\ Range(w.waits) = {}
    BY <2>1, RangeIs
  <2>3. Len(<<>>) = 0
    OBVIOUS
  <2> QED
    BY <2>2, <2>3 DEF Distinct
<1>2. \A a \in Actors : w.calls[a].pc \in {"idle", "done"}
  BY DEF Over
<1>3. Typed(w, {})
  BY DEF Typed
<1>4. Lined(w, {})
  BY <1>1, <1>2 DEF Lined, Queued
<1>5. Indexed(w, {})
  BY <1>0, <1>1, <1>2 DEF Indexed
<1>6. Fenced(w, {})
  BY <1>0, <1>2 DEF Fenced, Live, Cleanup, Holding
<1>7. Shown(s, w, {})
  BY <1>0, <1>2 DEF Shown, Over
<1>8. Alone(w, al, {})
  BY <1>0, <1>2 DEF Alone, Flies, Over
<1>9. Merging(s, w, {})
  BY <1>0, <1>2 DEF Merging, MergeBefore, Cleanup, Doc, Stores
<1> QED
  BY <1>3, <1>4, <1>5, <1>6, <1>7, <1>8, <1>9 DEF Good

\* The process that is not there.
LEMMA DownIs ==
    /\ Down \in Servers /\ ~Down.up /\ Down.state = "absent" /\ Down.rec = NoRec
    /\ Down.durable = NoOp /\ Down.fence = NoOp /\ Down.drain = NoOp /\ Down.waits = <<>>
    /\ \A n \in Saves : Down.regs[n] = {}
    /\ Down.calls = [who \in Actors |-> Resting]
    /\ Down.line = <<>> /\ Down.reply = "none"
    /\ Resting \in CallType /\ Resting.pc = "idle" /\ Resting.op = NoOp
    /\ NoRec \in Recs /\ NoRec.phase = "none" /\ NoRec.op = NoOp
<1>1. NoRec \in Recs /\ NoRec.phase = "none" /\ NoRec.op = NoOp
  BY Numbers DEF NoRec, Recs, Phases
<1>2. Resting \in CallType /\ Resting.pc = "idle" /\ Resting.op = NoOp
  BY <1>1 DEF Resting, CallType, Ops, Pcs, RemovalPcs
<1>3. <<>> \in Seq(Calls) /\ <<>> \in Seq(Actors)
  OBVIOUS
<1> DEFINE k == [who \in Actors |-> Resting]
           r == [n \in Saves |-> {}]
<1>4. /\ k \in [Actors -> CallType] /\ r \in [Saves -> SUBSET {"active", "host", "retry"}]
      /\ \A n \in Saves : r[n] = {}
  BY <1>2
<1>5. Down = [up |-> FALSE, state |-> "absent", rec |-> NoRec, durable |-> NoOp,
              fence |-> NoOp, drain |-> NoOp, waits |-> <<>>, regs |-> r, ready |-> FALSE,
              unsure |-> FALSE, calls |-> k, line |-> <<>>, reply |-> "none"]
  BY DEF Down
<1> HIDE DEF k, r
<1>6. Down \in Servers
  BY <1>1, <1>3, <1>4, <1>5 DEF Servers, Ops, Replies
<1>7. /\ ~Down.up /\ Down.state = "absent" /\ Down.rec = NoRec
      /\ Down.durable = NoOp /\ Down.fence = NoOp /\ Down.drain = NoOp /\ Down.waits = <<>>
      /\ Down.regs = r /\ Down.calls = k /\ Down.line = <<>> /\ Down.reply = "none"
  BY <1>5
<1> QED
  BY <1>1, <1>2, <1>4, <1>6, <1>7 DEF k

\* A process that starts publishes what the document says.
LEMMA RestartedGood ==
    ASSUME Doc(store), NEW al \in BOOLEAN, NEW calls \in [Actors -> CallType],
           \A a \in Actors : calls[a].pc \in Over /\ calls[a].pc \in PcsOf(a),
           calls[Merge].op \in {Merge, NoOp},
           \A c \in Calls : calls[c].op = Merge => store.merge \in {"merged", "completed"}
    PROVE  /\ Good(store, Restarted(calls), al, {}) /\ Merging(store, Restarted(calls), {})
           /\ Covered(store, Restarted(calls), al) /\ Restarted(calls).reply = "none"
           /\ Restarted(calls).calls = calls
<1> DEFINE w == Restarted(calls)
           st == IF store.task THEN "present" ELSE "removed"
           op == IF store.rec.phase \in {"none", "dormant"} THEN NoOp ELSE store.rec.op
<1>1. /\ store.rec \in Recs /\ store.rec.op \in Ops /\ store.rec.phase \in Phases
      /\ store.task \in BOOLEAN
  BY DEF Doc, Stores, Recs, Ops
<1>2. /\ st \in {"absent", "present", "removed"} /\ st # "absent" /\ (st = "removed" => ~store.task)
      /\ op \in Ops
  BY <1>1 DEF Ops
<1>3. /\ Closing(store.rec) => Taken(store)
      /\ op # NoOp => Taken(store)
      /\ Taken(store) => op # NoOp
      /\ op = Merge => store.merge \in {"merged", "completed"}
  <2>1. op # NoOp => Taken(store)
    BY <1>1 DEF Taken, Closing, Doc, Before, Phases
  <2>2. Taken(store) => store.rec.phase \notin {"none", "dormant"}
    BY <1>1 DEF Taken, Closing, Doc, Before
  <2>3. store.rec.phase # "none" => store.rec.op # NoOp
    BY DownIs DEF Doc
  <2>4. op = Merge => store.merge \in {"merged", "completed"}
    BY Numbers DEF Doc
  <2> QED
    BY <2>1, <2>2, <2>3, <2>4 DEF Taken
<1>4. w = [Down EXCEPT !.up = TRUE, !.ready = TRUE, !.rec = store.rec, !.calls = calls,
                       !.state = st, !.durable = op]
  BY DEF Restarted
<1> HIDE DEF w, st, op
<1>5. /\ w \in Servers /\ w.up /\ w.rec = store.rec /\ w.calls = calls /\ w.state = st
      /\ w.durable = op
      /\ w.fence = Down.fence /\ w.drain = Down.drain /\ w.waits = Down.waits
      /\ w.regs = Down.regs /\ w.line = Down.line /\ w.reply = Down.reply
  BY <1>1, <1>2, <1>4, DownIs DEF Servers
<1>6. Good(store, w, al, {}) /\ Merging(store, w, {})
  <2>1. /\ w.line = <<>> /\ w.waits = <<>> /\ w.fence = NoOp /\ w.drain = NoOp
        /\ \A n \in Saves : w.regs[n] = {}
    BY <1>5, DownIs
  <2>2. /\ \A a \in Actors : w.calls[a].pc \in Over /\ w.calls[a].pc \in PcsOf(a)
        /\ w.calls[Merge].op \in {Merge, NoOp}
        /\ \A c \in Calls : w.calls[c].op = Merge => store.merge \in {"merged", "completed"}
    BY <1>5
  <2>3. /\ w.durable = Merge => store.merge \in {"merged", "completed"}
        /\ w.state = "removed" => ~store.task
        /\ Closing(w.rec) => Taken(store)
        /\ w.durable # NoOp => Taken(store)
        /\ w.state # "absent"
    BY <1>2, <1>3, <1>5
  <2> QED
    BY <2>1, <2>2, <2>3, <1>5, QuietGood
<1>7. Covered(store, w, al)
  BY <1>3, <1>5 DEF Covered
<1> QED
  BY <1>5, <1>6, <1>7, DownIs DEF w

\* Everything in memory is lost.
LEMMA CrashKeeps == ASSUME IInv, Crash PROVE IInv'
<1> DEFINE k == [who \in Actors |->
                    IF who \in Removals /\ server.calls[who].pc # "idle"
                    THEN [Resting EXCEPT !.pc = "done"] ELSE Resting]
           w == server'
<1>1. w = [Down EXCEPT !.calls = k] /\ store' = store /\ alone' = TRUE /\ faults' = faults + 1
  BY DEF Crash
<1>2. /\ [Resting EXCEPT !.pc = "done"] \in CallType /\ [Resting EXCEPT !.pc = "done"].pc = "done"
      /\ [Resting EXCEPT !.pc = "done"].op = NoOp
  <2>1. "done" \in Pcs
    BY DEF Pcs, RemovalPcs
  <2> QED
    BY <2>1, DownIs, CallMoves
<1>3. /\ k \in [Actors -> CallType]
      /\ \A a \in Actors : k[a].op = NoOp
      /\ \A a \in Actors : k[a].pc = "idle" \/ (a \in Removals /\ k[a].pc = "done")
  BY <1>2, DownIs
<1>4. \A a \in Actors : k[a].pc \in Over /\ k[a].pc \in PcsOf(a)
  <2>1. \A a \in Actors : "idle" \in PcsOf(a)
    BY DEF PcsOf, SavePcs, MergePcs, RemovalPcs
  <2>2. \A a \in Removals : a \notin Saves /\ a # Merge
    BY Numbers
  <2>3. \A a \in Removals : "done" \in PcsOf(a)
    BY <2>2 DEF PcsOf, RemovalPcs
  <2> HIDE DEF k
  <2> QED
    BY <2>1, <2>3, <1>3 DEF Over
<1> HIDE DEF k, w
<1>5. /\ w \in Servers /\ w.up = Down.up /\ w.rec = Down.rec /\ w.calls = k /\ w.state = Down.state
      /\ w.durable = Down.durable
      /\ w.fence = Down.fence /\ w.drain = Down.drain /\ w.waits = Down.waits
      /\ w.regs = Down.regs /\ w.line = Down.line /\ w.reply = Down.reply
  BY <1>1, <1>3, DownIs DEF Servers
<1>6. Doc(store) /\ faults' \in Nat
  BY <1>1 DEF IInv
<1>7. Good(store, w, TRUE, {}) /\ Merging(store, w, {})
  <2>1. /\ w.line = <<>> /\ w.waits = <<>> /\ w.fence = NoOp /\ w.drain = NoOp
        /\ w.durable = NoOp /\ w.state = "absent" /\ ~w.up /\ ~Closing(w.rec)
    BY <1>5, DownIs DEF Closing
  <2>2. \A n \in Saves : w.regs[n] = {}
    BY <1>5, DownIs
  <2>3. \A a \in Actors : w.calls[a].pc \in Over /\ w.calls[a].pc \in PcsOf(a)
    BY <1>4, <1>5
  <2>4. /\ w.calls[Merge].op \in {Merge, NoOp} /\ w.durable # Merge
        /\ \A c \in Calls : w.calls[c].op # Merge
    BY <2>1, <1>3, <1>5, Numbers
  <2> QED
    BY <2>1, <2>2, <2>3, <2>4, <1>5, <1>6, QuietGood
<1>8. Covered(store, w, TRUE) /\ w.reply = "none"
  BY <1>5, DownIs DEF Covered
<1> QED
  BY <1>1, <1>6, <1>7, <1>8 DEF IInv, w

\* The process starts again; an interrupted merge is left to its user.
LEMMA StartKeeps == ASSUME IInv, Start PROVE IInv'
<1> DEFINE w == Restarted(server.calls)
           t == store'
<1>1. /\ ~server.up /\ UNCHANGED <<faults, alone>> /\ server' = w
      /\ t = [store EXCEPT !.merge = IF store.merge = "merging" THEN "manual" ELSE store.merge]
  BY DEF Start
<1>2. /\ Doc(store) /\ Good(store, server, alone, {}) /\ alone \in BOOLEAN /\ faults \in Nat
      /\ server.calls \in [Actors -> CallType]
  BY DEF IInv, Good, Typed, Servers
<1>3. /\ \A a \in Actors : server.calls[a].pc \in Over /\ server.calls[a].pc \in PcsOf(a)
      /\ server.calls[Merge].op \in {Merge, NoOp}
      /\ \A c \in Calls : server.calls[c].op = Merge => store.merge \in {"merged", "completed"}
  BY <1>1, <1>2 DEF Good, Typed, Shown
<1>4. /\ Good(store, w, alone, {}) /\ Covered(store, w, alone) /\ w.reply = "none"
      /\ w.calls = server.calls
  BY <1>2, <1>3, RestartedGood
<1> HIDE DEF w, t
<1>5. /\ t \in Stores /\ t.task = store.task /\ t.rec = store.rec /\ t.saves = store.saves
      /\ t.merge = store.merge \/ (store.merge = "merging" /\ t.merge = "manual")
  BY <1>1, <1>2 DEF Doc, Stores, Merges
<1>6. Doc(t) /\ Grows(store, t)
  BY <1>2, <1>5 DEF Doc, Grows, Taken
<1>7. Good(t, w, alone, {})
  <2>1. w \in Servers
    BY <1>4 DEF Good, Typed
  <2> QED
    BY <2>1, <1>2, <1>4, <1>6, GrowsGood
<1>8. Merging(t, w, {})
  <2>1. w.calls[Merge].pc \in Over /\ t.merge \in Merges
    BY <1>3, <1>4, <1>5, Numbers DEF Stores
  <2> QED
    BY <2>1 DEF Merging, MergeBefore, Cleanup, Over
<1>9. Covered(t, w, alone)
  BY <1>4, <1>5 DEF Covered, Taken
<1> QED
  BY <1>1, <1>2, <1>4, <1>6, <1>7, <1>8, <1>9 DEF IInv, t

\* The first process.
LEMMA InitKeeps == Init => IInv
<1> SUFFICES ASSUME Init PROVE IInv
  OBVIOUS
<1>1. /\ store = [task |-> TRUE, rec |-> NoRec, merge |-> "issued", saves |-> [n \in Saves |-> "none"]]
      /\ server = Restarted(Down.calls) /\ faults = 0 /\ alone = TRUE
  BY DEF Init
<1>2. /\ store.task = TRUE /\ store.rec = NoRec /\ store.merge = "issued" /\ store \in Stores
  BY <1>1, DownIs DEF Stores, Merges, SaveStates
<1>3. Doc(store)
  BY <1>2, DownIs, Numbers DEF Doc
<1>4. /\ Down.calls \in [Actors -> CallType]
      /\ \A a \in Actors : Down.calls[a].pc \in Over /\ Down.calls[a].pc \in PcsOf(a)
      /\ \A a \in Actors : Down.calls[a].op = NoOp
  BY DownIs, Numbers DEF Over, PcsOf, SavePcs, MergePcs, RemovalPcs
<1>5. Merge \in Actors /\ Merge # NoOp /\ Calls \subseteq Actors
  BY Numbers
<1>6. /\ Good(store, server, alone, {}) /\ Merging(store, server, {})
      /\ Covered(store, server, alone) /\ server.reply = "none"
  <2>1. alone \in BOOLEAN
    BY <1>1
  <2>2. /\ Down.calls[Merge].op \in {Merge, NoOp}
        /\ \A c \in Calls : Down.calls[c].op # Merge
    BY <1>4, <1>5
  <2> QED
    BY <2>1, <2>2, <1>1, <1>3, <1>4, RestartedGood
<1> QED
  BY <1>1, <1>3, <1>6 DEF IInv

-----------------------------------------------------------------------------
(* The theorems. *)

\* Every step keeps the invariant.
LEMMA Inductive == IInv /\ [Next]_vars => IInv'
<1> SUFFICES ASSUME IInv, [Next]_vars PROVE IInv'
  OBVIOUS
<1>1. CASE Serve
  BY <1>1, ServeKeeps
<1>2. CASE Continue
  BY <1>2, ContinueKeeps
<1>3. CASE StartMerge
  BY <1>3, StartMergeKeeps
<1>4. CASE Crash
  BY <1>4, CrashKeeps
<1>5. CASE Start
  BY <1>5, StartKeeps
<1>6. ASSUME NEW c \in Removals, RemoveTask(c) PROVE IInv'
  BY <1>6, RemoveTaskKeeps
<1>7. ASSUME NEW c \in Calls, Answers(c) PROVE IInv'
  <2>1. PICK yes \in BOOLEAN : \/ Cleaned(c, yes) \/ Finalized(c, yes)
                               \/ Authorized(yes) \/ GitEnds(yes)
    BY <1>7 DEF Answers
  <2> QED
    BY <2>1, CleanedKeeps, FinalizedKeeps, AuthorizedKeeps, GitEndsKeeps
<1>8. ASSUME NEW n \in Saves, Save(n) \/ Inspected(n) PROVE IInv'
  BY <1>8, SaveKeeps, InspectedKeeps
<1>9. CASE UNCHANGED vars
  BY <1>9, SMTT(30) DEF vars, IInv, Doc, Good, Typed, Lined, Indexed, Fenced, Shown, Alone, Merging, Covered,
              Pending, Told, Taken, Live, Flies
<1> QED
  BY <1>1, <1>2, <1>3, <1>4, <1>5, <1>6, <1>7, <1>8, <1>9 DEF Next, Storage

\* The invariant holds always.
LEMMA Always == Spec => []IInv
<1>1. Init => IInv
  BY InitKeeps
<1>2. IInv /\ [Next]_vars => IInv'
  BY Inductive
<1> QED
  BY <1>1, <1>2, PTL DEF Spec

\* Every variable keeps its type in every state of a server of any size; the record of the
\* removal and the task never contradict each other in the document, although three modules
\* write it (task-removal-owner.ts, task-merge-workflow.ts, task-notes-service.ts), so that
\* verify-task-removal-owner-cutover lets every restart through; and whoever saves notes
\* holds an active registration exactly from its admission to its release.
THEOREM TypeCorrect == Spec => []TypeOK
<1>1. IInv => TypeOK
  <2> SUFFICES ASSUME IInv PROVE TypeOK
    OBVIOUS
  <2>1. Doc(store) /\ server \in Servers /\ Fenced(server, {})
    BY DEF IInv, Good, Typed
  <2>2. /\ store.task \in BOOLEAN /\ store.rec \in Recs /\ store.merge \in Merges
        /\ \A n \in Saves : store.saves[n] \in SaveStates
    BY <2>1 DEF Doc, Stores
  <2>3. Agrees
    BY <2>1, <2>2, DownIs DEF Doc, Agrees, Before
  <2>4. store.rec.op \in Calls \cup {NoOp} /\ store.rec.steps \in 0 .. Steps
    BY <2>2 DEF Recs
  <2>5. /\ {server.durable, server.fence, server.drain} \subseteq Calls \cup {NoOp}
        /\ server.state \in {"absent", "present", "removed"}
    BY <2>1 DEF Servers, Ops
  <2>6. \A n \in Saves : "active" \in server.regs[n] <=>
                            server.calls[n].pc \in {"admit", "write", "window"}
    BY <2>1 DEF Fenced, Holding
  <2> QED
    BY <2>2, <2>3, <2>4, <2>5, <2>6 DEF TypeOK, Merges, SaveStates
<1> QED
  BY <1>1, Always, PTL

\* However many removals, a merge and saves overlap, and whatever fails: while a removal that
\* has left waitForRemovalDrain cleans up, no save of notes is admitted, under way, or
\* retained with an outcome that is not known.
THEOREM CleanupIsExclusive == Spec => []CleanupExcludesWriters
<1>1. IInv => CleanupExcludesWriters
  <2> SUFFICES ASSUME IInv, NEW c \in Calls,
                      server.calls[c].pc \in {"cleaning", "step", "cleaned", "commit", "finalizing"}
               PROVE  Live(server) = {}
    BY DEF CleanupExcludesWriters
  <2> QED
    BY DEF IInv, Good, Fenced, Cleanup
<1> QED
  BY <1>1, Always, PTL

\* What isTaskMutationAdmissionClosed answers agrees with the document between two steps of
\* the storage: a task that is gone admits nobody while its removals come one at a time, and
\* a task is never closed for good by a removal that has failed, was refused, or lost.
THEOREM AdmissionIsRight == Spec => []AdmissionFollowsRemoval
<1>1. IInv => AdmissionFollowsRemoval
  <2> SUFFICES ASSUME IInv, server.up, ~server.unsure, server.reply = "none"
               PROVE  /\ alone /\ Gone => AdmissionClosed(server)
                      /\ AdmissionClosed(server) => Gone \/ InFlight # {} \/ store.merge = "merged"
    BY DEF AdmissionFollowsRemoval
  <2>1. /\ Covered(store, server, alone) /\ Doc(store) /\ server \in Servers
        /\ Shown(store, server, {}) /\ Indexed(server, {})
    BY DEF IInv, Good, Typed
  <2>2. Gone <=> Taken(store)
    BY DEF Gone, Taken
  <2>3. ASSUME alone, Gone PROVE AdmissionClosed(server)
    BY <2>1, <2>2, <2>3 DEF Covered, AdmissionClosed, IndexClosing
  <2>4. ASSUME AdmissionClosed(server), ~Gone, store.merge # "merged" PROVE InFlight # {}
    <3>1. server.state = "present" /\ ~Closing(server.rec) /\ server.durable = NoOp
      BY <2>1, <2>2, <2>4 DEF Shown, Taken, Servers
    <3>2. server.fence # NoOp \/ server.drain # NoOp
      BY <3>1, <2>4 DEF AdmissionClosed, IndexClosing
    <3>3. CASE server.fence # NoOp
      <4>1. PICK c \in Calls : server.calls[c].pc \in {"reserve", "activate"}
        BY <3>3, <2>1, <2>2, <2>4 DEF Shown
      <4> QED
        BY <4>1 DEF InFlight
    <3>4. CASE server.drain # NoOp
      <4>1. server.waits # <<>> /\ server.waits \in Seq(Calls)
        BY <3>4, <2>1 DEF Indexed, Servers
      <4>2. PICK c \in Range(server.waits) : c \in Calls
        BY <4>1, RangeIs
      <4>3. server.calls[c].pc = "drain"
        BY <4>2, <2>1 DEF Indexed
      <4> QED
        BY <4>2, <4>3 DEF InFlight
    <3> QED
      BY <3>2, <3>3, <3>4
  <2> QED
    BY <2>3, <2>4
<1> QED
  BY <1>1, Always, PTL

\* The journal of the merge and the journal of the removal agree through every order of
\* crashes, refused writes, writes of unknown outcome and competing removals: nothing is
\* removed for a merge that git has not done, a merge that failed has released the dormant
\* removal it had reserved, and one is reported completed only when its task is gone.
THEOREM JournalsAgree == Spec => []MergeAndRemovalAgree
<1>1. IInv => MergeAndRemovalAgree
  BY DEF IInv, Doc, MergeAndRemovalAgree
<1> QED
  BY <1>1, Always, PTL

=============================================================================
