----------------------- MODULE BackendWorkQueue_proofs ------------------------
(***************************************************************************)
(* Proofs about the backend work queue, for any tasks, job keys, clients,  *)
(* reports, callers, concurrency cap and sweep list.                       *)
(*                                                                         *)
(* Dispatch starts jobs in a loop; what the loop does is proved by         *)
(* induction over the number of its turns.  Every operation is then        *)
(* described by what it makes of a queue whose jobs are all placed where   *)
(* they belong.                                                            *)
(***************************************************************************)
EXTENDS BackendWorkQueue, SequenceTheorems, FiniteSetTheorems, TLAPS

-----------------------------------------------------------------------------
(* Induction over the natural numbers, stated with sets in place of predicates. *)

\* Every nonempty set of natural numbers has a least element: the intervals
\* from 1 to its elements are ordered by inclusion, which is well founded.
LEMMA LeastNatural ==
    ASSUME NEW T \in SUBSET Nat, T # {}
    PROVE  \E n \in T : \A m \in T : n <= m
<1> DEFINE R == StrictSubsetOrdering(Nat)
           W == {1 .. n : n \in T}
<1>1. IsWellFoundedOn(R, FiniteSubsetsOf(Nat))
  BY FS_StrictSubsetOrderingWellFounded
<1>2. W \subseteq FiniteSubsetsOf(Nat)
  <2>1. \A n \in T : IsFiniteSet(1 .. n) /\ 1 .. n \subseteq Nat
    BY FS_Interval
  <2> QED
    BY <2>1 DEF FiniteSubsetsOf
<1>3. \A m, n \in T : m < n => <<1 .. m, 1 .. n>> \in R
  <2>1. \A m, n \in T : m < n => n \in 1 .. n /\ n \notin 1 .. m /\ 1 .. m \subseteq 1 .. n
    OBVIOUS
  <2>2. \A n \in T : 1 .. n \in SUBSET Nat
    OBVIOUS
  <2> QED
    BY <2>1, <2>2 DEF StrictSubsetOrdering
<1>4. W # {}
  OBVIOUS
<1>5. \A x \in W : \E n \in T : x = 1 .. n
  OBVIOUS
<1>6. \A n \in T : 1 .. n \in W
  OBVIOUS
<1> HIDE DEF R, W
<1>7. \E x \in W : \A y \in W : ~ (<<y, x>> \in R)
  BY <1>1, <1>2, <1>4, WFMin
<1>8. PICK n \in T : \A y \in W : ~ (<<y, 1 .. n>> \in R)
  BY <1>5, <1>7
<1>9. \A m \in T : ~ (m < n)
  BY <1>3, <1>6, <1>8
<1> QED
  BY <1>9

\* A set that holds 0 and the successor of whatever it holds holds every number.
LEMMA NaturalsByStep ==
    ASSUME NEW S, 0 \in S, \A n \in Nat : n \in S => n + 1 \in S
    PROVE  Nat \subseteq S
<1> DEFINE T == Nat \ S
<1> SUFFICES ASSUME T # {} PROVE FALSE
  OBVIOUS
<1>1. PICK n \in T : \A m \in T : n <= m
  BY LeastNatural
<1>2. n # 0 /\ n - 1 \in Nat /\ n - 1 \notin T
  BY <1>1
<1> QED
  BY <1>1, <1>2

\* What F makes of d when it is applied n times, one after the other.
Iterates(F, D, d, n) ==
    {g \in [0 .. n -> D] : g[0] = d /\ \A i \in 1 .. n : g[i] = F[g[i - 1]]}

\* There is such a chain, however long.
LEMMA Iterate ==
    ASSUME NEW D, NEW F \in [D -> D], NEW d \in D, NEW n \in Nat
    PROVE  Iterates(F, D, d, n) # {}
<1> DEFINE S == {m \in Nat : Iterates(F, D, d, m) # {}}
<1>1. 0 \in S
  <2>1. [i \in 0 .. 0 |-> d] \in Iterates(F, D, d, 0)
    BY DEF Iterates
  <2> QED
    BY <2>1
<1>2. ASSUME NEW m \in Nat, m \in S
      PROVE  m + 1 \in S
  <2>1. PICK g : g \in Iterates(F, D, d, m)
    BY <1>2
  <2> DEFINE h == [i \in 0 .. m + 1 |-> IF i = m + 1 THEN F[g[m]] ELSE g[i]]
  <2>2. h \in [0 .. m + 1 -> D] /\ h[0] = d
    BY <2>1 DEF Iterates
  <2>3. \A i \in 1 .. m + 1 : h[i] = F[h[i - 1]]
    BY <2>1 DEF Iterates
  <2> HIDE DEF h
  <2>4. h \in Iterates(F, D, d, m + 1)
    BY <2>2, <2>3 DEF Iterates
  <2> QED
    BY <2>4
<1> HIDE DEF S
<1>3. n \in S
  BY <1>1, <1>2, NaturalsByStep
<1> QED
  BY <1>3 DEF S

-----------------------------------------------------------------------------
(* What a queue is. *)

Lanes == Interactive .. Background
Started == [key : JobKeys, background : BOOLEAN]
Focuses == UNION {[D -> Reports] : D \in SUBSET Clients}

Queues == [pending : Seq(Jobs), running : Seq(Started), focus : Focuses,
           released : BOOLEAN, owed : SUBSET JobKeys]

\* A job ages exactly in the background lane, and a job that follows the focus f
\* is where f puts it, has aged, or has been raised for another task.
WellPlaced(f, j) ==
    /\ j.aging = (j.lane = Background)
    /\ Follows(j) => Placed(f, j)

\* A queue between two steps, or in the middle of one.
Sound(q) ==
    /\ q \in Queues /\ Len(q.running) <= Cap
    /\ \A i \in DOMAIN q.pending : WellPlaced(q.focus, q.pending[i])

\* Every key of ks that is owed a run has a job that waits.
Kept(q, ks) == \A k \in ks \cap q.owed : \E i \in DOMAIN q.pending : q.pending[i].key = k

\* What starting jobs may do to a queue: d has only jobs of q, and a job of q that
\* is gone has been started, so that its key is not owed any more.
Served(q, d) ==
    /\ d \in Queues /\ Len(d.running) <= Cap
    /\ d.focus = q.focus /\ d.released = q.released /\ d.owed \subseteq q.owed
    /\ \A i \in DOMAIN d.pending : \E j \in DOMAIN q.pending : d.pending[i] = q.pending[j]
    /\ \A j \in DOMAIN q.pending : q.pending[j].key \in d.owed =>
          \E i \in DOMAIN d.pending : d.pending[i].key = q.pending[j].key

-----------------------------------------------------------------------------
(* Lanes, jobs and the loop of Dispatch. *)

\* The lane that the focus gives a task is one of the four.
LEMMA FocusLane ==
    ASSUME NEW f, NEW t
    PROVE  FocusPriority(f, t) \in Lanes
  BY DEF FocusPriority, Lanes, Interactive, Selected, Visible, Background

\* Arming or clearing the timer of a job changes nothing else of it.
LEMMA SyncedJob ==
    ASSUME NEW j \in Jobs
    PROVE  /\ SyncPromotion(j) \in Jobs
           /\ SyncPromotion(j).key = j.key /\ SyncPromotion(j).lane = j.lane
           /\ SyncPromotion(j).pinned = j.pinned /\ SyncPromotion(j).task = j.task
           /\ SyncPromotion(j).raisedFor = j.raisedFor
           /\ SyncPromotion(j).aging = (j.lane = Background)
<1> DEFINE b == (j.lane = Background)
<1>1. b \in BOOLEAN
  OBVIOUS
<1>2. SyncPromotion(j) = [j EXCEPT !.aging = b]
  BY DEF SyncPromotion
<1> HIDE DEF b
<1>3. /\ [j EXCEPT !.aging = b] \in Jobs
      /\ [j EXCEPT !.aging = b].key = j.key /\ [j EXCEPT !.aging = b].lane = j.lane
      /\ [j EXCEPT !.aging = b].pinned = j.pinned /\ [j EXCEPT !.aging = b].aging = b
      /\ [j EXCEPT !.aging = b].task = j.task /\ [j EXCEPT !.aging = b].raisedFor = j.raisedFor
  BY <1>1 DEF Jobs
<1> QED
  BY <1>2, <1>3 DEF b

\* The best job of a line that is not empty is one of the line.
LEMMA BestWaits ==
    ASSUME NEW p \in Seq(Jobs), p # <<>>
    PROVE  Best(p) \in 1 .. Len(p)
<1> DEFINE L == {p[i].lane : i \in 1 .. Len(p)}
<1>1. \A i \in 1 .. Len(p) : p[i].lane \in Nat
  <2>1. \A i \in 1 .. Len(p) : p[i] \in Jobs
    BY ElementOfSeq
  <2>2. \A j \in Jobs : j.lane \in Nat
    BY DEF Jobs, Interactive, Background
  <2> QED
    BY <2>1, <2>2
<1>2. L \in SUBSET Nat /\ L # {}
  BY <1>1, EmptySeq
<1>3. PICK l \in L : \A m \in L : l <= m
  BY <1>2, LeastNatural
<1> DEFINE I == {i \in 1 .. Len(p) : p[i].lane = l}
<1>4. I \in SUBSET Nat /\ I # {}
  OBVIOUS
<1>5. PICK i \in I : \A n \in I : i <= n
  BY <1>4, LeastNatural
<1>6. i \in DOMAIN p /\ DOMAIN p = 1 .. Len(p)
  BY LenProperties
<1>7. ASSUME NEW n \in DOMAIN p
      PROVE  p[i].lane < p[n].lane \/ (p[i].lane = p[n].lane /\ i <= n)
  <2>1. p[n].lane \in L /\ p[n].lane \in Nat /\ l \in Nat /\ p[i].lane = l
    BY <1>1, <1>6
  <2> HIDE DEF L
  <2>2. CASE p[n].lane = l
    BY <2>1, <2>2, <1>5, <1>6
  <2>3. CASE p[n].lane # l
    <3>1. l <= p[n].lane
      BY <2>1, <1>3
    <3> QED
      BY <3>1, <2>1, <2>3
  <2> QED
    BY <2>2, <2>3
<1> QED
  BY <1>6, <1>7 DEF Best

\* Taking one element out of a sequence keeps all the others.
LEMMA Removed ==
    ASSUME NEW S, NEW s \in Seq(S), NEW i \in 1 .. Len(s)
    PROVE  /\ RemoveAt(s, i) \in Seq(S)
           /\ Len(RemoveAt(s, i)) = Len(s) - 1
           /\ DOMAIN RemoveAt(s, i) = 1 .. Len(s) - 1
           /\ \A n \in 1 .. Len(s) - 1 :
                 RemoveAt(s, i)[n] = IF n < i THEN s[n] ELSE s[n + 1]
<1> DEFINE a == SubSeq(s, 1, i - 1)
           b == SubSeq(s, i + 1, Len(s))
<1>1. Len(s) \in Nat /\ i \in Int /\ \A n \in 1 .. Len(s) : s[n] \in S
  BY ElementOfSeq, LenProperties
<1>2. /\ a \in Seq(S) /\ Len(a) = i - 1
      /\ \A n \in 1 .. i - 1 : a[n] = s[n]
  BY <1>1, SubSeqProperties
<1>3. /\ b \in Seq(S) /\ Len(b) = Len(s) - i
      /\ \A n \in 1 .. Len(s) - i : b[n] = s[i + n]
  BY <1>1, SubSeqProperties
<1> HIDE DEF a, b
<1>4. /\ a \o b \in Seq(S) /\ Len(a \o b) = Len(a) + Len(b)
      /\ \A n \in 1 .. Len(a) + Len(b) :
            (a \o b)[n] = IF n <= Len(a) THEN a[n] ELSE b[n - Len(a)]
  BY <1>2, <1>3, ConcatProperties
<1>5. Len(a) + Len(b) = Len(s) - 1
  BY <1>1, <1>2, <1>3
<1>6. ASSUME NEW n \in 1 .. Len(s) - 1
      PROVE  (a \o b)[n] = IF n < i THEN s[n] ELSE s[n + 1]
  <2>1. (a \o b)[n] = IF n <= Len(a) THEN a[n] ELSE b[n - Len(a)]
    BY <1>4, <1>5
  <2>2. CASE n < i
    BY <2>1, <2>2, <1>1, <1>2
  <2>3. CASE ~ (n < i)
    <3>1. n - Len(a) \in 1 .. Len(s) - i /\ i + (n - Len(a)) = n + 1 /\ ~ (n <= Len(a))
      BY <2>3, <1>1, <1>2
    <3> QED
      BY <3>1, <2>1, <2>3, <1>3
  <2> QED
    BY <2>2, <2>3
<1>7. RemoveAt(s, i) = a \o b
  BY DEF RemoveAt, a, b
<1>8. DOMAIN (a \o b) = 1 .. Len(s) - 1
  BY <1>4, <1>5, LenProperties
<1> QED
  BY <1>4, <1>5, <1>6, <1>7, <1>8

\* Starting one job serves the queue and takes one slot.
LEMMA RunServes ==
    ASSUME NEW q \in Queues, Len(q.running) <= Cap, Dispatchable(q)
    PROVE  Served(q, RunJob(q)) /\ Len(RunJob(q).running) = Len(q.running) + 1
<1> DEFINE p == q.pending
           b == Best(p)
           rest == RemoveAt(p, b)
           bg == (p[b].lane = Background)
           run == [key |-> p[b].key, background |-> bg]
           d == RunJob(q)
<1>1. p \in Seq(Jobs) /\ p # <<>> /\ q.running \in Seq(Started) /\ Len(q.running) < Cap
  BY DEF Queues, Dispatchable
<1>2. b \in 1 .. Len(p) /\ p[b] \in Jobs /\ DOMAIN p = 1 .. Len(p) /\ Len(p) \in Nat
  BY <1>1, BestWaits, ElementOfSeq, LenProperties
<1>3. /\ rest \in Seq(Jobs) /\ Len(rest) = Len(p) - 1 /\ DOMAIN rest = 1 .. Len(p) - 1
      /\ \A n \in 1 .. Len(p) - 1 : rest[n] = IF n < b THEN p[n] ELSE p[n + 1]
  BY <1>1, <1>2, Removed
<1>4. run \in Started
  BY <1>2 DEF Started, Jobs
<1>5. /\ Append(q.running, run) \in Seq(Started)
      /\ Len(Append(q.running, run)) = Len(q.running) + 1
  BY <1>1, <1>4, AppendProperties
<1>6. d = [q EXCEPT !.pending = rest, !.owed = q.owed \ {p[b].key},
                    !.running = Append(q.running, run)]
  BY DEF RunJob
<1>7. /\ d.pending = rest /\ d.running = Append(q.running, run)
      /\ d.owed = q.owed \ {p[b].key} /\ d.focus = q.focus /\ d.released = q.released
      /\ d \in Queues
  <2> HIDE DEF rest, run, p, b
  <2> QED
    BY <1>3, <1>5, <1>6 DEF Queues
<1> HIDE DEF d, rest, b
<1>8. Len(d.running) <= Cap
  <2>1. Len(q.running) \in Nat /\ Cap \in Nat
    BY <1>1, LenProperties, QueueAssumption
  <2> QED
    BY <2>1, <1>1, <1>5, <1>7
<1>9. \A i \in DOMAIN d.pending : \E j \in DOMAIN q.pending : d.pending[i] = q.pending[j]
  <2>1. ASSUME NEW i \in 1 .. Len(p) - 1
        PROVE  \E j \in 1 .. Len(p) : rest[i] = p[j]
    <3>1. CASE i < b
      BY <3>1, <1>2, <1>3
    <3>2. CASE ~ (i < b)
      BY <3>2, <1>2, <1>3
    <3> QED
      BY <3>1, <3>2
  <2> QED
    BY <2>1, <1>2, <1>3, <1>7
<1>10. ASSUME NEW j \in DOMAIN q.pending, q.pending[j].key \in d.owed
       PROVE  \E i \in DOMAIN d.pending : d.pending[i].key = q.pending[j].key
  <2>1. j \in 1 .. Len(p) /\ j # b
    BY <1>10, <1>2, <1>7
  <2>2. CASE j < b
    <3>1. j \in 1 .. Len(p) - 1 /\ rest[j] = p[j]
      BY <2>1, <2>2, <1>2, <1>3
    <3> QED
      BY <3>1, <1>3, <1>7
  <2>3. CASE ~ (j < b)
    <3>1. j - 1 \in 1 .. Len(p) - 1 /\ ~ (j - 1 < b) /\ (j - 1) + 1 = j
      BY <2>1, <2>3, <1>2
    <3>2. rest[j - 1] = p[j]
      BY <3>1, <1>3
    <3> QED
      BY <3>1, <3>2, <1>3, <1>7
  <2> QED
    BY <2>2, <2>3
<1>11. Served(q, d)
  BY <1>7, <1>8, <1>9, <1>10 DEF Served
<1> QED
  BY <1>5, <1>7, <1>11 DEF d

\* Serving adds up.
LEMMA ServedAgain ==
    ASSUME NEW q, NEW r, NEW d, Served(q, r), Served(r, d)
    PROVE  Served(q, d)
<1>1. \A i \in DOMAIN d.pending : \E j \in DOMAIN q.pending : d.pending[i] = q.pending[j]
  BY DEF Served
<1>2. ASSUME NEW j \in DOMAIN q.pending, q.pending[j].key \in d.owed
      PROVE  \E i \in DOMAIN d.pending : d.pending[i].key = q.pending[j].key
  <2>1. q.pending[j].key \in r.owed
    BY <1>2 DEF Served
  <2>2. PICK n \in DOMAIN r.pending : r.pending[n].key = q.pending[j].key
    BY <2>1 DEF Served
  <2> QED
    BY <2>2, <1>2 DEF Served
<1> QED
  BY <1>1, <1>2 DEF Served

LEMMA ServedAtRest ==
    ASSUME NEW q \in Queues, Len(q.running) <= Cap
    PROVE  Served(q, q)
  BY DEF Served

\* dispatchPendingWork: the loop serves the queue, and ends when no job may start.
LEMMA DispatchServes ==
    ASSUME NEW q \in Queues, Len(q.running) <= Cap
    PROVE  Served(q, Dispatch(q)) /\ ~Dispatchable(Dispatch(q))
<1> DEFINE D == {r \in Queues : Len(r.running) <= Cap}
           F == [r \in D |-> IF Dispatchable(r) THEN RunJob(r) ELSE r]
           L == Cap
           after[n \in 0 .. Cap] ==
             IF n = 0 THEN q
             ELSE LET r == after[n - 1] IN IF Dispatchable(r) THEN RunJob(r) ELSE r
<1>1. L \in Nat /\ q \in D
  BY QueueAssumption
<1>2. F \in [D -> D]
  <2>1. \A r \in D : Dispatchable(r) => RunJob(r) \in D
    BY RunServes DEF Served
  <2> QED
    BY <2>1
<1>3. PICK g \in [0 .. L -> D] : g[0] = q /\ \A i \in 1 .. L : g[i] = F[g[i - 1]]
  <2> HIDE DEF D, F, L, after
  <2>1. L \in Nat /\ q \in D /\ F \in [D -> D]
    BY <1>1, <1>2
  <2>2. Iterates(F, D, q, L) # {}
    BY <2>1, Iterate
  <2> QED
    BY <2>2 DEF Iterates
<1>4. g = [n \in 0 .. Cap |->
             IF n = 0 THEN q
             ELSE LET r == g[n - 1] IN IF Dispatchable(r) THEN RunJob(r) ELSE r]
  <2> SUFFICES ASSUME NEW n \in 0 .. L
               PROVE  g[n] = IF n = 0 THEN q
                             ELSE IF Dispatchable(g[n - 1]) THEN RunJob(g[n - 1]) ELSE g[n - 1]
    BY <1>3
  <2>1. CASE n = 0
    BY <2>1, <1>3
  <2>2. CASE n # 0
    <3>1. n \in 1 .. L /\ n - 1 \in 0 .. L
      BY <2>2, <1>1
    <3>2. g[n] = F[g[n - 1]] /\ g[n - 1] \in D
      BY <3>1, <1>3
    <3> HIDE DEF D
    <3> QED
      BY <3>2, <2>2
  <2> QED
    BY <2>1, <2>2
<1>5. after = [n \in 0 .. Cap |->
             IF n = 0 THEN q
             ELSE LET r == after[n - 1] IN IF Dispatchable(r) THEN RunJob(r) ELSE r]
  BY <1>4
<1>6. Dispatch(q) = after[L]
  BY DEF Dispatch
<1> HIDE DEF after, F
<1>7. /\ after[0] = q
      /\ \A n \in 1 .. L :
            after[n] = IF Dispatchable(after[n - 1]) THEN RunJob(after[n - 1]) ELSE after[n - 1]
  <2>1. 0 \in 0 .. Cap /\ \A n \in 1 .. L : n \in 0 .. Cap /\ n # 0
    BY <1>1
  <2>2. \A n \in 0 .. Cap :
           after[n] = IF n = 0 THEN q
                      ELSE IF Dispatchable(after[n - 1]) THEN RunJob(after[n - 1])
                                                        ELSE after[n - 1]
    BY <1>5
  <2> HIDE DEF L
  <2> QED
    BY <2>1, <2>2
<1> DEFINE S == {n \in Nat : n <= L =>
                   /\ Served(q, after[n])
                   /\ ~Dispatchable(after[n]) \/ Len(after[n].running) >= n}
<1>8. 0 \in S
  <2>1. Len(q.running) >= 0
    BY LenProperties DEF Queues
  <2> QED
    BY <2>1, <1>1, <1>7, ServedAtRest
<1>9. ASSUME NEW n \in Nat, n \in S
      PROVE  n + 1 \in S
  <2> DEFINE r == after[n]
             d == after[n + 1]
  <2> SUFFICES ASSUME n + 1 <= L
               PROVE  Served(q, d) /\ (~Dispatchable(d) \/ Len(d.running) >= n + 1)
    OBVIOUS
  <2>1. Served(q, r) /\ (~Dispatchable(r) \/ Len(r.running) >= n)
    BY <1>1, <1>9
  <2>2. n + 1 \in 1 .. L /\ (n + 1) - 1 = n
    BY <1>1
  <2>3. d = IF Dispatchable(r) THEN RunJob(r) ELSE r
    BY <1>7, <2>2
  <2> HIDE DEF r, d
  <2>4. CASE Dispatchable(r)
    <3>1. Served(r, d) /\ Len(d.running) = Len(r.running) + 1
      BY <2>1, <2>3, <2>4, RunServes DEF Served
    <3>4. Len(r.running) \in Nat
      BY <2>1, LenProperties DEF Served, Queues
    <3>2. Served(q, d)
      BY <2>1, <3>1, ServedAgain
    <3>3. Len(d.running) >= n + 1
      BY <2>1, <2>4, <3>1, <3>4
    <3> QED
      BY <3>2, <3>3
  <2>5. CASE ~Dispatchable(r)
    BY <2>1, <2>3, <2>5
  <2> QED
    BY <2>4, <2>5
<1> HIDE DEF S
<1>10. L \in S
  BY <1>1, <1>8, <1>9, NaturalsByStep
<1>11. Served(q, after[L]) /\ (~Dispatchable(after[L]) \/ Len(after[L].running) >= L)
  BY <1>1, <1>10 DEF S
<1>12. ASSUME Len(after[L].running) >= L
       PROVE  ~Dispatchable(after[L])
  <2>1. Len(after[L].running) \in Nat /\ Cap \in Nat
    BY <1>11, LenProperties, QueueAssumption DEF Served, Queues
  <2> QED
    BY <2>1, <1>12 DEF Dispatchable
<1> QED
  BY <1>6, <1>11, <1>12

-----------------------------------------------------------------------------
(* What each operation makes of a queue. *)

\* A queue of which the lanes may be out of date, but whose timers are right.
Aged(q) ==
    /\ q \in Queues /\ Len(q.running) <= Cap
    /\ \A i \in DOMAIN q.pending : q.pending[i].aging = (q.pending[i].lane = Background)

\* Whatever was kept of q is kept of r, and the background lane is as open as it was.
KeepsOf(q, r) == r.released = q.released /\ \A ks : Kept(q, ks) => Kept(r, ks)

LEMMA KeepsOn ==
    ASSUME NEW q, NEW r, NEW d, KeepsOf(q, r), KeepsOf(r, d)
    PROVE  KeepsOf(q, d)
  BY DEF KeepsOf

\* The fields of a queue.
LEMMA QueueFields ==
    ASSUME NEW q \in Queues
    PROVE  /\ q.pending \in Seq(Jobs) /\ q.running \in Seq(Started) /\ q.focus \in Focuses
           /\ q.released \in BOOLEAN /\ q.owed \in SUBSET JobKeys
           /\ Len(q.pending) \in Nat /\ DOMAIN q.pending = 1 .. Len(q.pending)
           /\ \A i \in DOMAIN q.pending : q.pending[i] \in Jobs
           /\ \A p \in Seq(Jobs) : [q EXCEPT !.pending = p] \in Queues
           /\ \A f \in Focuses : [q EXCEPT !.focus = f] \in Queues
<1>1. q.pending \in Seq(Jobs)
  BY DEF Queues
<1>2. /\ Len(q.pending) \in Nat /\ DOMAIN q.pending = 1 .. Len(q.pending)
      /\ \A i \in DOMAIN q.pending : q.pending[i] \in Jobs
  BY <1>1, LenProperties, ElementOfSeq
<1> QED
  BY <1>1, <1>2 DEF Queues

\* Dispatch keeps a sound queue sound, and leaves nothing that could start.
LEMMA DispatchSound ==
    ASSUME NEW q, Sound(q)
    PROVE  /\ Sound(Dispatch(q)) /\ ~Dispatchable(Dispatch(q)) /\ KeepsOf(q, Dispatch(q))
<1> DEFINE d == Dispatch(q)
<1>1. Served(q, d) /\ ~Dispatchable(d)
  BY DispatchServes DEF Sound
<1> HIDE DEF d
<1>2. Sound(d)
  <2>1. \A i \in DOMAIN d.pending : WellPlaced(d.focus, d.pending[i])
    BY <1>1 DEF Served, Sound
  <2> QED
    BY <1>1, <2>1 DEF Served, Sound
<1>3. KeepsOf(q, d)
  <2> SUFFICES ASSUME NEW ks, Kept(q, ks), NEW k \in ks \cap d.owed
               PROVE  \E i \in DOMAIN d.pending : d.pending[i].key = k
    BY <1>1 DEF KeepsOf, Kept, Served
  <2>1. k \in q.owed
    BY <1>1 DEF Served
  <2>2. PICK j \in DOMAIN q.pending : q.pending[j].key = k
    BY <2>1 DEF Kept
  <2> QED
    BY <2>2, <1>1 DEF Served
<1> QED
  BY <1>1, <1>2, <1>3 DEF d

\* The reports that are kept are reports.
LEMMA PrunedFocus ==
    ASSUME NEW f \in Focuses
    PROVE  Prune(f) \in Focuses
<1>1. PICK D \in SUBSET Clients : f \in [D -> Reports]
  BY DEF Focuses
<1> DEFINE E == {c \in DOMAIN f : f[c].fresh}
<1>2. E \in SUBSET Clients /\ Prune(f) \in [E -> Reports]
  BY <1>1 DEF Prune, Restrict
<1> QED
  BY <1>2 DEF Focuses

\* A job derived anew is where its own task puts it.
LEMMA RelanedJob ==
    ASSUME NEW f, NEW j \in Jobs, j.aging = (j.lane = Background)
    PROVE  Relaned(f, j) \in Jobs /\ Relaned(f, j).key = j.key /\ WellPlaced(f, Relaned(f, j))
<1> DEFINE l == FocusPriority(f, j.task)
           w == [j EXCEPT !.lane = l, !.raisedFor = NoTask]
<1>1. l \in Interactive .. Background
  BY FocusLane DEF Lanes
<1> HIDE DEF l
<1>2. /\ w \in Jobs /\ w.key = j.key /\ w.lane = l /\ w.pinned = j.pinned
      /\ w.task = j.task
  BY <1>1 DEF Jobs
<1>3. CASE Follows(j)
  <2>1. Relaned(f, j) = SyncPromotion(w)
    BY <1>3 DEF l, Relaned
  <2> HIDE DEF w
  <2>2. /\ Relaned(f, j) \in Jobs /\ Relaned(f, j).key = j.key /\ Relaned(f, j).lane = l
        /\ Relaned(f, j).aging = (l = Background) /\ Relaned(f, j).task = j.task
    BY <1>2, <2>1, SyncedJob
  <2> QED
    BY <2>2 DEF WellPlaced, Placed, l
<1>4. CASE ~Follows(j)
  BY <1>4 DEF WellPlaced, Relaned
<1> QED
  BY <1>3, <1>4

\* reprioritizePendingJobsForFocus puts every job that follows the focus in its lane.
LEMMA ReprioritizeSound ==
    ASSUME NEW q, Aged(q)
    PROVE  /\ Sound(Reprioritize(q)) /\ ~Dispatchable(Reprioritize(q))
           /\ KeepsOf(q, Reprioritize(q))
<1> DEFINE p == q.pending
           f == IF \E i \in DOMAIN q.pending : Follows(q.pending[i])
                THEN Prune(q.focus) ELSE q.focus
           m == [i \in DOMAIN q.pending |-> Relaned(f, q.pending[i])]
           r == [q EXCEPT !.focus = f, !.pending = m]
<1>1. Reprioritize(q) = Dispatch(r)
  BY DEF Reprioritize
<1>2. q \in Queues /\ p \in Seq(Jobs) /\ DOMAIN p = 1 .. Len(p) /\ Len(p) \in Nat
  BY QueueFields DEF Aged
<1>3. f \in Focuses
  BY <1>2, QueueFields, PrunedFocus
<1> HIDE DEF f
<1>5. \A i \in 1 .. Len(p) : m[i] \in Jobs /\ m[i].key = p[i].key /\ WellPlaced(f, m[i])
  <2>1. \A i \in 1 .. Len(p) : p[i] \in Jobs /\ p[i].aging = (p[i].lane = Background)
    BY <1>2, QueueFields DEF Aged
  <2>2. \A i \in 1 .. Len(p) : m[i] = Relaned(f, p[i])
    BY <1>2
  <2> QED
    BY <2>1, <2>2, RelanedJob
<1>6. m \in Seq(Jobs) /\ DOMAIN m = 1 .. Len(p)
  <2>1. m \in [1 .. Len(p) -> Jobs]
    BY <1>2, <1>5
  <2> QED
    BY <1>2, <2>1, SeqDef
<1> HIDE DEF m, p
<1>7. /\ r \in Queues /\ r.pending = m /\ r.focus = f
      /\ r.running = q.running /\ r.owed = q.owed /\ r.released = q.released
  BY <1>2, <1>3, <1>6 DEF Queues
<1> HIDE DEF r
<1>8. Sound(r)
  BY <1>5, <1>6, <1>7 DEF Sound, Aged
<1>9. KeepsOf(q, r)
  <2> SUFFICES ASSUME NEW ks, Kept(q, ks), NEW k \in ks \cap r.owed
               PROVE  \E i \in DOMAIN r.pending : r.pending[i].key = k
    BY <1>7 DEF KeepsOf, Kept
  <2>1. PICK j \in DOMAIN q.pending : q.pending[j].key = k
    BY <1>7 DEF Kept
  <2> QED
    BY <2>1, <1>2, <1>5, <1>6, <1>7 DEF p
<1> QED
  BY <1>1, <1>8, <1>9, DispatchSound, KeepsOn

\* Dropping the expired reports moves the jobs that followed them.
LEMMA RefreshSound ==
    ASSUME NEW q, Sound(q)
    PROVE  Sound(Refresh(q)) /\ KeepsOf(q, Refresh(q))
<1> DEFINE w == [q EXCEPT !.focus = Prune(q.focus)]
<1>1. CASE Prune(q.focus) = q.focus
  BY <1>1 DEF Refresh, KeepsOf
<1>2. CASE Prune(q.focus) # q.focus
  <2>1. q \in Queues /\ Prune(q.focus) \in Focuses
    BY QueueFields, PrunedFocus DEF Sound
  <2>2. /\ w \in Queues /\ w.pending = q.pending /\ w.running = q.running
        /\ w.owed = q.owed /\ w.released = q.released
    BY <2>1, QueueFields DEF Queues
  <2>3. Refresh(q) = Reprioritize(w)
    BY <1>2 DEF Refresh
  <2> HIDE DEF w
  <2>4. Aged(w)
    BY <2>2 DEF Aged, Sound, WellPlaced
  <2>5. KeepsOf(q, w)
    BY <2>2 DEF KeepsOf, Kept
  <2> QED
    BY <2>3, <2>4, <2>5, ReprioritizeSound, KeepsOn
<1> QED
  BY <1>1, <1>2

\* Every owed key has a job that waits.
Answered(q) == Kept(q, JobKeys)

\* enqueueBackendWork: whether it adds a job, raises one or joins a run, the request
\* and all earlier ones are kept.
LEMMA EnqueueWorkSound ==
    ASSUME NEW q, Sound(q), Answered(q), NEW k \in JobKeys, NEW t \in Tasks \cup {NoTask},
           NEW p \in Lanes \cup {Follow}
    PROVE  /\ Sound(EnqueueWork(q, k, t, p)) /\ ~Dispatchable(EnqueueWork(q, k, t, p))
           /\ Answered(EnqueueWork(q, k, t, p))
           /\ EnqueueWork(q, k, t, p).released = q.released
<1> DEFINE a == [q EXCEPT !.owed = @ \cup {k}]
           r == IF p = Follow /\ t # NoTask THEN Refresh(a) ELSE a
           requested == IF p = Follow THEN FocusPriority(r.focus, t) ELSE p
           Raise(j) == SyncPromotion([j EXCEPT !.lane = requested, !.pinned = @ \/ p # Follow,
                                               !.raisedFor = t])
           job == NewJob(k, t, requested, p # Follow)
           added == [r EXCEPT !.pending = Append(@, job)]
           Move(i) == IF i \in IndexOf(r, k) /\ requested < r.pending[i].lane
                      THEN Raise(r.pending[i]) ELSE r.pending[i]
           raised == [r EXCEPT !.pending = [i \in DOMAIN @ |->
                        IF i \in IndexOf(r, k) /\ requested < @[i].lane THEN Raise(@[i]) ELSE @[i]]]
<1>1. EnqueueWork(q, k, t, p) = IF IndexOf(q, k) = {} THEN Dispatch(added) ELSE Dispatch(raised)
  BY DEF EnqueueWork
<1>2. /\ Sound(a) /\ a.owed = q.owed \cup {k} /\ a.pending = q.pending
      /\ a.focus = q.focus /\ a.running = q.running /\ a.released = q.released
  <2>1. q \in Queues
    BY DEF Sound
  <2>2. /\ a \in Queues /\ a.owed = q.owed \cup {k} /\ a.pending = q.pending
        /\ a.focus = q.focus /\ a.running = q.running /\ a.released = q.released
    BY <2>1 DEF Queues
  <2> QED
    BY <2>2 DEF Sound
<1> HIDE DEF a
<1>3. Sound(r) /\ KeepsOf(a, r)
  BY <1>2, RefreshSound DEF KeepsOf
<1>4. requested \in Interactive .. Background
  BY FocusLane DEF Lanes
<1>5. Follow \notin Lanes
  BY DEF Follow, Lanes, Interactive, Background
<1> DEFINE pins == (p # Follow)
<1>6. pins \in BOOLEAN
  OBVIOUS
<1>7. p = Follow => requested = FocusPriority(r.focus, t)
  OBVIOUS
<1> HIDE DEF r, requested, pins
<1>8. /\ r \in Queues /\ r.pending \in Seq(Jobs) /\ Len(r.pending) \in Nat
      /\ DOMAIN r.pending = 1 .. Len(r.pending)
      /\ \A i \in 1 .. Len(r.pending) : r.pending[i] \in Jobs
      /\ \A i \in 1 .. Len(r.pending) : WellPlaced(r.focus, r.pending[i])
      /\ Len(r.running) <= Cap
  BY <1>3, QueueFields DEF Sound
<1>9. ASSUME IndexOf(q, k) = {}
      PROVE  Sound(added) /\ Answered(added) /\ added.released = q.released
  <2> DEFINE new == [key |-> k, task |-> t, lane |-> requested, pinned |-> pins,
                     aging |-> FALSE, raisedFor |-> NoTask]
  <2>1. new \in Jobs
    BY <1>4, <1>6 DEF Jobs
  <2>2. job = SyncPromotion(new)
    BY DEF pins, NewJob
  <2>3. /\ job \in Jobs /\ job.key = k /\ job.lane = requested /\ job.pinned = pins
        /\ job.aging = (requested = Background) /\ job.task = t
    BY <2>1, <2>2, SyncedJob
  <2> HIDE DEF job, new
  <2>4. WellPlaced(r.focus, job)
    BY <2>3, <1>7 DEF WellPlaced, Placed, Follows, pins
  <2> DEFINE s == Append(r.pending, job)
  <2>5. /\ s \in Seq(Jobs) /\ DOMAIN s = 1 .. Len(r.pending) + 1
        /\ \A i \in 1 .. Len(r.pending) : s[i] = r.pending[i]
        /\ s[Len(r.pending) + 1] = job
    BY <1>8, <2>3, AppendProperties, LenProperties
  <2>6. /\ added \in Queues /\ added.pending = s /\ added.focus = r.focus
        /\ added.running = r.running /\ added.owed = r.owed /\ added.released = q.released
    BY <1>2, <1>3, <1>8, <2>5 DEF Queues, KeepsOf
  <2> HIDE DEF s, added
  <2>7. \A i \in DOMAIN s : WellPlaced(r.focus, s[i])
    <3>1. \A i \in DOMAIN s : i \in 1 .. Len(r.pending) \/ i = Len(r.pending) + 1
      BY <1>8, <2>5
    <3> QED
      BY <3>1, <1>8, <2>4, <2>5
  <2>8. Sound(added)
    BY <1>8, <2>6, <2>7 DEF Sound
  <2>9. Kept(a, JobKeys \ {k})
    BY <1>2 DEF Answered, Kept
  <2>10. Kept(r, JobKeys \ {k})
    BY <2>9, <1>3 DEF KeepsOf
  <2>11. ASSUME NEW x \in JobKeys \cap added.owed
         PROVE  \E i \in DOMAIN added.pending : added.pending[i].key = x
    <3>1. CASE x = k
      <4>1. Len(r.pending) + 1 \in DOMAIN s
        BY <1>8, <2>5
      <4> QED
        BY <4>1, <3>1, <2>3, <2>5, <2>6
    <3>2. CASE x # k
      <4>1. PICK i \in DOMAIN r.pending : r.pending[i].key = x
        BY <3>2, <2>6, <2>10, <2>11 DEF Kept
      <4>2. i \in 1 .. Len(r.pending) /\ i \in DOMAIN s
        BY <4>1, <1>8, <2>5
      <4> QED
        BY <4>1, <4>2, <2>5, <2>6
    <3> QED
      BY <3>1, <3>2
  <2> QED
    BY <2>6, <2>8, <2>11 DEF Answered, Kept
<1>10. ASSUME IndexOf(q, k) # {}
       PROVE  Sound(raised) /\ Answered(raised) /\ raised.released = q.released
  <2> DEFINE m == [i \in 1 .. Len(r.pending) |-> Move(i)]
  <2>1. ASSUME NEW i \in 1 .. Len(r.pending)
        PROVE  Move(i) \in Jobs /\ Move(i).key = r.pending[i].key /\ WellPlaced(r.focus, Move(i))
    <3> DEFINE j == r.pending[i]
               pin == (j.pinned \/ p # Follow)
               w == [j EXCEPT !.lane = requested, !.pinned = pin, !.raisedFor = t]
    <3>1. j \in Jobs /\ WellPlaced(r.focus, j)
      BY <1>8
    <3>2. CASE i \in IndexOf(r, k) /\ requested < j.lane
      <4>1. j.key = k
        BY <3>2 DEF IndexOf
      <4>2. Move(i) = SyncPromotion(w)
        BY <3>2
      <4>3. pin \in BOOLEAN /\ (~pin => p = Follow)
        OBVIOUS
      <4> HIDE DEF j, pin, Move
      <4>4. /\ w \in Jobs /\ w.key = k /\ w.lane = requested /\ w.pinned = pin
            /\ w.task = j.task /\ w.raisedFor = t
        BY <1>4, <3>1, <4>1, <4>3 DEF Jobs
      <4> HIDE DEF w
      <4>5. /\ Move(i) \in Jobs /\ Move(i).key = k /\ Move(i).lane = requested
            /\ Move(i).pinned = pin /\ Move(i).aging = (requested = Background)
            /\ Move(i).task = j.task /\ Move(i).raisedFor = t
        BY <4>2, <4>4, SyncedJob
      <4>6. ASSUME Follows(Move(i))
            PROVE  Placed(r.focus, Move(i))
        <5>1. Follows(j) /\ p = Follow
          BY <4>3, <4>5, <4>6 DEF Follows, pin
        <5>2. j.lane = FocusPriority(r.focus, j.task) \/ j.lane < FocusPriority(r.focus, j.task)
          BY <5>1, <3>1 DEF WellPlaced, Placed, Visible, Background
        <5>3. requested < FocusPriority(r.focus, j.task)
          <6>1. /\ FocusPriority(r.focus, j.task) \in Int /\ requested \in Int /\ j.lane \in Int
            BY <1>4, <3>1, FocusLane DEF Lanes, Jobs, Interactive, Background
          <6>2. requested < j.lane
            BY <3>2 DEF j
          <6> QED
            BY <5>2, <6>1, <6>2
        <5> QED
          BY <4>5, <5>1, <5>3, <1>7 DEF Placed
      <4>7. WellPlaced(r.focus, Move(i))
        BY <4>5, <4>6 DEF WellPlaced
      <4> QED
        BY <4>1, <4>5, <4>7 DEF j
    <3>3. CASE ~(i \in IndexOf(r, k) /\ requested < j.lane)
      <4>1. Move(i) = j
        BY <3>3
      <4> QED
        BY <4>1, <3>1
    <3> QED
      BY <3>2, <3>3
  <2>2. raised = [r EXCEPT !.pending = m]
    BY <1>8
  <2> HIDE DEF Move, raised
  <2>3. m \in [1 .. Len(r.pending) -> Jobs]
    BY <2>1
  <2>4. m \in Seq(Jobs) /\ DOMAIN m = 1 .. Len(r.pending)
    BY <1>8, <2>3, SeqDef
  <2>5. \A i \in 1 .. Len(r.pending) : m[i].key = r.pending[i].key /\ WellPlaced(r.focus, m[i])
    BY <2>1
  <2> HIDE DEF m
  <2>6. /\ raised \in Queues /\ raised.pending = m /\ raised.focus = r.focus
        /\ raised.running = r.running /\ raised.owed = r.owed /\ raised.released = q.released
    BY <1>2, <1>3, <1>8, <2>2, <2>4 DEF Queues, KeepsOf
  <2>7. Sound(raised)
    BY <1>8, <2>4, <2>5, <2>6 DEF Sound
  <2>8. Kept(a, JobKeys)
    <3>1. PICK n \in DOMAIN q.pending : q.pending[n].key = k
      BY <1>10 DEF IndexOf
    <3> QED
      BY <3>1, <1>2 DEF Answered, Kept
  <2>9. Kept(r, JobKeys)
    BY <2>8, <1>3 DEF KeepsOf
  <2>10. Kept(raised, JobKeys)
    BY <2>9, <1>8, <2>4, <2>5, <2>6 DEF Kept
  <2> QED
    BY <2>6, <2>7, <2>10 DEF Answered
<1> HIDE DEF added, raised
<1>11. CASE IndexOf(q, k) = {}
  BY <1>1, <1>9, <1>11, DispatchSound DEF KeepsOf, Answered
<1>12. CASE IndexOf(q, k) # {}
  BY <1>1, <1>10, <1>12, DispatchSound DEF KeepsOf, Answered
<1> QED
  BY <1>11, <1>12

\* A report replaces the client's last one, and the jobs follow.
LEMMA SetClientFocusSound ==
    ASSUME NEW q, Sound(q), NEW c \in Clients, NEW t \in Selections, NEW v \in Visibles
    PROVE  /\ Sound(SetClientFocus(q, c, t, v)) /\ ~Dispatchable(SetClientFocus(q, c, t, v))
           /\ KeepsOf(q, SetClientFocus(q, c, t, v))
<1> DEFINE kept == Prune(q.focus)
           report == [selected |-> t, visible |-> v, fresh |-> TRUE]
           f == [d \in DOMAIN kept \cup {c} |-> IF d = c THEN report ELSE kept[d]]
           w == [q EXCEPT !.focus = f]
<1>1. q \in Queues /\ Prune(q.focus) \in Focuses
  BY QueueFields, PrunedFocus DEF Sound
<1>2. f \in Focuses
  <2>1. PICK D \in SUBSET Clients : kept \in [D -> Reports]
    BY <1>1 DEF Focuses
  <2>2. report \in Reports
    BY DEF Reports
  <2> HIDE DEF report, kept
  <2>3. f \in [{c} \cup D -> Reports] /\ {c} \cup D \in SUBSET Clients
    BY <2>1, <2>2 
  <2> QED
    BY <2>3 DEF Focuses
<1>3. SetClientFocus(q, c, t, v) = Reprioritize(w)
  BY DEF SetClientFocus
<1> HIDE DEF f
<1>4. /\ w \in Queues /\ w.pending = q.pending /\ w.running = q.running
      /\ w.owed = q.owed /\ w.released = q.released
  BY <1>1, <1>2 DEF Queues
<1> HIDE DEF w
<1>5. Aged(w)
  BY <1>4 DEF Aged, Sound, WellPlaced
<1>6. KeepsOf(q, w)
  BY <1>4 DEF KeepsOf, Kept
<1> QED
  BY <1>3, <1>5, <1>6, ReprioritizeSound, KeepsOn

-----------------------------------------------------------------------------
(* The inductive invariant. *)

\* The queue is sound, nothing that waits could start, and no request is forgotten.
QueueInv == Sound(Queue) /\ Answered(Queue) /\ ~Dispatchable(Queue)

Sweeps == [ids : Seq(Tasks), armed : BOOLEAN, current : Tasks \cup {NoTask}, settled : BOOLEAN]

\* A sweep with tasks left has a timer or awaits a job, once the lane is open.
SweepGoesOn(s, rel) == (rel /\ s.ids # <<>>) => (s.armed \/ s.current # NoTask)

SweepInv == sweep \in Sweeps /\ SweepGoesOn(sweep, released)

IInv == QueueInv /\ SweepInv

\* The variables are the fields of the queue.
LEMMA QueueIs ==
    ASSUME NEW q \in Queues
    PROVE  /\ Becomes(q) => Queue' = q
           /\ Queue.pending = pending /\ Queue.running = running /\ Queue.focus = focus
           /\ Queue.released = released /\ Queue.owed = owed
  BY DEF Becomes, Queue, Queues

\* Steps that leave the queue alone leave its invariant alone.
LEMMA QueueStays ==
    ASSUME QueueInv, UNCHANGED <<pending, running, focus, released, owed>>
    PROVE  QueueInv'
<1>1. Queue' = Queue
  BY DEF Queue
<1> QED
  BY <1>1 DEF QueueInv, Sound, Answered, Dispatchable, Kept, WellPlaced

\* A step that makes a sound queue of the queue keeps both halves of the invariant.
LEMMA QueueBecomes ==
    ASSUME NEW q, Sound(q), ~Dispatchable(q), Answered(q), Becomes(q)
    PROVE  QueueInv' /\ released' = q.released
<1>1. q \in Queues
  BY DEF Sound
<1>2. Queue' = q
  BY <1>1, QueueIs
<1> QED
  BY <1>2 DEF QueueInv, Becomes

LEMMA QueueInitially == Init => IInv
<1> SUFFICES ASSUME Init PROVE IInv
  OBVIOUS
<1>1. Queue \in Queues
  <2>1. <<>> \in Seq(Jobs) /\ <<>> \in Seq(Started)
    OBVIOUS
  <2>2. <<>> \in [{} -> Reports] /\ {} \in SUBSET Clients
    OBVIOUS
  <2>3. <<>> \in Focuses
    BY <2>2 DEF Focuses
  <2> QED
    BY <2>1, <2>3 DEF Init, Queue, Queues
<1>2. /\ Queue.pending = <<>> /\ Queue.running = <<>> /\ Queue.owed = {}
      /\ Len(<<>>) = 0 /\ Cap \in Nat
  BY QueueAssumption DEF Init, Queue
<1>3. QueueInv
  BY <1>1, <1>2 DEF QueueInv, Sound, Answered, Kept, Dispatchable
<1>4. SweepInv
  BY DEF Init, SweepInv, Sweeps, SweepGoesOn
<1> QED
  BY <1>3, <1>4 DEF IInv

-----------------------------------------------------------------------------
(* Each step preserves the invariant. *)

LEMMA EnqueuePreserves ==
    ASSUME IInv, NEW k \in Keys, NEW t \in KeyTasks[k], NEW p \in Explicit \cup {Follow},
           Enqueue(k, t, p)
    PROVE  IInv'
<1>1. k \in JobKeys /\ p \in Lanes \cup {Follow} /\ t \in Tasks \cup {NoTask}
  BY QueueAssumption DEF JobKeys, Lanes
<1>2. QueueInv' /\ released' = Queue.released
  BY <1>1, EnqueueWorkSound, QueueBecomes DEF IInv, QueueInv, Enqueue
<1>3. SweepInv'
  BY <1>2 DEF IInv, SweepInv, SweepGoesOn, Enqueue, Queue
<1> QED
  BY <1>2, <1>3 DEF IInv

LEMMA FinishPreserves ==
    ASSUME IInv, NEW k \in JobKeys, Finish(k)
    PROVE  IInv'
<1>1. PICK i \in DOMAIN running : Becomes(Dispatch([Queue EXCEPT !.running = RemoveAt(@, i)]))
  BY DEF Finish
<1> DEFINE rest == RemoveAt(running, i)
           w == [Queue EXCEPT !.running = rest]
<1>2. Queue \in Queues /\ running \in Seq(Started) /\ Len(running) <= Cap
  BY DEF IInv, QueueInv, Sound, Queues, Queue
<1>3. i \in 1 .. Len(running) /\ Len(running) \in Nat
  BY <1>2, LenProperties
<1>4. rest \in Seq(Started) /\ Len(rest) = Len(running) - 1
  BY <1>2, <1>3, Removed
<1>5. Becomes(Dispatch(w))
  BY <1>1 DEF Queue
<1> HIDE DEF rest
<1>6. /\ w \in Queues /\ w.running = rest /\ w.pending = Queue.pending
      /\ w.focus = Queue.focus /\ w.owed = Queue.owed /\ w.released = Queue.released
  BY <1>2, <1>4 DEF Queues
<1> HIDE DEF w
<1>7. Cap \in Nat
  BY QueueAssumption
<1>8. Sound(w) /\ KeepsOf(Queue, w)
  BY <1>2, <1>3, <1>4, <1>6, <1>7 DEF IInv, QueueInv, Sound, KeepsOf, Kept
<1>9. QueueInv' /\ released' = released
  <2>1. Sound(Dispatch(w)) /\ ~Dispatchable(Dispatch(w)) /\ KeepsOf(Queue, Dispatch(w))
    BY <1>8, DispatchSound, KeepsOn
  <2>2. Answered(Dispatch(w)) /\ Dispatch(w).released = released
    BY <2>1 DEF IInv, QueueInv, Answered, KeepsOf, Queue
  <2> QED
    BY <1>5, <2>1, <2>2, QueueBecomes
<1>10. SweepInv'
  <2> DEFINE over == (sweep.settled \/ k = Reconcile(sweep.current))
  <2>1. sweep \in Sweeps /\ SweepGoesOn(sweep, released)
    BY DEF IInv, SweepInv
  <2>2. over \in BOOLEAN
    BY <2>1 DEF Sweeps
  <2>3. sweep' = [sweep EXCEPT !.settled = over]
    BY DEF Finish
  <2> HIDE DEF over
  <2>4. /\ sweep' \in Sweeps /\ sweep'.ids = sweep.ids /\ sweep'.armed = sweep.armed
        /\ sweep'.current = sweep.current
    BY <2>1, <2>2, <2>3 DEF Sweeps
  <2> QED
    BY <1>9, <2>1, <2>4 DEF SweepInv, SweepGoesOn
<1> QED
  BY <1>9, <1>10 DEF IInv

LEMMA PromotePreserves ==
    ASSUME IInv, NEW k \in JobKeys, Promote(k)
    PROVE  IInv'
<1>1. PICK i \in DOMAIN pending :
         /\ pending[i].aging
         /\ LET lane == IF pending[i].lane = Background THEN Visible ELSE pending[i].lane
            IN  Becomes(Dispatch([Queue EXCEPT !.pending[i].aging = FALSE,
                                               !.pending[i].lane = lane]))
  BY DEF Promote
<1> DEFINE j == pending[i]
           l == IF j.lane = Background THEN Visible ELSE j.lane
           aged == [j EXCEPT !.aging = FALSE, !.lane = l]
           s == [pending EXCEPT ![i] = aged]
           w == [Queue EXCEPT !.pending = s]
<1>2. /\ Queue \in Queues /\ Sound(Queue) /\ pending \in Seq(Jobs)
      /\ DOMAIN pending = 1 .. Len(pending)
      /\ \A n \in DOMAIN pending : pending[n] \in Jobs /\ WellPlaced(focus, pending[n])
      /\ Queue.pending = pending /\ Queue.focus = focus
  BY QueueFields DEF IInv, QueueInv, Sound, Queue
<1>3. w = [Queue EXCEPT !.pending[i].aging = FALSE, !.pending[i].lane = l]
  <2> HIDE DEF l
  <2>1. i \in 1 .. Len(pending) /\ j \in Jobs
    BY <1>2
  <2>2. [[pending EXCEPT ![i].aging = FALSE] EXCEPT ![i].lane = l] = s
    BY <1>2, <2>1 DEF Jobs
  <2> QED
    BY <1>2, <2>2
<1>4. Becomes(Dispatch(w))
  BY <1>1, <1>3
<1>5. j.lane = Background
  BY <1>1, <1>2 DEF WellPlaced
<1>6. aged \in Jobs /\ aged.key = j.key /\ WellPlaced(focus, aged)
  <2>1. j \in Jobs /\ l = Visible /\ Visible \in Interactive .. Background /\ Visible # Background
    BY <1>2, <1>5 DEF Interactive, Visible, Background
  <2> HIDE DEF l
  <2>2. /\ aged \in Jobs /\ aged.key = j.key /\ aged.lane = Visible /\ aged.aging = FALSE
        /\ aged.pinned = j.pinned /\ aged.task = j.task
    BY <2>1 DEF Jobs
  <2>3. WellPlaced(focus, j)
    BY <1>2
  <2> HIDE DEF aged, j
  <2>4. ASSUME Follows(aged)
        PROVE  FocusPriority(focus, j.task) = Background
    <3>1. Placed(focus, j) /\ FocusPriority(focus, j.task) \in Lanes
      BY <2>2, <2>3, <2>4, FocusLane DEF WellPlaced, Follows
    <3> QED
      BY <3>1, <1>5 DEF Placed, Lanes, Interactive, Visible, Background
  <2> QED
    BY <2>1, <2>2, <2>4 DEF WellPlaced, Placed
<1> HIDE DEF aged
<1>7. /\ s \in Seq(Jobs) /\ DOMAIN s = DOMAIN pending
      /\ \A n \in DOMAIN pending : s[n] = IF n = i THEN aged ELSE pending[n]
  BY <1>2, <1>6, ExceptSeq, LenProperties
<1> HIDE DEF s, w
<1>8. /\ w \in Queues /\ w.pending = s /\ w.running = Queue.running /\ w.focus = focus
      /\ w.owed = Queue.owed /\ w.released = Queue.released
  BY <1>2, <1>7 DEF Queues, w
<1>9. Sound(w)
  BY <1>2, <1>6, <1>7, <1>8 DEF Sound
<1>10. KeepsOf(Queue, w)
  <2>1. \A n \in DOMAIN pending : s[n].key = pending[n].key
    BY <1>6, <1>7
  <2> QED
    BY <2>1, <1>2, <1>7, <1>8 DEF KeepsOf, Kept
<1>11. QueueInv' /\ released' = released
  <2>1. Sound(Dispatch(w)) /\ ~Dispatchable(Dispatch(w)) /\ KeepsOf(Queue, Dispatch(w))
    BY <1>9, <1>10, DispatchSound, KeepsOn
  <2>2. Answered(Dispatch(w)) /\ Dispatch(w).released = released
    BY <2>1 DEF IInv, QueueInv, Answered, KeepsOf, Queue
  <2> QED
    BY <1>4, <2>1, <2>2, QueueBecomes
<1>12. SweepInv'
  BY <1>11 DEF IInv, SweepInv, SweepGoesOn, Promote
<1> QED
  BY <1>11, <1>12 DEF IInv

LEMMA ReportPreserves ==
    ASSUME IInv, NEW c \in Clients, NEW t \in Selections, NEW v \in Visibles,
           NEW reg \in Tasks \cup {NoTask}, ReportClientTaskFocus(c, t, v, reg)
    PROVE  IInv'
<1> DEFINE r == Refresh(Queue)
           previous == IF c \in DOMAIN r.focus THEN r.focus[c].selected ELSE NoTask
           set == SetClientFocus(r, c, t, v)
           asks == reg # NoTask /\ t # previous
           q == IF asks THEN EnqueueWork(set, GitKey[t], reg, Selected) ELSE set
<1>1. Becomes(q) /\ UNCHANGED sweep
  BY DEF ReportClientTaskFocus
<1>2. Sound(r) /\ KeepsOf(Queue, r)
  BY RefreshSound DEF IInv, QueueInv
<1> HIDE DEF r
<1>3. Sound(set) /\ ~Dispatchable(set) /\ KeepsOf(Queue, set)
  BY <1>2, SetClientFocusSound, KeepsOn
<1>4. Answered(set) /\ set.released = released
  BY <1>3 DEF IInv, QueueInv, Answered, KeepsOf, Queue
<1>5. asks => GitKey[t] \in JobKeys
  <2>1. asks => t \in Tasks
    BY QueueAssumption DEF ReportClientTaskFocus
  <2> QED
    BY <2>1, QueueAssumption DEF JobKeys
<1>6. Selected \in Lanes
  BY DEF Lanes, Interactive, Selected, Background
<1> HIDE DEF set, previous
<1>7. Sound(q) /\ ~Dispatchable(q) /\ Answered(q) /\ q.released = released
  <2>1. CASE asks
    <3>1. q = EnqueueWork(set, GitKey[t], reg, Selected)
      BY <2>1
    <3> QED
      BY <2>1, <3>1, <1>3, <1>4, <1>5, <1>6, EnqueueWorkSound
  <2>2. CASE ~asks
    BY <2>2, <1>3, <1>4
  <2> QED
    BY <2>1, <2>2
<1> HIDE DEF q
<1>8. QueueInv' /\ released' = released
  BY <1>1, <1>7, QueueBecomes
<1>9. SweepInv'
  BY <1>1, <1>8 DEF IInv, SweepInv, SweepGoesOn
<1> QED
  BY <1>8, <1>9 DEF IInv

LEMMA ClearFocusPreserves ==
    ASSUME IInv, NEW c \in Clients, ClearFocus(c)
    PROVE  IInv'
<1> DEFINE D == DOMAIN focus \ {c}
           f == Restrict(focus, D)
           w == [Queue EXCEPT !.focus = f]
<1>1. Queue \in Queues /\ focus \in Focuses /\ Queue.focus = focus
  BY QueueFields DEF IInv, QueueInv, Sound, Queue
<1>2. f \in Focuses
  <2>1. PICK E \in SUBSET Clients : focus \in [E -> Reports]
    BY <1>1 DEF Focuses
  <2>2. D \in SUBSET Clients /\ f \in [D -> Reports]
    BY <2>1 DEF Restrict
  <2> QED
    BY <2>2 DEF Focuses
<1>3. Becomes(Reprioritize(w))
  BY <1>1 DEF ClearFocus
<1> HIDE DEF f
<1>4. /\ w \in Queues /\ w.pending = Queue.pending /\ w.running = Queue.running
      /\ w.owed = Queue.owed /\ w.released = Queue.released
  BY <1>1, <1>2 DEF Queues
<1> HIDE DEF w
<1>5. Aged(w) /\ KeepsOf(Queue, w)
  BY <1>4 DEF Aged, KeepsOf, Kept, IInv, QueueInv, Sound, WellPlaced
<1> DEFINE q == Reprioritize(w)
<1>6. Sound(q) /\ ~Dispatchable(q) /\ KeepsOf(Queue, q)
  BY <1>5, ReprioritizeSound, KeepsOn
<1> HIDE DEF q
<1>7. Answered(q) /\ q.released = released
  BY <1>6 DEF IInv, QueueInv, Answered, KeepsOf, Queue
<1>8. QueueInv' /\ released' = released
  BY <1>3, <1>6, <1>7, QueueBecomes DEF q
<1>9. SweepInv'
  BY <1>8 DEF IInv, SweepInv, SweepGoesOn, ClearFocus
<1> QED
  BY <1>8, <1>9 DEF IInv

\* A report that has outlived its time still counts until it is dropped.
LEMMA LapsePreserves ==
    ASSUME IInv, NEW c \in Clients, Lapse(c)
    PROVE  IInv'
<1>1. /\ Queue \in Queues /\ focus \in Focuses /\ Queue.focus = focus /\ c \in DOMAIN focus
      /\ focus' = [focus EXCEPT ![c].fresh = FALSE]
      /\ UNCHANGED <<pending, running, released, owed, sweep>>
  BY QueueFields DEF IInv, QueueInv, Sound, Queue, Lapse
<1>2. PICK D \in SUBSET Clients : focus \in [D -> Reports]
  BY <1>1 DEF Focuses
<1>3. /\ focus' \in [D -> Reports]
      /\ \A d \in D : focus'[d].selected = focus[d].selected
      /\ \A d \in D : focus'[d].visible = focus[d].visible
  BY <1>1, <1>2 DEF Reports
<1>4. focus' \in Focuses /\ DOMAIN focus' = DOMAIN focus /\ DOMAIN focus = D
  BY <1>2, <1>3 DEF Focuses
<1>5. \A t : FocusPriority(focus', t) = FocusPriority(focus, t)
  BY <1>3, <1>4 DEF FocusPriority
<1>6. /\ Queue' \in Queues /\ Queue'.pending = Queue.pending /\ Queue'.running = Queue.running
      /\ Queue'.owed = Queue.owed /\ Queue'.released = Queue.released /\ Queue'.focus = focus'
  BY <1>1, <1>4 DEF Queues, Queue
<1>7. Sound(Queue') /\ Answered(Queue') /\ ~Dispatchable(Queue')
  <2> DEFINE q == Queue
             r == Queue'
  <2>1. Sound(q) /\ Answered(q) /\ ~Dispatchable(q) /\ q.focus = focus
    BY <1>1 DEF IInv, QueueInv
  <2>2. /\ r \in Queues /\ r.pending = q.pending /\ r.running = q.running
        /\ r.owed = q.owed /\ r.released = q.released /\ r.focus = focus'
    BY <1>6
  <2> HIDE DEF q, r
  <2>3. \A j : WellPlaced(r.focus, j) = WellPlaced(q.focus, j)
    BY <1>5, <2>1, <2>2 DEF WellPlaced, Placed
  <2>4. Sound(r)
    BY <2>1, <2>2, <2>3 DEF Sound
  <2>5. Answered(r) /\ ~Dispatchable(r)
    BY <2>1, <2>2 DEF Answered, Kept, Dispatchable
  <2> QED
    BY <2>4, <2>5 DEF r
<1>8. SweepInv'
  BY <1>1 DEF IInv, SweepInv
<1> QED
  BY <1>7, <1>8 DEF IInv, QueueInv

LEMMA ExpireFocusPreserves ==
    ASSUME IInv, ExpireFocus
    PROVE  IInv'
<1> DEFINE w == [Queue EXCEPT !.focus = Prune(focus)]
           q == Reprioritize(w)
<1>1. Queue \in Queues /\ focus \in Focuses /\ Queue.focus = focus
  BY QueueFields DEF IInv, QueueInv, Sound, Queue
<1>2. Becomes(q)
  BY <1>1 DEF ExpireFocus, Refresh
<1>3. Prune(focus) \in Focuses
  BY <1>1, PrunedFocus
<1>4. /\ w \in Queues /\ w.pending = Queue.pending /\ w.running = Queue.running
      /\ w.owed = Queue.owed /\ w.released = Queue.released
  BY <1>1, <1>3 DEF Queues
<1> HIDE DEF w
<1>5. Aged(w) /\ KeepsOf(Queue, w)
  BY <1>4 DEF Aged, KeepsOf, Kept, IInv, QueueInv, Sound, WellPlaced
<1>6. Sound(q) /\ ~Dispatchable(q) /\ KeepsOf(Queue, q)
  BY <1>5, ReprioritizeSound, KeepsOn
<1> HIDE DEF q
<1>7. Answered(q) /\ q.released = released
  BY <1>6 DEF IInv, QueueInv, Answered, KeepsOf, Queue
<1>8. QueueInv' /\ released' = released
  BY <1>2, <1>6, <1>7, QueueBecomes
<1>9. SweepInv'
  BY <1>8 DEF IInv, SweepInv, SweepGoesOn, ExpireFocus
<1> QED
  BY <1>8, <1>9 DEF IInv

\* Arming the sweep's timer changes nothing else of the sweep.
LEMMA ArmedSweep ==
    ASSUME NEW s \in Sweeps, NEW rel \in BOOLEAN
    PROVE  /\ Arm(s, rel) \in Sweeps /\ Arm(s, rel).ids = s.ids
           /\ Arm(s, rel).current = s.current
           /\ SweepGoesOn(Arm(s, rel), rel)
<1> DEFINE on == (s.armed \/ (rel /\ s.current = NoTask /\ s.ids # <<>>))
<1>1. on \in BOOLEAN
  OBVIOUS
<1>2. Arm(s, rel) = [s EXCEPT !.armed = on]
  BY DEF Arm
<1>3. (rel /\ s.ids # <<>>) => (on \/ s.current # NoTask)
  OBVIOUS
<1> HIDE DEF on
<1>4. /\ Arm(s, rel) \in Sweeps /\ Arm(s, rel).ids = s.ids /\ Arm(s, rel).armed = on
      /\ Arm(s, rel).current = s.current
  BY <1>1, <1>2 DEF Sweeps
<1> QED
  BY <1>3, <1>4 DEF SweepGoesOn

LEMMA ReleasePreserves ==
    ASSUME IInv, Release
    PROVE  IInv'
<1> DEFINE w == [Queue EXCEPT !.released = TRUE]
           q == Dispatch(w)
<1>1. Queue \in Queues
  BY DEF IInv, QueueInv, Sound
<1>2. /\ w \in Queues /\ w.pending = Queue.pending /\ w.running = Queue.running
      /\ w.owed = Queue.owed /\ w.focus = Queue.focus /\ w.released = TRUE
  BY <1>1 DEF Queues
<1> HIDE DEF w
<1>3. Sound(w) /\ Answered(w)
  BY <1>2 DEF IInv, QueueInv, Sound, Answered, Kept
<1>4. Sound(q) /\ ~Dispatchable(q) /\ Answered(q)
  BY <1>3, DispatchSound DEF KeepsOf, Answered
<1>5. q.released = TRUE
  BY <1>2, <1>3, DispatchSound DEF KeepsOf
<1>6. Becomes(q)
  BY DEF Release, w
<1> HIDE DEF q
<1>7. QueueInv' /\ released' = TRUE
  BY <1>4, <1>5, <1>6, QueueBecomes
<1>8. SweepInv'
  BY <1>7, ArmedSweep DEF Release, IInv, SweepInv
<1> QED
  BY <1>7, <1>8 DEF IInv

\* A finite set can be listed.
LEMMA Listed ==
    ASSUME NEW S, IsFiniteSet(S)
    PROVE  SetToSeq(S) \in Seq(S)
<1> DEFINE n == Cardinality(S)
<1>1. n \in Nat /\ ExistsBijection(1 .. n, S)
  BY FS_CardinalityType
<1>2. PICK f : f \in Bijection(1 .. n, S)
  BY <1>1 DEF ExistsBijection
<1>3. f \in [1 .. n -> S] /\ IsInjective(f)
  BY <1>2 DEF Bijection, Injection, IsInjective
<1>4. SetToSeq(S) \in [1 .. n -> S]
  BY <1>3 DEF SetToSeq
<1> QED
  BY <1>1, <1>4, SeqDef

LEMMA SchedulePreserves ==
    ASSUME IInv, NEW ids \in Seq(Tasks), ScheduleReconciliation(ids)
    PROVE  IInv'
<1> DEFINE all == sweep.ids \o ids
           s == [sweep EXCEPT !.ids = all]
<1>1. sweep \in Sweeps /\ released \in BOOLEAN
  BY DEF IInv, SweepInv, QueueInv, Sound, Queues, Queue
<1>2. sweep.ids \in Seq(Tasks)
  BY <1>1 DEF Sweeps
<1>3. all \in Seq(Tasks)
  BY <1>2, ConcatProperties
<1>4. sweep' = Arm(s, released) /\ UNCHANGED <<pending, running, focus, released, owed>>
  BY DEF ScheduleReconciliation
<1> HIDE DEF all
<1>5. s \in Sweeps
  BY <1>1, <1>3 DEF Sweeps
<1> HIDE DEF s
<1>6. sweep' \in Sweeps /\ SweepGoesOn(sweep', released)
  BY <1>1, <1>4, <1>5, ArmedSweep
<1> QED
  BY <1>4, <1>6, QueueStays DEF IInv, SweepInv

LEMMA CancelPreserves ==
    ASSUME IInv, CancelReconciliation
    PROVE  IInv'
<1>1. sweep \in Sweeps /\ <<>> \in Seq(Tasks)
  BY DEF IInv, SweepInv
<1>2. sweep' \in Sweeps /\ sweep'.ids = <<>>
  BY <1>1 DEF CancelReconciliation, Sweeps
<1> QED
  BY <1>2, QueueStays DEF CancelReconciliation, IInv, SweepInv, SweepGoesOn

\* Taking the next task asks for its job.
LEMMA SweepNextPreserves ==
    ASSUME IInv, SweepNext
    PROVE  IInv'
<1>1. sweep \in Sweeps /\ sweep.ids \in Seq(Tasks) /\ NoTask \notin Tasks
  BY QueueAssumption DEF IInv, SweepInv, Sweeps
<1>2. CASE sweep.ids = <<>>
  <2>1. /\ sweep' = [sweep EXCEPT !.armed = FALSE, !.current = NoTask, !.settled = FALSE]
        /\ UNCHANGED <<pending, running, focus, released, owed>>
    BY <1>2 DEF SweepNext
  <2>2. sweep' \in Sweeps /\ sweep'.ids = <<>>
    BY <1>1, <1>2, <2>1 DEF Sweeps
  <2> QED
    BY <2>1, <2>2, QueueStays DEF IInv, SweepInv, SweepGoesOn
<1>3. CASE sweep.ids # <<>>
  <2> DEFINE t == Head(sweep.ids)
             rest == Tail(sweep.ids)
             q == EnqueueWork(Queue, Reconcile(t), t, Background)
  <2>1. t \in Tasks /\ rest \in Seq(Tasks)
    BY <1>1, <1>3, HeadTailProperties
  <2>2. /\ sweep' = [ids |-> rest, armed |-> FALSE, current |-> t, settled |-> FALSE]
        /\ Becomes(q)
    BY <1>3 DEF SweepNext
  <2>3. Reconcile(t) \in JobKeys /\ Background \in Lanes \cup {Follow}
    BY <2>1 DEF JobKeys, Lanes, Interactive, Background
  <2>4. QueueInv'
    <3> HIDE DEF t
    <3> QED
      BY <2>1, <2>2, <2>3, EnqueueWorkSound, QueueBecomes DEF IInv, QueueInv
  <2> HIDE DEF t, rest
  <2>5. sweep' \in Sweeps /\ sweep'.current # NoTask
    BY <1>1, <2>1, <2>2 DEF Sweeps
  <2> QED
    BY <2>4, <2>5 DEF IInv, SweepInv, SweepGoesOn
<1> QED
  BY <1>2, <1>3

LEMMA StutterPreserves ==
    ASSUME IInv, UNCHANGED vars
    PROVE  IInv'
  BY QueueStays DEF IInv, SweepInv, vars

LEMMA StepPreserves == IInv /\ [Next]_vars => IInv'
<1> SUFFICES ASSUME IInv, [Next]_vars PROVE IInv'
  OBVIOUS
<1>1. ASSUME NEW k \in Keys, NEW p \in Explicit \cup {Follow}, NEW t \in KeyTasks[k],
             Enqueue(k, t, p)
      PROVE  IInv'
  BY <1>1, EnqueuePreserves
<1>2. ASSUME NEW k \in JobKeys, Finish(k) \/ Promote(k)
      PROVE  IInv'
  BY <1>2, FinishPreserves, PromotePreserves
<1>3. ASSUME NEW c \in Clients, NEW t \in Selections, NEW v \in Visibles,
             NEW reg \in Tasks \cup {NoTask}, ReportClientTaskFocus(c, t, v, reg)
      PROVE  IInv'
  BY <1>3, ReportPreserves
<1>4. ASSUME NEW c \in Clients, ClearFocus(c) \/ Lapse(c)
      PROVE  IInv'
  BY <1>4, ClearFocusPreserves, LapsePreserves
<1>5. CASE ExpireFocus
  BY <1>5, ExpireFocusPreserves
<1>6. CASE Release
  BY <1>6, ReleasePreserves
<1>7. ASSUME NEW ids \in {SetToSeq(Tasks)}, ScheduleReconciliation(ids)
      PROVE  IInv'
  <2>1. ids \in Seq(Tasks)
    BY Listed, QueueAssumption
  <2> QED
    BY <1>7, <2>1, SchedulePreserves
<1>8. CASE CancelReconciliation
  BY <1>8, CancelPreserves
<1>9. CASE SweepTimer \/ SweepResume
  BY <1>9, SweepNextPreserves DEF SweepTimer, SweepResume
<1>10. CASE UNCHANGED vars
  BY <1>10, StutterPreserves
<1> QED
  BY <1>1, <1>2, <1>3, <1>4, <1>5, <1>6, <1>7, <1>8, <1>9, <1>10 DEF Next

LEMMA QueueInvariant == Spec => []IInv
<1> QED
  BY QueueInitially, StepPreserves, PTL DEF Spec

-----------------------------------------------------------------------------
(* The theorems. *)

\* The queue, what runs, the reports and the sweep always have their types, and
\* never more than Cap jobs run (electron/ipc/backend-work-queue.ts).
THEOREM TypeCorrect == Spec => []TypeOK
<1>1. IInv => TypeOK
  <2> SUFFICES ASSUME IInv PROVE TypeOK
    OBVIOUS
  <2>1. /\ pending \in Seq(Jobs) /\ running \in Seq(Started) /\ focus \in Focuses
        /\ released \in BOOLEAN /\ owed \in SUBSET JobKeys /\ Len(running) <= Cap
    BY DEF IInv, QueueInv, Sound, Queues, Queue
  <2>2. PICK D \in SUBSET Clients : focus \in [D -> Reports]
    BY <2>1 DEF Focuses
  <2>3. DOMAIN focus \subseteq Clients /\ Range(focus) \subseteq Reports
    BY <2>2 DEF Range
  <2> QED
    BY <2>1, <2>3 DEF TypeOK, Started, IInv, SweepInv, Sweeps
<1> QED
  BY <1>1, QueueInvariant, PTL

\* Between two steps no job waits that could run: every call that frees a slot,
\* raises a job, moves lanes or opens the background lane also dispatches, and the
\* loop of dispatchPendingWork goes on until nothing more may start.
THEOREM WorkIsConserved == Spec => []WorkConserving
<1>1. IInv => WorkConserving
  BY DEF IInv, QueueInv, WorkConserving
<1> QED
  BY <1>1, QueueInvariant, PTL

\* A job that follows the focus is where the registered reports put its task, or
\* above that because it has aged out of the background lane or because another
\* task of its worktree asked for it under the same reports
\* (reprioritizePendingJobsForFocus, promoteAgedBackgroundJob, enqueueBackendWork).
THEOREM LanesFollowFocus == Spec => []LaneFollowsFocus
<1>1. IInv => LaneFollowsFocus
  BY DEF IInv, QueueInv, Sound, WellPlaced, LaneFollowsFocus, Queue
<1> QED
  BY <1>1, QueueInvariant, PTL

\* Every job of the background lane has its promotion timer, and tasks left on the
\* list of the sweep have a timer or a sweep under way that will take them
\* (syncPromotionTimer, armBackgroundReconciliationSweep).
THEOREM NothingIsForgotten == Spec => []NothingForgotten
<1>1. IInv => NothingForgotten
  <2> SUFFICES ASSUME IInv PROVE NothingForgotten
    OBVIOUS
  <2>1. \A i \in DOMAIN pending : pending[i].lane = Background => pending[i].aging
    BY DEF IInv, QueueInv, Sound, WellPlaced, Queue
  <2> QED
    BY <2>1 DEF NothingForgotten, IInv, SweepInv, SweepGoesOn
<1> QED
  BY <1>1, QueueInvariant, PTL

\* No request is answered by a run that had begun when it was made: until a run of
\* its key starts, a job of its key waits (enqueueBackendWork).
THEOREM RequestsGetFreshRuns == Spec => []RequestGetsFreshRun
<1>1. IInv => RequestGetsFreshRun
  <2> SUFFICES ASSUME IInv, NEW k \in owed PROVE Waits(k)
    BY DEF RequestGetsFreshRun
  <2>1. k \in JobKeys \cap Queue.owed
    BY DEF IInv, QueueInv, Sound, Queues, Queue
  <2>2. Kept(Queue, JobKeys)
    BY DEF IInv, QueueInv, Answered
  <2>3. PICK i \in DOMAIN Queue.pending : Queue.pending[i].key = k
    BY <2>1, <2>2 DEF Kept
  <2> QED
    BY <2>3 DEF Waits, Queue
<1> QED
  BY <1>1, QueueInvariant, PTL

===============================================================================
