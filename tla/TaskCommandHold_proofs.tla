------------------------ MODULE TaskCommandHold_proofs ------------------------
(***************************************************************************)
(* Proofs about the lease holds of one renderer, for any callers, bounds   *)
(* and disturbances.                                                       *)
(***************************************************************************)
EXTENDS TaskCommandHold, SequenceTheorems, TaskCommandLeaseStore_proofs

Whos == Callers \cup {Acquirer(i) : i \in 1 .. MaxLeases} \cup {Reclaimer(b) : b \in Nat}
        \cup {Remover(i) : i \in 1 .. MaxLeases} \cup {Renewer}

RetainKinds == {"retain", "escalate", "retry"}
LeaveKinds == {"release", "discard"}

Waiter == [who : Whos, kind : RetainKinds \cup LeaveKinds \cup {"remove"}, lease : 1 .. MaxLeases]

Continuation == [who : Whos, kind : RetainKinds \cup LeaveKinds \cup {"remove"},
                 lease : 1 .. MaxLeases, outcome : {"yes", "no", "error"}]

LocalLease == [hold : 0 .. MaxHolds, generation : 0 .. MaxGeneration, removed : BOOLEAN,
               timer : BOOLEAN, suspended : BOOLEAN, acquiring : BOOLEAN, takeover : BOOLEAN,
               waiters : Seq(Waiter), leavers : Seq(Waiter)]

Caller == [at : Ats, lease : 0 .. MaxLeases, mode : Modes]

Renderer == [leases : [1 .. MaxLeases -> LocalLease], current : 0 .. MaxLeases,
             orphans : BOOLEAN, callers : [Callers -> Caller], micro : Seq(Continuation),
             view : Clients \cup {None}, seen : Nat \cup {-1}, subscribed : BOOLEAN,
             available : BOOLEAN, deadline : BOOLEAN, blips : Nat]

Awaited == [op : {"acquire", "renew", "release"}, takeover : BOOLEAN, mode : Modes,
            lease : 0 .. MaxLeases, generation : 0 .. MaxGeneration, blips : Nat,
            stage : {"sent", "lost", "asking", "approved", "confirming"}]

Posting == [who : Whos, op : {"acquire", "renew", "release"}, takeover : BOOLEAN,
            generation : Nat \cup {None}]

Tables == UNION {[W -> Awaited] : W \in SUBSET Whos}

Requests == [wait : Tables, line : Seq(Posting)]

Received == [kind : {"answer", "snapshot", "approved"}, who : Whos \cup {None}, won : BOOLEAN,
             generation : 0 .. MaxGeneration, snapshot : ControllerSnapshot]

\* Who is in a sequence, once each.
Names(s) == {e.who : e \in Range(s)}

Once(s) == \A m, n \in 1 .. Len(s) : s[m].who = s[n].who => m = n

Answers(fr) == {f \in Range(fr) : f.kind = "answer"}

Answering(fr) == {f.who : f \in Answers(fr)}

AnsweredOnce(fr) ==
    \A m, n \in 1 .. Len(fr) :
        fr[m].kind = "answer" /\ fr[n].kind = "answer" /\ fr[m].who = fr[n].who => m = n

\* What the renderer is doing for whom it awaits request r.
Awaits(u, w, r) ==
    /\ w \in Callers =>
          /\ u.callers[w].lease = r.lease
          /\ \/ r.op = "acquire" /\ u.callers[w].at \in {"refreshing", "confirming"}
             \/ r.op = "release" /\ u.callers[w].at = "releasing"
    /\ \A i \in 1 .. MaxLeases : w = Acquirer(i) =>
          r.op = "acquire" /\ r.lease = i /\ u.leases[i].acquiring
    /\ \A b \in Nat : w = Reclaimer(b) =>
          r.op = "acquire" /\ r.mode = "skip" /\ r.lease # 0 /\ b <= u.blips
    /\ \A i \in 1 .. MaxLeases : w = Remover(i) =>
          r.op = "release" /\ r.lease = i /\ u.leases[i].removed
    /\ w = Renewer => r.op = "renew"
    /\ r.stage \notin {"sent", "lost"} => r.op = "acquire" /\ r.mode # "skip"

\* What an entry among those who wait for an acquire, or have waited, stands for.
Stands(u, q, e) ==
    /\ e.kind \in RetainKinds =>
          e.who \in Callers /\ u.callers[e.who].at = "waiting" /\ u.callers[e.who].lease = e.lease
    /\ e.kind \in LeaveKinds =>
          e.who \in Callers /\ u.callers[e.who].at = "draining" /\ u.callers[e.who].lease = e.lease
    /\ e.kind = "remove" =>
          e.who = Remover(e.lease) /\ u.leases[e.lease].removed /\ e.who \notin DOMAIN q.wait

\* Those who wait for the acquire of local lease i.
Gathered(u, q, i) ==
    /\ u.leases[i].acquiring => Acquirer(i) \in DOMAIN q.wait
    /\ u.leases[i].waiters # <<>> \/ u.leases[i].leavers # <<>> => u.leases[i].acquiring
    /\ \A e \in Range(u.leases[i].waiters) : e.kind \in RetainKinds /\ e.lease = i /\ Stands(u, q, e)
    /\ \A e \in Range(u.leases[i].leavers) : e.kind \notin RetainKinds /\ e.lease = i /\ Stands(u, q, e)
    /\ Once(u.leases[i].waiters) /\ Once(u.leases[i].leavers)
    /\ Names(u.leases[i].waiters) \cap Names(u.micro) = {}
    /\ Names(u.leases[i].leavers) \cap Names(u.micro) = {}

Lined(u, q) ==
    /\ \A w \in DOMAIN q.wait : Awaits(u, w, q.wait[w])
    /\ \A i \in 1 .. MaxLeases : Gathered(u, q, i)
    /\ \A e \in Range(u.micro) : Stands(u, q, e)
    /\ Once(u.micro)

\* Every request on its way, there or back, is awaited, and is one.
Posted(q, fr) ==
    /\ Once(q.line) /\ AnsweredOnce(fr)
    /\ Names(q.line) \cap Answering(fr) = {}
    /\ \A m \in Range(q.line) :
          m.who \in DOMAIN q.wait /\ q.wait[m.who].stage = "sent" /\ q.wait[m.who].op = m.op
    /\ \A w \in Answering(fr) : w \in DOMAIN q.wait /\ q.wait[w].stage = "sent"

\* A caller refers to a local lease unless it is at rest.
Refers(u) ==
    \A c \in Callers : (u.callers[c].lease = 0) = (u.callers[c].at \in {"idle", "open"})

\* Who is not subscribed has neither lease nor session.
Heeds(u) == ~u.subscribed => u.current = 0 /\ \A s \in Sessions : u.callers[s] = Closed

Sound(u, q, fr) ==
    /\ u \in Renderer /\ q \in Requests /\ fr \in Seq(Received)
    /\ Refers(u) /\ Heeds(u) /\ Lined(u, q) /\ Posted(q, fr)

\* Nobody awaits w, or waits under its name for an acquire.
Listed(u, w) ==
    \/ w \in Names(u.micro)
    \/ \E i \in 1 .. MaxLeases :
          w \in Names(u.leases[i].waiters) \/ w \in Names(u.leases[i].leavers)

Free(u, q, w) == w \notin DOMAIN q.wait /\ ~Listed(u, w)

\* Request w is on no way.
Unposted(q, fr, w) == w \notin Names(q.line) /\ w \notin Answering(fr)

-----------------------------------------------------------------------------
(* Sequences of named things. *)

LEMMA NamesAppend ==
    ASSUME NEW T, NEW s \in Seq(T), NEW e \in T
    PROVE  /\ Append(s, e) \in Seq(T) /\ Append(s, e) # <<>>
           /\ Range(Append(s, e)) = Range(s) \cup {e}
           /\ Names(Append(s, e)) = Names(s) \cup {e.who}
           /\ Once(s) /\ e.who \notin Names(s) => Once(Append(s, e))
<1>1. /\ Append(s, e) \in Seq(T) /\ Len(s) \in Nat /\ Len(Append(s, e)) = Len(s) + 1
      /\ \A n \in 1 .. Len(s) : Append(s, e)[n] = s[n]
      /\ Append(s, e)[Len(s) + 1] = e
  OBVIOUS
<1>2. DOMAIN s = 1 .. Len(s) /\ DOMAIN Append(s, e) = 1 .. Len(s) + 1
  BY <1>1
<1>3. Range(Append(s, e)) = Range(s) \cup {e}
  BY <1>1, <1>2 DEF Range
<1>4. Append(s, e) # <<>>
  BY <1>1
<1>5. \A n \in 1 .. Len(s) : s[n].who \in Names(s)
  BY <1>2 DEF Names, Range
<1>6. Once(s) /\ e.who \notin Names(s) => Once(Append(s, e))
  <2> SUFFICES ASSUME Once(s), e.who \notin Names(s), NEW m \in 1 .. Len(s) + 1,
                      NEW n \in 1 .. Len(s) + 1, Append(s, e)[m].who = Append(s, e)[n].who
               PROVE  m = n
    BY <1>1 DEF Once
  <2>1. CASE m = Len(s) + 1 /\ n = Len(s) + 1
    BY <2>1
  <2>2. CASE m # Len(s) + 1 /\ n = Len(s) + 1
    BY <2>2, <1>1, <1>5
  <2>3. CASE m = Len(s) + 1 /\ n # Len(s) + 1
    BY <2>3, <1>1, <1>5
  <2>4. CASE m # Len(s) + 1 /\ n # Len(s) + 1
    BY <2>4, <1>1 DEF Once
  <2> QED
    BY <2>1, <2>2, <2>3, <2>4
<1> QED
  BY <1>1, <1>3, <1>4, <1>6 DEF Names

LEMMA NamesTail ==
    ASSUME NEW T, NEW s \in Seq(T), s # <<>>
    PROVE  /\ Tail(s) \in Seq(T) /\ Head(s) \in T /\ Head(s) \in Range(s)
           /\ Range(Tail(s)) \subseteq Range(s)
           /\ Names(Tail(s)) \subseteq Names(s)
           /\ Once(s) => Once(Tail(s)) /\ Head(s).who \notin Names(Tail(s))
<1>1. /\ Tail(s) \in Seq(T) /\ Len(s) \in Nat \ {0} /\ Len(Tail(s)) = Len(s) - 1
      /\ \A n \in 1 .. Len(s) - 1 : Tail(s)[n] = s[n + 1]
      /\ Head(s) = s[1] /\ Head(s) \in T
  BY EmptySeq
<1>2. DOMAIN s = 1 .. Len(s) /\ DOMAIN Tail(s) = 1 .. Len(s) - 1
  BY <1>1
<1>3. \A n \in 1 .. Len(s) - 1 : n + 1 \in 1 .. Len(s)
  BY <1>1
<1>4. Range(Tail(s)) \subseteq Range(s)
  BY <1>1, <1>2, <1>3 DEF Range
<1>5. Head(s) \in Range(s)
  BY <1>1, <1>2 DEF Range
<1>6. ASSUME Once(s) PROVE Once(Tail(s)) /\ Head(s).who \notin Names(Tail(s))
  <2>1. Once(Tail(s))
    <3> SUFFICES ASSUME NEW m \in 1 .. Len(s) - 1, NEW n \in 1 .. Len(s) - 1,
                        Tail(s)[m].who = Tail(s)[n].who
                 PROVE  m = n
      BY <1>1 DEF Once
    <3>1. m + 1 = n + 1
      BY <1>1, <1>3, <1>6 DEF Once
    <3> QED
      BY <3>1
  <2>2. ASSUME NEW n \in 1 .. Len(s) - 1 PROVE Head(s).who # Tail(s)[n].who
    <3>1. n + 1 # 1 /\ n + 1 \in 1 .. Len(s) /\ 1 \in 1 .. Len(s)
      BY <1>1
    <3> QED
      BY <3>1, <1>1, <1>6 DEF Once
  <2> QED
    BY <2>1, <2>2, <1>2 DEF Names, Range
<1> QED
  BY <1>1, <1>4, <1>5, <1>6 DEF Names

LEMMA NamesJoined ==
    ASSUME NEW T, NEW s \in Seq(T), NEW t \in Seq(T)
    PROVE  /\ s \o t \in Seq(T)
           /\ Range(s \o t) = Range(s) \cup Range(t)
           /\ Names(s \o t) = Names(s) \cup Names(t)
           /\ Once(s) /\ Once(t) /\ Names(s) \cap Names(t) = {} => Once(s \o t)
<1>1. /\ s \o t \in Seq(T) /\ Len(s) \in Nat /\ Len(t) \in Nat /\ Len(s \o t) = Len(s) + Len(t)
      /\ \A n \in 1 .. Len(s) + Len(t) : (s \o t)[n] = IF n <= Len(s) THEN s[n] ELSE t[n - Len(s)]
  BY ConcatProperties
<1>2. DOMAIN s = 1 .. Len(s) /\ DOMAIN t = 1 .. Len(t) /\ DOMAIN (s \o t) = 1 .. Len(s) + Len(t)
  BY <1>1
<1>3. Range(s \o t) = Range(s) \cup Range(t)
  <2>1. \A n \in 1 .. Len(s) : n \in 1 .. Len(s) + Len(t) /\ (s \o t)[n] = s[n]
    BY <1>1
  <2>2. \A n \in 1 .. Len(t) : Len(s) + n \in 1 .. Len(s) + Len(t) /\ (s \o t)[Len(s) + n] = t[n]
    BY <1>1
  <2>3. \A n \in 1 .. Len(s) + Len(t) :
            \/ n \in 1 .. Len(s) /\ (s \o t)[n] = s[n]
            \/ n - Len(s) \in 1 .. Len(t) /\ (s \o t)[n] = t[n - Len(s)]
    BY <1>1
  <2>4. \A x \in Range(s \o t) : x \in Range(s) \/ x \in Range(t)
    BY <2>3, <1>2 DEF Range
  <2>5. \A x \in Range(s) : x \in Range(s \o t)
    BY <2>1, <1>2 DEF Range
  <2>6. \A x \in Range(t) : x \in Range(s \o t)
    BY <2>2, <1>2 DEF Range
  <2> QED
    BY <2>4, <2>5, <2>6
<1>4. /\ \A n \in 1 .. Len(s) : s[n].who \in Names(s)
      /\ \A n \in 1 .. Len(t) : t[n].who \in Names(t)
  BY <1>2 DEF Names, Range
<1>5. Once(s) /\ Once(t) /\ Names(s) \cap Names(t) = {} => Once(s \o t)
  <2> SUFFICES ASSUME Once(s), Once(t), Names(s) \cap Names(t) = {},
                      NEW m \in 1 .. Len(s) + Len(t), NEW n \in 1 .. Len(s) + Len(t),
                      (s \o t)[m].who = (s \o t)[n].who
               PROVE  m = n
    BY <1>1 DEF Once
  <2>1. CASE m <= Len(s) /\ n <= Len(s)
    BY <2>1, <1>1 DEF Once
  <2>2. CASE m <= Len(s) /\ ~(n <= Len(s))
    <3>1. m \in 1 .. Len(s) /\ n - Len(s) \in 1 .. Len(t)
      BY <2>2, <1>1
    <3> QED
      BY <3>1, <2>2, <1>1, <1>4
  <2>3. CASE ~(m <= Len(s)) /\ n <= Len(s)
    <3>1. n \in 1 .. Len(s) /\ m - Len(s) \in 1 .. Len(t)
      BY <2>3, <1>1
    <3> QED
      BY <3>1, <2>3, <1>1, <1>4
  <2>4. CASE ~(m <= Len(s)) /\ ~(n <= Len(s))
    <3>1. n - Len(s) \in 1 .. Len(t) /\ m - Len(s) \in 1 .. Len(t)
      BY <2>4, <1>1
    <3>2. n - Len(s) = m - Len(s)
      BY <3>1, <2>4, <1>1 DEF Once
    <3> QED
      BY <3>2, <1>1
  <2> QED
    BY <2>1, <2>2, <2>3, <2>4
<1> QED
  BY <1>1, <1>3, <1>5 DEF Names

-----------------------------------------------------------------------------
(* What the steps of the renderer do to those who wait. *)

\* What Lined looks at in local lease i.
Like(u, v, i) ==
    /\ u.leases[i].removed => v.leases[i].removed
    /\ v.leases[i].acquiring = u.leases[i].acquiring
    /\ v.leases[i].waiters = u.leases[i].waiters /\ v.leases[i].leavers = u.leases[i].leavers

\* Who is awaited, and who waits for what, are named and typed.
LEMMA Parts ==
    ASSUME NEW u \in Renderer
    PROVE  /\ u.micro \in Seq(Continuation)
           /\ \A e \in Range(u.micro) : e \in Continuation /\ e.lease \in 1 .. MaxLeases /\ e.who \in Whos
           /\ \A i \in 1 .. MaxLeases :
                 /\ u.leases[i] \in LocalLease
                 /\ u.leases[i].waiters \in Seq(Waiter) /\ u.leases[i].leavers \in Seq(Waiter)
                 /\ \A e \in Range(u.leases[i].waiters) \cup Range(u.leases[i].leavers) :
                       e \in Waiter /\ e.lease \in 1 .. MaxLeases /\ e.who \in Whos
<1>1. \A T : \A s \in Seq(T) : \A e \in Range(s) : e \in T
  BY DEF Range
<1>2. u.micro \in Seq(Continuation)
  BY DEF Renderer
<1>3. \A e \in Range(u.micro) : e \in Continuation
  BY <1>1, <1>2
<1>4. \A i \in 1 .. MaxLeases : u.leases[i] \in LocalLease
  BY DEF Renderer
<1>5. \A i \in 1 .. MaxLeases :
         u.leases[i].waiters \in Seq(Waiter) /\ u.leases[i].leavers \in Seq(Waiter)
  BY <1>4 DEF LocalLease
<1>6. \A i \in 1 .. MaxLeases : \A e \in Range(u.leases[i].waiters) \cup Range(u.leases[i].leavers) :
         e \in Waiter
  BY <1>1, <1>5
<1> QED
  BY <1>2, <1>3, <1>4, <1>5, <1>6 DEF Continuation, Waiter

\* A step that lets callers act for whom nobody waits.
LEMMA Moves ==
    ASSUME NEW u, NEW q, NEW fr, Sound(u, q, fr), NEW v \in Renderer, NEW S \in SUBSET Callers,
           \A c \in S : Free(u, q, c),
           v.micro = u.micro, v.blips = u.blips,
           \A c \in Callers \ S : v.callers[c] = u.callers[c],
           \A i \in 1 .. MaxLeases : Like(u, v, i),
           Refers(v), Heeds(v)
    PROVE  Sound(v, q, fr) /\ \A w : Free(u, q, w) => Free(v, q, w)
<1>1. /\ Lined(u, q) /\ Posted(q, fr) /\ q \in Requests /\ fr \in Seq(Received) /\ u \in Renderer
  BY DEF Sound
<1>2. ASSUME NEW w \in DOMAIN q.wait PROVE Awaits(v, w, q.wait[w])
  <2>1. Awaits(u, w, q.wait[w])
    BY <1>1 DEF Lined
  <2>2. w \in Callers => w \notin S
    BY DEF Free
  <2> QED
    BY <2>1, <2>2 DEF Awaits, Like
<1>3. ASSUME NEW e, Listed(u, e.who), Stands(u, q, e), e.lease \in 1 .. MaxLeases
      PROVE  Stands(v, q, e)
  <2>1. e.who \notin S
    BY <1>3 DEF Free
  <2> QED
    BY <2>1, <1>3 DEF Stands, Like
<1>4. ASSUME NEW e \in Range(u.micro) PROVE Stands(v, q, e)
  <2>1. Listed(u, e.who) /\ Stands(u, q, e)
    BY <1>1 DEF Listed, Names, Lined
  <2> QED
    BY <2>1, <1>3, <1>1, Parts
<1>5. ASSUME NEW i \in 1 .. MaxLeases PROVE Gathered(v, q, i)
  <2>1. Gathered(u, q, i)
    BY <1>1 DEF Lined
  <2>2. ASSUME NEW e \in Range(u.leases[i].waiters) \cup Range(u.leases[i].leavers)
        PROVE  Stands(v, q, e)
    <3>1. Listed(u, e.who) /\ Stands(u, q, e)
      BY <2>1 DEF Listed, Names, Gathered
    <3> QED
      BY <3>1, <1>3, <1>1, Parts
  <2> QED
    BY <2>1, <2>2 DEF Gathered, Like
<1>6. Lined(v, q)
  BY <1>1, <1>2, <1>4, <1>5 DEF Lined
<1>7. \A w : Listed(v, w) = Listed(u, w)
  BY DEF Listed, Like
<1> QED
  BY <1>1, <1>6, <1>7 DEF Sound, Free

\* A request that is sent, or forgotten, in the table of those awaited.
LEMMA TableTyping ==
    ASSUME NEW q \in Requests
    PROVE  /\ DOMAIN q.wait \subseteq Whos /\ q.line \in Seq(Posting)
           /\ \A w \in DOMAIN q.wait : q.wait[w] \in Awaited
  BY DEF Requests, Tables

LEMMA AwaitIs ==
    ASSUME NEW q \in Requests, NEW w \in Whos, NEW r \in Awaited
    PROVE  /\ Await(q, w, r) \in Requests
           /\ Await(q, w, r).line = q.line
           /\ DOMAIN Await(q, w, r).wait = DOMAIN q.wait \cup {w}
           /\ Await(q, w, r).wait[w] = r
           /\ \A x \in DOMAIN q.wait \ {w} : Await(q, w, r).wait[x] = q.wait[x]
<1> DEFINE V == DOMAIN q.wait \cup {w}
           W == [x \in V |-> IF x = w THEN r ELSE q.wait[x]]
<1>1. Await(q, w, r) = [q EXCEPT !.wait = W]
  BY DEF Await
<1>2. W \in Tables
  <2>1. V \in SUBSET Whos /\ W \in [V -> Awaited]
    BY TableTyping
  <2> HIDE DEF V, W
  <2> QED
    BY <2>1 DEF Tables
<1> HIDE DEF W
<1>3. Await(q, w, r) \in Requests /\ Await(q, w, r).wait = W /\ Await(q, w, r).line = q.line
  BY <1>1, <1>2 DEF Requests
<1> QED
  BY <1>3 DEF W

LEMMA SendIs ==
    ASSUME NEW q \in Requests, NEW w \in Whos, NEW r \in Awaited
    PROVE  /\ Message(w, r) \in Posting
           /\ Message(w, r).who = w /\ Message(w, r).op = r.op
           /\ Send(q, w, r) \in Requests
           /\ Send(q, w, r).line = Append(q.line, Message(w, r))
           /\ DOMAIN Send(q, w, r).wait = DOMAIN q.wait \cup {w}
           /\ Send(q, w, r).wait[w] = r
           /\ \A x \in DOMAIN q.wait \ {w} : Send(q, w, r).wait[x] = q.wait[x]
<1>1. Message(w, r) \in Posting /\ Message(w, r).who = w /\ Message(w, r).op = r.op
  BY HoldAssumption DEF Message, Posting, Awaited
<1> DEFINE a == Await(q, w, r)
           L == Append(q.line, Message(w, r))
<1>2. a \in Requests /\ a.line = q.line
  BY AwaitIs
<1>3. L \in Seq(Posting)
  BY <1>1, TableTyping, NamesAppend
<1>4. Send(q, w, r) = [a EXCEPT !.line = L]
  BY <1>2 DEF Send
<1> HIDE DEF a, L
<1>5. /\ [a EXCEPT !.line = L] \in Requests
      /\ [a EXCEPT !.line = L].line = L /\ [a EXCEPT !.line = L].wait = a.wait
  BY <1>2, <1>3 DEF Requests
<1> QED
  BY <1>1, <1>4, <1>5, AwaitIs DEF a, L

LEMMA ForgetIs ==
    ASSUME NEW q \in Requests, NEW w
    PROVE  /\ Forget(q, w) \in Requests
           /\ Forget(q, w).line = q.line
           /\ DOMAIN Forget(q, w).wait = DOMAIN q.wait \ {w}
           /\ \A x \in DOMAIN q.wait \ {w} : Forget(q, w).wait[x] = q.wait[x]
<1> DEFINE V == DOMAIN q.wait \ {w}
           W == [x \in V |-> q.wait[x]]
<1>1. Forget(q, w) = [q EXCEPT !.wait = W]
  BY DEF Forget
<1>2. W \in Tables
  <2>1. V \in SUBSET Whos /\ W \in [V -> Awaited]
    BY TableTyping
  <2> HIDE DEF V, W
  <2> QED
    BY <2>1 DEF Tables
<1> HIDE DEF W
<1>3. Forget(q, w) \in Requests /\ Forget(q, w).wait = W /\ Forget(q, w).line = q.line
  BY <1>1, <1>2 DEF Requests
<1> QED
  BY <1>3 DEF W

\* A step that sends a request of somebody nobody waits for.
LEMMA Sends ==
    ASSUME NEW u, NEW q, NEW fr, Sound(u, q, fr), NEW v \in Renderer, NEW S \in SUBSET Callers,
           \A c \in S : Free(u, q, c),
           v.micro = u.micro, v.blips = u.blips,
           \A c \in Callers \ S : v.callers[c] = u.callers[c],
           NEW w \in Whos, Free(u, q, w),
           NEW r \in Awaited, r.stage = "sent", Awaits(v, w, r),
           \A i \in 1 .. MaxLeases :
              /\ u.leases[i].removed => v.leases[i].removed
              /\ u.leases[i].acquiring \/ w = Acquirer(i) => v.leases[i].acquiring
              /\ v.leases[i].acquiring => u.leases[i].acquiring \/ w = Acquirer(i)
              /\ v.leases[i].waiters = u.leases[i].waiters /\ v.leases[i].leavers = u.leases[i].leavers,
           Refers(v), Heeds(v)
    PROVE  /\ Sound(v, Send(q, w, r), fr)
           /\ \A x : Free(u, q, x) /\ x # w => Free(v, Send(q, w, r), x)
<1> DEFINE p == Send(q, w, r)
<1>1. /\ Lined(u, q) /\ Posted(q, fr) /\ q \in Requests /\ fr \in Seq(Received) /\ u \in Renderer
  BY DEF Sound
<1>s. /\ Message(w, r) \in Posting /\ Message(w, r).who = w /\ Message(w, r).op = r.op
      /\ p \in Requests /\ p.line = Append(q.line, Message(w, r))
      /\ DOMAIN p.wait = DOMAIN q.wait \cup {w} /\ p.wait[w] = r
      /\ \A x \in DOMAIN q.wait \ {w} : p.wait[x] = q.wait[x]
  BY <1>1, SendIs
<1>f. w \notin DOMAIN q.wait /\ ~Listed(u, w)
  BY DEF Free
<1> HIDE DEF p
<1>2. ASSUME NEW x \in DOMAIN p.wait PROVE Awaits(v, x, p.wait[x])
  <2>1. CASE x = w
    BY <2>1, <1>s
  <2>2. CASE x # w
    <3>1. x \in DOMAIN q.wait /\ p.wait[x] = q.wait[x] /\ Awaits(u, x, q.wait[x])
      BY <2>2, <1>s, <1>1 DEF Lined
    <3>2. x \in Callers => x \notin S
      BY <3>1 DEF Free
    <3> QED
      BY <3>1, <3>2 DEF Awaits
  <2> QED
    BY <2>1, <2>2
<1>3. ASSUME NEW e, Listed(u, e.who), Stands(u, q, e), e.lease \in 1 .. MaxLeases
      PROVE  Stands(v, p, e)
  <2>1. e.who \notin S /\ e.who # w
    BY <1>3, <1>f DEF Free
  <2> QED
    BY <2>1, <1>3, <1>s DEF Stands
<1>4. ASSUME NEW e \in Range(u.micro) PROVE Stands(v, p, e)
  <2>1. Listed(u, e.who) /\ Stands(u, q, e)
    BY <1>1 DEF Listed, Names, Lined
  <2> QED
    BY <2>1, <1>3, <1>1, Parts
<1>5. ASSUME NEW i \in 1 .. MaxLeases PROVE Gathered(v, p, i)
  <2>1. Gathered(u, q, i)
    BY <1>1 DEF Lined
  <2>2. ASSUME NEW e \in Range(u.leases[i].waiters) \cup Range(u.leases[i].leavers)
        PROVE  Stands(v, p, e)
    <3>1. Listed(u, e.who) /\ Stands(u, q, e)
      BY <2>1 DEF Listed, Names, Gathered
    <3> QED
      BY <3>1, <1>3, <1>1, Parts
  <2>3. v.leases[i].acquiring => Acquirer(i) \in DOMAIN p.wait
    BY <2>1, <1>s DEF Gathered
  <2> QED
    BY <2>1, <2>2, <2>3 DEF Gathered
<1>6. Lined(v, p)
  BY <1>1, <1>2, <1>4, <1>5 DEF Lined
<1>7. \A x : Listed(v, x) = Listed(u, x)
  BY DEF Listed
<1>8. Posted(p, fr)
  <2>1. q.line \in Seq(Posting)
    BY <1>1, TableTyping
  <2>2. w \notin Names(q.line) /\ w \notin Answering(fr)
    BY <1>1, <1>f DEF Posted, Names
  <2>3. /\ Range(p.line) = Range(q.line) \cup {Message(w, r)}
        /\ Names(p.line) = Names(q.line) \cup {w}
        /\ Once(p.line)
    BY <2>1, <2>2, <1>s, <1>1, NamesAppend DEF Posted
  <2>4. \A x \in DOMAIN q.wait : x \in DOMAIN p.wait /\ p.wait[x] = q.wait[x]
    BY <1>s, <1>f
  <2> QED
    BY <2>2, <2>3, <2>4, <1>s, <1>1 DEF Posted
<1> QED
  BY <1>1, <1>6, <1>7, <1>8, <1>s DEF Sound, Free, p

\* What two entries that stand can have in common.
LEMMA StandApart ==
    ASSUME NEW u, NEW q, NEW e, NEW d, Stands(u, q, e), Stands(u, q, d), e.who = d.who,
           e.lease \in 1 .. MaxLeases, d.lease \in 1 .. MaxLeases,
           e.kind \in RetainKinds \cup LeaveKinds \cup {"remove"},
           d.kind \in RetainKinds \cup LeaveKinds \cup {"remove"}
    PROVE  e.lease = d.lease /\ (e.kind \in RetainKinds) = (d.kind \in RetainKinds)
<1>1. \A i \in 1 .. MaxLeases : Remover(i) \notin Callers
  BY HoldAssumption DEF Remover
<1>2. \A i, j \in 1 .. MaxLeases : Remover(i) = Remover(j) => i = j
  BY DEF Remover
<1> QED
  BY <1>1, <1>2 DEF Stands, RetainKinds, LeaveKinds

\* Somebody for whom nobody waits joins those who wait for the acquire of local lease i.
LEMMA Joins ==
    ASSUME NEW u, NEW q, NEW fr, Sound(u, q, fr), NEW v \in Renderer, NEW i \in 1 .. MaxLeases,
           NEW e \in Waiter, e.lease = i, Free(u, q, e.who), Stands(v, q, e),
           u.leases[i].acquiring,
           v.micro = u.micro, v.blips = u.blips,
           \A c \in Callers \ {e.who} : v.callers[c] = u.callers[c],
           \A j \in 1 .. MaxLeases :
              /\ u.leases[j].removed => v.leases[j].removed
              /\ v.leases[j].acquiring = u.leases[j].acquiring
              /\ j # i => v.leases[j].waiters = u.leases[j].waiters
                          /\ v.leases[j].leavers = u.leases[j].leavers,
           \/ /\ e.kind \in RetainKinds /\ v.leases[i].waiters = Append(u.leases[i].waiters, e)
              /\ v.leases[i].leavers = u.leases[i].leavers
           \/ /\ e.kind \notin RetainKinds /\ v.leases[i].leavers = Append(u.leases[i].leavers, e)
              /\ v.leases[i].waiters = u.leases[i].waiters,
           Refers(v), Heeds(v)
    PROVE  Sound(v, q, fr) /\ \A x : Free(u, q, x) /\ x # e.who => Free(v, q, x)
<1>1. /\ Lined(u, q) /\ Posted(q, fr) /\ q \in Requests /\ fr \in Seq(Received) /\ u \in Renderer
  BY DEF Sound
<1>f. e.who \notin DOMAIN q.wait /\ ~Listed(u, e.who)
  BY DEF Free
<1>2. ASSUME NEW w \in DOMAIN q.wait PROVE Awaits(v, w, q.wait[w])
  <2>1. Awaits(u, w, q.wait[w]) /\ w # e.who
    BY <1>1, <1>f DEF Lined
  <2> QED
    BY <2>1 DEF Awaits
<1>3. ASSUME NEW d, Listed(u, d.who), Stands(u, q, d), d.lease \in 1 .. MaxLeases
      PROVE  Stands(v, q, d)
  <2>1. d.who # e.who
    BY <1>3, <1>f
  <2> QED
    BY <2>1, <1>3 DEF Stands
<1>4. ASSUME NEW d \in Range(u.micro) PROVE Stands(v, q, d)
  <2>1. Listed(u, d.who) /\ Stands(u, q, d)
    BY <1>1 DEF Listed, Names, Lined
  <2> QED
    BY <2>1, <1>3, <1>1, Parts
<1>5. ASSUME NEW j \in 1 .. MaxLeases PROVE Gathered(v, q, j)
  <2>1. Gathered(u, q, j)
    BY <1>1 DEF Lined
  <2>2. ASSUME NEW d \in Range(u.leases[j].waiters) \cup Range(u.leases[j].leavers)
        PROVE  Stands(v, q, d)
    <3>1. Listed(u, d.who) /\ Stands(u, q, d)
      BY <2>1 DEF Listed, Names, Gathered
    <3> QED
      BY <3>1, <1>3, <1>1, Parts
  <2>3. CASE j # i
    BY <2>1, <2>2, <2>3 DEF Gathered
  <2>4. ASSUME j = i PROVE Gathered(v, q, i)
    <3>0. /\ Once(u.leases[i].waiters) /\ Once(u.leases[i].leavers) /\ Gathered(u, q, i)
          /\ \A d \in Range(u.leases[i].waiters) \cup Range(u.leases[i].leavers) : Stands(v, q, d)
      BY <2>1, <2>2, <2>4 DEF Gathered
    <3>1. /\ u.leases[i].waiters \in Seq(Waiter) /\ u.leases[i].leavers \in Seq(Waiter)
          /\ e.who \notin Names(u.leases[i].waiters) /\ e.who \notin Names(u.leases[i].leavers)
          /\ e.who \notin Names(u.micro)
      BY <1>1, <1>f, Parts DEF Listed
    <3>2. CASE e.kind \in RetainKinds /\ v.leases[i].waiters = Append(u.leases[i].waiters, e)
               /\ v.leases[i].leavers = u.leases[i].leavers
      <4>1. /\ Range(v.leases[i].waiters) = Range(u.leases[i].waiters) \cup {e}
            /\ Names(v.leases[i].waiters) = Names(u.leases[i].waiters) \cup {e.who}
            /\ Once(v.leases[i].waiters)
        BY <3>0, <3>1, <3>2, NamesAppend
      <4> QED
        BY <4>1, <3>0, <3>1, <3>2 DEF Gathered
    <3>3. CASE e.kind \notin RetainKinds /\ v.leases[i].leavers = Append(u.leases[i].leavers, e)
               /\ v.leases[i].waiters = u.leases[i].waiters
      <4>1. /\ Range(v.leases[i].leavers) = Range(u.leases[i].leavers) \cup {e}
            /\ Names(v.leases[i].leavers) = Names(u.leases[i].leavers) \cup {e.who}
            /\ Once(v.leases[i].leavers)
        BY <3>0, <3>1, <3>3, NamesAppend
      <4> QED
        BY <4>1, <3>0, <3>1, <3>3 DEF Gathered
    <3> QED
      BY <3>2, <3>3
  <2> QED
    BY <2>3, <2>4
<1>6. Lined(v, q)
  BY <1>1, <1>2, <1>4, <1>5 DEF Lined
<1>7. ASSUME NEW x, Listed(v, x), x # e.who PROVE Listed(u, x)
  <2>1. CASE x \in Names(v.micro)
    BY <2>1 DEF Listed
  <2>2. CASE \E j \in 1 .. MaxLeases : x \in Names(v.leases[j].waiters) \/ x \in Names(v.leases[j].leavers)
    <3>1. PICK j \in 1 .. MaxLeases : x \in Names(v.leases[j].waiters) \/ x \in Names(v.leases[j].leavers)
      BY <2>2
    <3>a. /\ u.leases[i].waiters \in Seq(Waiter) /\ u.leases[i].leavers \in Seq(Waiter)
      BY <1>1, Parts
    <3>2. /\ Names(Append(u.leases[i].waiters, e)) = Names(u.leases[i].waiters) \cup {e.who}
          /\ Names(Append(u.leases[i].leavers, e)) = Names(u.leases[i].leavers) \cup {e.who}
      BY <3>a, NamesAppend
    <3>3. CASE j # i
      BY <3>1, <3>3 DEF Listed
    <3>4. CASE j = i
      BY <3>1, <3>2, <3>4, <1>7 DEF Listed
    <3> QED
      BY <3>3, <3>4
  <2> QED
    BY <1>7, <2>1, <2>2 DEF Listed
<1> QED
  BY <1>1, <1>6, <1>7 DEF Sound, Free

\* Who is doing something else is not among those who wait.
LEMMA Unlisted ==
    ASSUME NEW u, NEW q, NEW fr, Sound(u, q, fr), NEW c \in Callers
    PROVE  /\ u.callers[c].at \notin {"waiting", "draining"} => ~Listed(u, c)
           /\ u.callers[c].at \notin {"refreshing", "confirming", "releasing"} => c \notin DOMAIN q.wait
<1>1. Lined(u, q) /\ u \in Renderer
  BY DEF Sound
<1>2. \A e : Stands(u, q, e) /\ e.who = c /\ e.lease \in 1 .. MaxLeases
             /\ e.kind \in RetainKinds \cup LeaveKinds \cup {"remove"} =>
                u.callers[c].at \in {"waiting", "draining"}
  <2>1. \A i \in 1 .. MaxLeases : Remover(i) \notin Callers
    BY HoldAssumption DEF Remover
  <2> QED
    BY <2>1 DEF Stands
<1>3. \A e \in Range(u.micro) : Stands(u, q, e)
  BY <1>1 DEF Lined
<1>4. c \in Names(u.micro) => u.callers[c].at \in {"waiting", "draining"}
  BY <1>1, <1>2, <1>3, Parts DEF Names, Continuation
<1>5. ASSUME NEW i \in 1 .. MaxLeases
      PROVE  c \in Names(u.leases[i].waiters) \/ c \in Names(u.leases[i].leavers) =>
                u.callers[c].at \in {"waiting", "draining"}
  <2>1. \A e \in Range(u.leases[i].waiters) \cup Range(u.leases[i].leavers) : Stands(u, q, e)
    BY <1>1 DEF Lined, Gathered
  <2> QED
    BY <1>1, <1>2, <2>1, Parts DEF Names, Waiter
<1>6. c \in DOMAIN q.wait => u.callers[c].at \in {"refreshing", "confirming", "releasing"}
  BY <1>1 DEF Lined, Awaits
<1> QED
  BY <1>4, <1>5, <1>6 DEF Listed

\* A request that came back, or will not, is no longer awaited.
LEMMA Forgets ==
    ASSUME NEW u, NEW q, NEW fr, Sound(u, q, fr), NEW w \in DOMAIN q.wait,
           \A i \in 1 .. MaxLeases : w # Acquirer(i), Unposted(q, fr, w)
    PROVE  /\ Sound(u, Forget(q, w), fr)
           /\ w \in Callers => Free(u, Forget(q, w), w)
           /\ \A x : Free(u, q, x) => Free(u, Forget(q, w), x)
<1> DEFINE p == Forget(q, w)
<1>1. /\ Lined(u, q) /\ Posted(q, fr) /\ q \in Requests /\ fr \in Seq(Received) /\ u \in Renderer
      /\ Refers(u) /\ Heeds(u)
  BY DEF Sound
<1>2. /\ p \in Requests /\ p.line = q.line /\ DOMAIN p.wait = DOMAIN q.wait \ {w}
      /\ \A x \in DOMAIN q.wait \ {w} : p.wait[x] = q.wait[x]
  BY <1>1, ForgetIs
<1> HIDE DEF p
<1>3. \A x \in DOMAIN p.wait : Awaits(u, x, p.wait[x])
  BY <1>1, <1>2 DEF Lined
<1>4. \A e : Stands(u, q, e) => Stands(u, p, e)
  BY <1>2 DEF Stands
<1>5. \A i \in 1 .. MaxLeases : Gathered(u, p, i)
  BY <1>1, <1>2, <1>4 DEF Lined, Gathered
<1>6. Lined(u, p)
  BY <1>1, <1>3, <1>4, <1>5 DEF Lined
<1>7. Posted(p, fr)
  <2>1. \A m \in Range(q.line) : m.who # w
    BY DEF Unposted, Names
  <2>2. \A x \in Answering(fr) : x # w
    BY DEF Unposted
  <2> QED
    BY <1>1, <1>2, <2>1, <2>2 DEF Posted
<1>8. w \in Callers => ~Listed(u, w)
  BY <1>1, Unlisted DEF Lined, Awaits
<1> QED
  BY <1>1, <1>2, <1>6, <1>7, <1>8 DEF Sound, Free, p

\* The first continuation goes: nobody else waits for its caller, or its removal.
LEMMA Pops ==
    ASSUME NEW u, NEW q, NEW fr, Sound(u, q, fr), u.micro # <<>>
    PROVE  LET v == [u EXCEPT !.micro = Tail(@)]
               n == Head(u.micro)
           IN  Sound(v, q, fr) /\ n \in Continuation /\ Stands(v, q, n) /\ Free(v, q, n.who)
<1> DEFINE v == [u EXCEPT !.micro = Tail(u.micro)]
           n == Head(u.micro)
<1>1. /\ Lined(u, q) /\ Posted(q, fr) /\ q \in Requests /\ fr \in Seq(Received) /\ u \in Renderer
      /\ Refers(u) /\ Heeds(u)
  BY DEF Sound
<1>2. /\ u.micro \in Seq(Continuation) /\ Tail(u.micro) \in Seq(Continuation)
      /\ n \in Continuation /\ n \in Range(u.micro)
      /\ Range(Tail(u.micro)) \subseteq Range(u.micro) /\ Names(Tail(u.micro)) \subseteq Names(u.micro)
      /\ Once(Tail(u.micro)) /\ n.who \notin Names(Tail(u.micro))
  <2>1. u.micro \in Seq(Continuation) /\ Once(u.micro)
    BY <1>1 DEF Renderer, Lined
  <2> QED
    BY <2>1, NamesTail
<1>3. /\ v \in Renderer /\ v.micro = Tail(u.micro) /\ v.callers = u.callers /\ v.leases = u.leases
      /\ v.blips = u.blips /\ v.subscribed = u.subscribed /\ v.current = u.current
  BY <1>1, <1>2 DEF Renderer
<1> HIDE DEF v
<1>4. \A x \in DOMAIN q.wait : Awaits(v, x, q.wait[x])
  BY <1>1, <1>3 DEF Lined, Awaits
<1>5. \A e : Stands(u, q, e) => Stands(v, q, e)
  BY <1>3 DEF Stands
<1>6. ASSUME NEW i \in 1 .. MaxLeases PROVE Gathered(v, q, i)
  <2>1. Gathered(u, q, i)
    BY <1>1 DEF Lined
  <2> QED
    BY <2>1, <1>2, <1>3, <1>5 DEF Gathered
<1>7. Lined(v, q)
  BY <1>1, <1>2, <1>3, <1>4, <1>5, <1>6 DEF Lined
<1>8. Stands(u, q, n) /\ n.who \in Names(u.micro)
  BY <1>1, <1>2 DEF Lined, Names
<1>9. n.who \notin DOMAIN q.wait
  <2>1. CASE n.kind = "remove"
    BY <2>1, <1>8 DEF Stands
  <2>2. CASE n.kind # "remove"
    <3>1. n.who \in Callers /\ u.callers[n.who].at \in {"waiting", "draining"}
      BY <2>2, <1>8, <1>2 DEF Stands, Continuation
    <3> QED
      BY <3>1, Unlisted
  <2> QED
    BY <2>1, <2>2
<1>10. ~Listed(v, n.who)
  BY <1>1, <1>2, <1>3, <1>8 DEF Listed, Lined, Gathered
<1> QED
  BY <1>1, <1>2, <1>3, <1>5, <1>7, <1>8, <1>9, <1>10 DEF Sound, Refers, Heeds, Free, v

\* The continuations of a settled acquire are those who waited for it.
LEMMA ContinuationsAre ==
    ASSUME NEW l \in LocalLease, NEW outcome \in {"yes", "no", "error"}
    PROVE  LET s == Continuations(l, outcome)
           IN  /\ s \in Seq(Continuation)
               /\ \A d \in Range(s) : \E e \in Range(l.waiters) \cup Range(l.leavers) :
                     d.who = e.who /\ d.kind = e.kind /\ d.lease = e.lease
               /\ Names(s) \subseteq Names(l.waiters) \cup Names(l.leavers)
               /\ (Once(l.waiters) /\ Once(l.leavers) /\ Names(l.waiters) \cap Names(l.leavers) = {})
                     => Once(s)
<1> DEFINE o == l.waiters \o l.leavers
           s == Continuations(l, outcome)
<1>1. l.waiters \in Seq(Waiter) /\ l.leavers \in Seq(Waiter)
  BY DEF LocalLease
<1>2. /\ o \in Seq(Waiter) /\ Range(o) = Range(l.waiters) \cup Range(l.leavers)
      /\ Once(l.waiters) /\ Once(l.leavers) /\ Names(l.waiters) \cap Names(l.leavers) = {} => Once(o)
  BY <1>1, NamesJoined
<1> HIDE DEF o
<1>3. /\ Len(o) \in Nat /\ DOMAIN o = 1 .. Len(o) /\ \A n \in 1 .. Len(o) : o[n] \in Waiter
  BY <1>2
<1>4. s = [n \in 1 .. Len(o) |-> [who |-> o[n].who, kind |-> o[n].kind,
                                  lease |-> o[n].lease, outcome |-> outcome]]
  BY <1>3 DEF Continuations, o
<1> HIDE DEF s
<1>5. \A n \in 1 .. Len(o) : s[n] \in Continuation /\ s[n].who = o[n].who /\ s[n].kind = o[n].kind
                             /\ s[n].lease = o[n].lease
  BY <1>3, <1>4 DEF Waiter, Continuation
<1>6. DOMAIN s = 1 .. Len(o) /\ s \in [1 .. Len(o) -> Continuation]
  BY <1>4, <1>5
<1>7. s \in Seq(Continuation) /\ Len(s) = Len(o)
  BY <1>3, <1>6
<1>8. \A d \in Range(s) : \E e \in Range(o) : d.who = e.who /\ d.kind = e.kind /\ d.lease = e.lease
  BY <1>3, <1>5, <1>6 DEF Range
<1>9. Once(o) => Once(s)
  BY <1>3, <1>5, <1>7 DEF Once
<1>10. Names(s) \subseteq Names(l.waiters) \cup Names(l.leavers)
  BY <1>2, <1>8 DEF Names
<1> QED
  BY <1>2, <1>7, <1>8, <1>9, <1>10 DEF s, o

\* The acquire of local lease i settles.
LEMMA Settles ==
    ASSUME NEW u, NEW q, NEW fr, Sound(u, q, fr), NEW v \in Renderer, NEW i \in 1 .. MaxLeases,
           NEW outcome \in {"yes", "no", "error"}, Unposted(q, fr, Acquirer(i)),
           v.micro = u.micro \o Continuations(u.leases[i], outcome),
           v.blips = u.blips, v.callers = u.callers,
           \A j \in 1 .. MaxLeases : j # i => Like(u, v, j),
           u.leases[i].removed => v.leases[i].removed,
           ~v.leases[i].acquiring, v.leases[i].waiters = <<>>, v.leases[i].leavers = <<>>,
           Heeds(v)
    PROVE  Sound(v, Forget(q, Acquirer(i)), fr)
<1> DEFINE p == Forget(q, Acquirer(i))
           s == Continuations(u.leases[i], outcome)
<1>1. /\ Lined(u, q) /\ Posted(q, fr) /\ q \in Requests /\ fr \in Seq(Received) /\ u \in Renderer
      /\ Refers(u)
  BY DEF Sound
<1>2. /\ p \in Requests /\ p.line = q.line /\ DOMAIN p.wait = DOMAIN q.wait \ {Acquirer(i)}
      /\ \A x \in DOMAIN q.wait \ {Acquirer(i)} : p.wait[x] = q.wait[x]
  BY <1>1, ForgetIs
<1>3. \A j, k \in 1 .. MaxLeases : Acquirer(j) = Acquirer(k) => j = k
  BY DEF Acquirer
<1>4. Gathered(u, q, i) /\ u.leases[i] \in LocalLease
  BY <1>1, Parts DEF Lined
<1>5. Names(u.leases[i].waiters) \cap Names(u.leases[i].leavers) = {}
  BY <1>1, <1>4, StandApart, Parts DEF Names, Gathered, Waiter
<1>6. /\ s \in Seq(Continuation) /\ Once(s)
      /\ \A d \in Range(s) : \E e \in Range(u.leases[i].waiters) \cup Range(u.leases[i].leavers) :
            d.who = e.who /\ d.kind = e.kind /\ d.lease = e.lease
      /\ Names(s) \subseteq Names(u.leases[i].waiters) \cup Names(u.leases[i].leavers)
  BY <1>4, <1>5, ContinuationsAre DEF Gathered
<1> HIDE DEF p, s
<1>7. /\ Range(v.micro) = Range(u.micro) \cup Range(s)
      /\ Names(v.micro) = Names(u.micro) \cup Names(s)
      /\ Once(v.micro)
  <2>1. u.micro \in Seq(Continuation) /\ Once(u.micro) /\ v.micro = u.micro \o s
    BY <1>1 DEF Renderer, Lined, s
  <2>2. Names(u.micro) \cap Names(s) = {}
    BY <1>4, <1>6 DEF Gathered
  <2> QED
    BY <2>1, <2>2, <1>6, NamesJoined
<1>8. \A x \in DOMAIN p.wait : Awaits(v, x, p.wait[x])
  <2> SUFFICES ASSUME NEW x \in DOMAIN p.wait PROVE Awaits(v, x, p.wait[x])
    OBVIOUS
  <2>1. Awaits(u, x, q.wait[x]) /\ x # Acquirer(i) /\ p.wait[x] = q.wait[x]
    BY <1>1, <1>2 DEF Lined
  <2> QED
    BY <2>1 DEF Awaits, Like
<1>9. \A e : Stands(u, q, e) /\ e.lease \in 1 .. MaxLeases => Stands(v, p, e)
  BY <1>2 DEF Stands, Like
<1>10. \A e \in Range(u.micro) : Stands(v, p, e)
  BY <1>1, <1>9, Parts DEF Lined
<1>11. \A d \in Range(s) : Stands(v, p, d)
  <2> SUFFICES ASSUME NEW d \in Range(s) PROVE Stands(v, p, d)
    OBVIOUS
  <2>1. PICK e \in Range(u.leases[i].waiters) \cup Range(u.leases[i].leavers) :
            d.who = e.who /\ d.kind = e.kind /\ d.lease = e.lease
    BY <1>6
  <2>2. Stands(v, p, e)
    BY <1>1, <1>4, <1>9, Parts DEF Gathered
  <2> QED
    BY <2>1, <2>2 DEF Stands
<1>12. ASSUME NEW j \in 1 .. MaxLeases PROVE Gathered(v, p, j)
  <2>1. CASE j = i
    <3>1. Range(<<>>) = {} /\ Len(<<>>) = 0
      BY DEF Range
    <3>2. Names(<<>>) = {} /\ Once(<<>>)
      BY <3>1 DEF Names, Once
    <3> QED
      BY <2>1, <3>1, <3>2 DEF Gathered
  <2>2. CASE j # i
    <3>1. Gathered(u, q, j)
      BY <1>1 DEF Lined
    <3>2. \A e \in Range(u.leases[j].waiters) \cup Range(u.leases[j].leavers) : Stands(v, p, e)
      BY <1>1, <3>1, <1>9, Parts DEF Gathered
    <3>3. ASSUME NEW e \in Range(u.leases[j].waiters) \cup Range(u.leases[j].leavers),
                 NEW d \in Range(u.leases[i].waiters) \cup Range(u.leases[i].leavers)
          PROVE  e.who # d.who
      <4>1. Stands(u, q, e) /\ e.lease = j /\ e \in Waiter
        BY <1>1, <3>1, Parts DEF Gathered
      <4>2. Stands(u, q, d) /\ d.lease = i /\ d \in Waiter
        BY <1>1, <1>4, Parts DEF Gathered
      <4>3. /\ e.kind \in RetainKinds \cup LeaveKinds \cup {"remove"}
            /\ d.kind \in RetainKinds \cup LeaveKinds \cup {"remove"}
        BY <4>1, <4>2 DEF Waiter
      <4> QED
        BY <4>1, <4>2, <4>3, <2>2, StandApart
    <3>4. /\ Names(u.leases[j].waiters) \cap Names(s) = {}
          /\ Names(u.leases[j].leavers) \cap Names(s) = {}
      BY <3>3, <1>6 DEF Names
    <3> QED
      BY <2>2, <3>1, <3>2, <3>4, <1>2, <1>3, <1>7 DEF Gathered, Like
  <2> QED
    BY <2>1, <2>2
<1>13. Lined(v, p)
  BY <1>7, <1>8, <1>10, <1>11, <1>12 DEF Lined
<1>14. Posted(p, fr)
  <2>1. \A m \in Range(q.line) : m.who # Acquirer(i)
    BY DEF Unposted, Names
  <2>2. \A x \in Answering(fr) : x # Acquirer(i)
    BY DEF Unposted
  <2> QED
    BY <1>1, <1>2, <2>1, <2>2 DEF Posted
<1>15. Refers(v)
  BY <1>1 DEF Refers
<1> QED
  BY <1>1, <1>2, <1>13, <1>14, <1>15 DEF Sound, p

-----------------------------------------------------------------------------
(* What one function of the renderer leads to. *)

\* The beliefs stay, no lease becomes the task's or is suspended, only who believes it
\* has control is admitted, and no request is dropped or re-claims.
Onward(u, q, v, p) ==
    /\ v.view = u.view /\ v.seen = u.seen /\ v.blips = u.blips
    /\ v.current \in {0, u.current}
    /\ \A i \in 1 .. MaxLeases : v.leases[i].suspended => u.leases[i].suspended
    /\ \A s \in Sessions :
          v.callers[s].at = "holding" => u.callers[s].at = "holding" \/ u.view = Self
    /\ \A w \in DOMAIN q.wait : w \in DOMAIN p.wait /\ p.wait[w] = q.wait[w]
    /\ \A b \in Nat : Reclaimer(b) \in DOMAIN p.wait => Reclaimer(b) \in DOMAIN q.wait

LEMMA OnwardAgain ==
    ASSUME NEW u, NEW q, NEW v, NEW p, NEW x, NEW r, Onward(u, q, v, p), Onward(v, p, x, r)
    PROVE  Onward(u, q, x, r)
  BY DEF Onward

\* Only intervals, holds, generations and suspensions differ.
Eased(u, v) ==
    /\ v \in Renderer /\ v.callers = u.callers /\ v.current = u.current /\ v.micro = u.micro
    /\ v.view = u.view /\ v.seen = u.seen /\ v.subscribed = u.subscribed /\ v.blips = u.blips
    /\ \A i \in 1 .. MaxLeases : Like(u, v, i) /\ (v.leases[i].suspended => u.leases[i].suspended)

LEMMA EasedTwice ==
    ASSUME NEW u, NEW v, NEW x, Eased(u, v), Eased(v, x)
    PROVE  Eased(u, x)
  BY DEF Eased, Like

LEMMA EasedLeads ==
    ASSUME NEW u, NEW q, NEW fr, Sound(u, q, fr), NEW v, Eased(u, v)
    PROVE  /\ Sound(v, q, fr) /\ Onward(u, q, v, q)
           /\ \A w : Free(u, q, w) => Free(v, q, w)
<1>1. Refers(v) /\ Heeds(v) /\ v \in Renderer
  BY DEF Sound, Eased, Refers, Heeds
<1>2. Sound(v, q, fr) /\ \A w : Free(u, q, w) => Free(v, q, w)
  <2> DEFINE S == {}
  <2>1. S \in SUBSET Callers /\ \A c \in S : Free(u, q, c)
    OBVIOUS
  <2>2. \A c \in Callers \ S : v.callers[c] = u.callers[c]
    BY DEF Eased
  <2> HIDE DEF S
  <2> QED
    BY <1>1, <2>1, <2>2, Moves DEF Eased
<1>3. Onward(u, q, v, q)
  BY DEF Onward, Eased
<1> QED
  BY <1>2, <1>3

\* One local lease is changed where nobody who waits looks.
LEMMA EasedLease ==
    ASSUME NEW u \in Renderer, NEW i \in 1 .. MaxLeases, NEW l \in LocalLease,
           l.removed = u.leases[i].removed, l.acquiring = u.leases[i].acquiring,
           l.waiters = u.leases[i].waiters, l.leavers = u.leases[i].leavers,
           l.suspended => u.leases[i].suspended
    PROVE  Eased(u, [u EXCEPT !.leases[i] = l])
  BY DEF Eased, Like, Renderer

LEMMA EasedOrphans ==
    ASSUME NEW u, NEW v, Eased(u, v), NEW orphans \in BOOLEAN
    PROVE  Eased(u, [v EXCEPT !.orphans = orphans])
  BY DEF Eased, Like, Renderer

LEMMA LeaseChange ==
    ASSUME NEW l \in LocalLease
    PROVE  /\ [l EXCEPT !.timer = TRUE] \in LocalLease
           /\ [l EXCEPT !.timer = FALSE] \in LocalLease
           /\ [l EXCEPT !.hold = IF l.hold > 0 THEN l.hold - 1 ELSE 0] \in LocalLease
           /\ \A h \in 0 .. MaxHolds : [l EXCEPT !.hold = h] \in LocalLease
           /\ \A g \in 0 .. MaxGeneration : [l EXCEPT !.generation = g] \in LocalLease
           /\ [l EXCEPT !.suspended = FALSE] \in LocalLease
           /\ \A g \in 0 .. MaxGeneration :
                 [l EXCEPT !.suspended = FALSE, !.generation = g] \in LocalLease
<1>1. MaxHolds \in Nat /\ l.hold \in 0 .. MaxHolds
  BY HoldAssumption DEF LocalLease
<1>2. (IF l.hold > 0 THEN l.hold - 1 ELSE 0) \in 0 .. MaxHolds
  BY <1>1
<1>3. /\ [l EXCEPT !.timer = TRUE] \in LocalLease
      /\ [l EXCEPT !.timer = FALSE] \in LocalLease
      /\ [l EXCEPT !.suspended = FALSE] \in LocalLease
  BY DEF LocalLease
<1>4. \A h \in 0 .. MaxHolds : [l EXCEPT !.hold = h] \in LocalLease
  BY DEF LocalLease
<1>5. \A g \in 0 .. MaxGeneration : [l EXCEPT !.generation = g] \in LocalLease
  BY DEF LocalLease
<1>6. \A g \in 0 .. MaxGeneration : [l EXCEPT !.suspended = FALSE, !.generation = g] \in LocalLease
  BY DEF LocalLease
<1> QED
  BY <1>2, <1>3, <1>4, <1>5, <1>6

LEMMA EasedOps ==
    ASSUME NEW u \in Renderer, NEW i \in 1 .. MaxLeases
    PROVE  /\ Eased(u, StartTimer(u, i)) /\ Eased(u, Decrement(u, i))
           /\ \A h \in 0 .. MaxHolds : Eased(u, [u EXCEPT !.leases[i].hold = h])
           /\ \A g \in 0 .. MaxGeneration : Eased(u, [u EXCEPT !.leases[i].generation = g])
           /\ Eased(u, [u EXCEPT !.leases[i].suspended = FALSE])
           /\ \A g \in 0 .. MaxGeneration :
                 Eased(u, [u EXCEPT !.leases[i].suspended = FALSE, !.leases[i].generation = g])
           /\ Eased(u, [u EXCEPT !.leases[i].timer = FALSE])
<1> DEFINE l == u.leases[i]
<1>1. l \in LocalLease /\ u.orphans \in BOOLEAN
  BY DEF Renderer
<1>3. /\ [l EXCEPT !.timer = TRUE] \in LocalLease
      /\ [l EXCEPT !.timer = FALSE] \in LocalLease
      /\ [l EXCEPT !.hold = IF l.hold > 0 THEN l.hold - 1 ELSE 0] \in LocalLease
      /\ \A h \in 0 .. MaxHolds : [l EXCEPT !.hold = h] \in LocalLease
      /\ \A g \in 0 .. MaxGeneration : [l EXCEPT !.generation = g] \in LocalLease
      /\ [l EXCEPT !.suspended = FALSE] \in LocalLease
      /\ \A g \in 0 .. MaxGeneration :
            [l EXCEPT !.suspended = FALSE, !.generation = g] \in LocalLease
  BY <1>1, LeaseChange
<1>4. Eased(u, StartTimer(u, i))
  <2> DEFINE m == [l EXCEPT !.timer = TRUE]
             orphans == u.orphans \/ l.timer
  <2>1. StartTimer(u, i) = [[u EXCEPT !.leases[i] = m] EXCEPT !.orphans = orphans]
    BY DEF StartTimer, Renderer
  <2>2. /\ m.removed = l.removed /\ m.acquiring = l.acquiring /\ m.waiters = l.waiters
        /\ m.leavers = l.leavers /\ (m.suspended => l.suspended) /\ m \in LocalLease
        /\ orphans \in BOOLEAN
    BY <1>1, <1>3 DEF LocalLease
  <2> HIDE DEF m, orphans
  <2>3. Eased(u, [u EXCEPT !.leases[i] = m])
    BY <2>2, EasedLease
  <2>4. Eased(u, [[u EXCEPT !.leases[i] = m] EXCEPT !.orphans = orphans])
    BY <2>2, <2>3, EasedOrphans
  <2> QED
    BY <2>1, <2>4
<1>5. Eased(u, Decrement(u, i))
  <2> DEFINE m == [l EXCEPT !.hold = IF l.hold > 0 THEN l.hold - 1 ELSE 0]
  <2>1. Decrement(u, i) = [u EXCEPT !.leases[i] = m]
    BY DEF Decrement, Renderer
  <2>2. /\ m.removed = l.removed /\ m.acquiring = l.acquiring /\ m.waiters = l.waiters
        /\ m.leavers = l.leavers /\ (m.suspended => l.suspended) /\ m \in LocalLease
    BY <1>1, <1>3 DEF LocalLease
  <2> HIDE DEF m
  <2> QED
    BY <2>1, <2>2, EasedLease
<1>6. ASSUME NEW h \in 0 .. MaxHolds PROVE Eased(u, [u EXCEPT !.leases[i].hold = h])
  <2> DEFINE m == [l EXCEPT !.hold = h]
  <2>1. [u EXCEPT !.leases[i].hold = h] = [u EXCEPT !.leases[i] = m]
    OBVIOUS
  <2>2. /\ m.removed = l.removed /\ m.acquiring = l.acquiring /\ m.waiters = l.waiters
        /\ m.leavers = l.leavers /\ (m.suspended => l.suspended) /\ m \in LocalLease
    BY <1>1, <1>3 DEF LocalLease
  <2> HIDE DEF m
  <2> QED
    BY <2>1, <2>2, EasedLease
<1>7. ASSUME NEW g \in 0 .. MaxGeneration PROVE Eased(u, [u EXCEPT !.leases[i].generation = g])
  <2> DEFINE m == [l EXCEPT !.generation = g]
  <2>1. [u EXCEPT !.leases[i].generation = g] = [u EXCEPT !.leases[i] = m]
    OBVIOUS
  <2>2. /\ m.removed = l.removed /\ m.acquiring = l.acquiring /\ m.waiters = l.waiters
        /\ m.leavers = l.leavers /\ (m.suspended => l.suspended) /\ m \in LocalLease
    BY <1>1, <1>3 DEF LocalLease
  <2> HIDE DEF m
  <2> QED
    BY <2>1, <2>2, EasedLease
<1>8. Eased(u, [u EXCEPT !.leases[i].suspended = FALSE])
  <2> DEFINE m == [l EXCEPT !.suspended = FALSE]
  <2>1. [u EXCEPT !.leases[i].suspended = FALSE] = [u EXCEPT !.leases[i] = m]
    OBVIOUS
  <2>2. /\ m.removed = l.removed /\ m.acquiring = l.acquiring /\ m.waiters = l.waiters
        /\ m.leavers = l.leavers /\ (m.suspended => l.suspended) /\ m \in LocalLease
    BY <1>1, <1>3 DEF LocalLease
  <2> HIDE DEF m
  <2> QED
    BY <2>1, <2>2, EasedLease
<1>9. ASSUME NEW g \in 0 .. MaxGeneration
      PROVE  Eased(u, [u EXCEPT !.leases[i].suspended = FALSE, !.leases[i].generation = g])
  <2> DEFINE m == [l EXCEPT !.suspended = FALSE, !.generation = g]
             v == [u EXCEPT !.leases[i].suspended = FALSE, !.leases[i].generation = g]
  <2>1. v = [u EXCEPT !.leases[i] = m]
    BY DEF Renderer
  <2>2. /\ m.removed = l.removed /\ m.acquiring = l.acquiring /\ m.waiters = l.waiters
        /\ m.leavers = l.leavers /\ (m.suspended => l.suspended) /\ m \in LocalLease
    <3> HIDE DEF v, l
    <3>1. m \in LocalLease
      BY <1>3
    <3>2. /\ m.removed = l.removed /\ m.acquiring = l.acquiring /\ m.waiters = l.waiters
          /\ m.leavers = l.leavers /\ m.suspended = FALSE
      BY <1>1 DEF LocalLease
    <3> QED
      BY <3>1, <3>2
  <2> HIDE DEF m, v
  <2>3. Eased(u, [u EXCEPT !.leases[i] = m])
    BY <2>2, EasedLease
  <2>4. Eased(u, v)
    BY <2>1, <2>3
  <2> QED
    BY <2>4 DEF v
<1>10. Eased(u, [u EXCEPT !.leases[i].timer = FALSE])
  <2> DEFINE m == [l EXCEPT !.timer = FALSE]
  <2>1. [u EXCEPT !.leases[i].timer = FALSE] = [u EXCEPT !.leases[i] = m]
    OBVIOUS
  <2>2. /\ m.removed = l.removed /\ m.acquiring = l.acquiring /\ m.waiters = l.waiters
        /\ m.leavers = l.leavers /\ (m.suspended => l.suspended) /\ m \in LocalLease
    BY <1>1, <1>3 DEF LocalLease
  <2> HIDE DEF m
  <2> QED
    BY <2>1, <2>2, EasedLease
<1> QED
  BY <1>4, <1>5, <1>6, <1>7, <1>8, <1>9, <1>10

LEMMA StartEased ==
    ASSUME NEW u \in Renderer, NEW i \in 1 .. MaxLeases
    PROVE  Eased(u, StartTimer(u, i))
  BY EasedOps

LEMMA EasedStop ==
    ASSUME NEW u \in Renderer
    PROVE  Eased(u, u) /\ Eased(u, ClearTimer(u))
<1>1. Eased(u, u)
  BY DEF Eased, Like
<1>2. u.current \in 1 .. MaxLeases => Eased(u, [u EXCEPT !.leases[u.current].timer = FALSE])
  BY EasedOps
<1>3. u.current # 0 => u.current \in 1 .. MaxLeases
  BY HoldAssumption DEF Renderer
<1> QED
  BY <1>1, <1>2, <1>3 DEF ClearTimer

\* One step leads to sound requests, onward.
Leads(u, q, s, fr) == Sound(s.ui, s.calls, fr) /\ Onward(u, q, s.ui, s.calls)

LEMMA StepIs ==
    ASSUME NEW u, NEW q
    PROVE  Step(u, q).ui = u /\ Step(u, q).calls = q
  BY DEF Step

LEMMA LeadsAgain ==
    ASSUME NEW u, NEW q, NEW v, NEW p, NEW s, NEW fr, Onward(u, q, v, p), Leads(v, p, s, fr)
    PROVE  Leads(u, q, s, fr)
  BY OnwardAgain DEF Leads

LEMMA StayLeads ==
    ASSUME NEW u, NEW q, NEW fr, Sound(u, q, fr)
    PROVE  Leads(u, q, Step(u, q), fr) /\ Onward(u, q, u, q)
<1>1. u.current \in 0 .. MaxLeases
  BY DEF Sound, Renderer
<1> QED
  BY <1>1, StepIs DEF Leads, Onward

\* Callers, leases and the other requests are told apart.
LEMMA Whose ==
    /\ Callers \subseteq Whos /\ Renewer \in Whos
    /\ \A i \in 1 .. MaxLeases : Acquirer(i) \in Whos /\ Remover(i) \in Whos
    /\ \A b \in Nat : Reclaimer(b) \in Whos
    /\ \A i \in 1 .. MaxLeases : Acquirer(i) \notin Callers /\ Remover(i) \notin Callers
    /\ \A b \in Nat : Reclaimer(b) \notin Callers
    /\ Renewer \notin Callers
    /\ \A i, j : Acquirer(i) # Remover(j) /\ Acquirer(i) # Reclaimer(j) /\ Remover(i) # Reclaimer(j)
    /\ \A i : Acquirer(i) # Renewer /\ Remover(i) # Renewer /\ Reclaimer(i) # Renewer
    /\ \A i, j : (Acquirer(i) = Acquirer(j) => i = j) /\ (Remover(i) = Remover(j) => i = j)
                 /\ (Reclaimer(i) = Reclaimer(j) => i = j)
<1>1. \A i \in 1 .. MaxLeases : i \in Nat
  BY HoldAssumption
<1> QED
  BY <1>1, HoldAssumption DEF Whos, Acquirer, Remover, Reclaimer, Renewer

LEMMA RequestIs ==
    ASSUME NEW u \in Renderer, NEW i \in 0 .. MaxLeases, NEW op \in {"acquire", "renew", "release"},
           NEW mode \in Modes
    PROVE  Request(u, op, FALSE, mode, i) \in Awaited
<1>1. (IF i = 0 THEN 0 ELSE u.leases[i].generation) \in 0 .. MaxGeneration
  <2>1. CASE i = 0
    BY <2>1, HoldAssumption
  <2>2. CASE i # 0
    <3>1. i \in 1 .. MaxLeases
      BY <2>2, HoldAssumption
    <3>2. u.leases[i] \in LocalLease
      BY <3>1 DEF Renderer
    <3> QED
      BY <2>2, <3>2 DEF LocalLease
  <2> QED
    BY <2>1, <2>2
<1>2. u.blips \in Nat
  BY DEF Renderer
<1> QED
  BY <1>1, <1>2 DEF Request, Awaited

LEMMA OnwardSend ==
    ASSUME NEW u, NEW q \in Requests, NEW v, NEW w \in Whos, NEW r \in Awaited,
           w \notin DOMAIN q.wait, \A b \in Nat : w # Reclaimer(b), Onward(u, q, v, q)
    PROVE  Onward(u, q, v, Send(q, w, r))
  BY SendIs DEF Onward

\* A caller that does something else.
LEMMA Acts ==
    ASSUME NEW u, NEW q, NEW fr, Sound(u, q, fr), NEW c \in Callers, Free(u, q, c),
           u.callers[c].lease # 0, NEW x \in Caller, (x.lease = 0) = (x.at \in {"idle", "open"}),
           c \in Sessions /\ x.at = "holding" => u.view = Self
    PROVE  LET v == [u EXCEPT !.callers[c] = x]
           IN  /\ Leads(u, q, Step(v, q), fr) /\ Sound(v, q, fr) /\ Onward(u, q, v, q)
               /\ \A w : Free(u, q, w) => Free(v, q, w)
               /\ v.callers[c] = x /\ v.current = u.current /\ v.leases = u.leases
               /\ \A d \in Callers \ {c} : v.callers[d] = u.callers[d]
<1> DEFINE v == [u EXCEPT !.callers[c] = x]
<1>1. u \in Renderer /\ Refers(u) /\ Heeds(u)
  BY DEF Sound
<1>2. /\ v \in Renderer /\ v.callers[c] = x /\ v.current = u.current /\ v.leases = u.leases
      /\ v.micro = u.micro /\ v.blips = u.blips /\ v.view = u.view /\ v.seen = u.seen
      /\ v.subscribed = u.subscribed
      /\ \A d \in Callers \ {c} : v.callers[d] = u.callers[d]
  BY <1>1 DEF Renderer
<1> HIDE DEF v
<1>3. Refers(v)
  BY <1>1, <1>2 DEF Refers
<1>4. Heeds(v)
  <2>1. u.callers[c] # Closed
    BY DEF Closed
  <2>2. Sessions \subseteq Callers
    BY HoldAssumption
  <2> QED
    BY <1>1, <1>2, <2>1, <2>2 DEF Heeds
<1>5. Sound(v, q, fr) /\ \A w : Free(u, q, w) => Free(v, q, w)
  <2> DEFINE S == {c}
  <2>1. S \in SUBSET Callers /\ (\A d \in S : Free(u, q, d))
        /\ (\A d \in Callers \ S : v.callers[d] = u.callers[d])
    BY <1>2
  <2>2. \A i \in 1 .. MaxLeases : Like(u, v, i)
    BY <1>2 DEF Like
  <2> HIDE DEF S
  <2> QED
    BY <1>2, <1>3, <1>4, <2>1, <2>2, Moves
<1>6. Onward(u, q, v, q)
  <2>1. u.current \in 0 .. MaxLeases /\ Sessions \subseteq Callers
    BY <1>1, HoldAssumption DEF Renderer
  <2> QED
    BY <1>2, <2>1 DEF Onward
<1> QED
  BY <1>2, <1>5, <1>6, StepIs DEF Leads, v

LEMMA Rests ==
    ASSUME NEW u, NEW q, NEW fr, Sound(u, q, fr), NEW c \in Callers, Free(u, q, c),
           u.callers[c].lease # 0
    PROVE  /\ Leads(u, q, Step(Rest(u, c), q), fr) /\ Sound(Rest(u, c), q, fr)
           /\ Onward(u, q, Rest(u, c), q)
           /\ \A w : Free(u, q, w) => Free(Rest(u, c), q, w)
           /\ Rest(u, c).callers[c].at # "holding"
           /\ \A d \in Callers \ {c} : Rest(u, c).callers[d] = u.callers[d]
<1> DEFINE x == Resting(c)
<1>1. x \in Caller /\ x.lease = 0 /\ x.at \in {"idle", "open"}
  <2>1. 0 \in 0 .. MaxLeases
    BY HoldAssumption
  <2> QED
    BY <2>1 DEF Resting, Caller, Ats, Modes
<1>2. x.at # "holding" /\ (x.lease = 0) = (x.at \in {"idle", "open"})
  BY <1>1
<1>3. Rest(u, c) = [u EXCEPT !.callers[c] = x]
  BY DEF Rest
<1> HIDE DEF x
<1> QED
  BY <1>1, <1>2, <1>3, Acts

\* Retired entries and subscriptions that nobody needs go.
LEMMA Cleans ==
    ASSUME NEW u, NEW q, NEW fr, Sound(u, q, fr), NEW i
    PROVE  /\ Leads(u, q, Step(Cleanup(u, i), q), fr) /\ Sound(Cleanup(u, i), q, fr)
           /\ Onward(u, q, Cleanup(u, i), q)
           /\ \A w : Free(u, q, w) => Free(Cleanup(u, i), q, w)
           /\ Cleanup(u, i).callers = u.callers
<1> DEFINE v == Cleanup(u, i)
<1>1. u \in Renderer /\ Refers(u) /\ Heeds(u) /\ u.current \in 0 .. MaxLeases /\ 0 \in 0 .. MaxLeases
  BY HoldAssumption DEF Sound, Renderer
<1>2. /\ v \in Renderer /\ v.current \in {0, u.current} /\ v.leases = u.leases /\ v.callers = u.callers
      /\ v.micro = u.micro /\ v.blips = u.blips /\ v.view = u.view /\ v.seen = u.seen
      /\ Heeds(v)
  BY <1>1 DEF Renderer, Heeds, Cleanup, CleanupIdle
<1> HIDE DEF v
<1>3. Refers(v)
  BY <1>1, <1>2 DEF Refers
<1>4. Sound(v, q, fr) /\ \A w : Free(u, q, w) => Free(v, q, w)
  <2> DEFINE S == {}
  <2>1. S \in SUBSET Callers /\ (\A d \in S : Free(u, q, d))
        /\ (\A d \in Callers \ S : v.callers[d] = u.callers[d])
    BY <1>2
  <2>2. \A j \in 1 .. MaxLeases : Like(u, v, j)
    BY <1>2 DEF Like
  <2> HIDE DEF S
  <2> QED
    BY <1>2, <1>3, <2>1, <2>2, Moves
<1>5. Onward(u, q, v, q)
  BY <1>2 DEF Onward
<1> QED
  BY <1>2, <1>4, <1>5, StepIs DEF Leads, v

-----------------------------------------------------------------------------
(* Releasing. *)

LEMMA ReleaseLeads ==
    ASSUME NEW u, NEW q, NEW fr, Sound(u, q, fr), NEW c \in Callers, Free(u, q, c),
           NEW i \in 1 .. MaxLeases, u.callers[c].lease = i
    PROVE  Leads(u, q, ReleaseToBackend(u, q, c, i), fr)
<1>1. u \in Renderer /\ q \in Requests /\ u.callers[c].lease # 0 /\ u.callers[c] \in Caller
  BY HoldAssumption DEF Sound, Renderer
<1>2. CASE u.current # i /\ (~u.leases[i].removed \/ u.leases[i].generation = 0)
  BY <1>1, <1>2, Rests DEF ReleaseToBackend
<1>3. CASE ~(u.current # i /\ (~u.leases[i].removed \/ u.leases[i].generation = 0))
  <2> DEFINE stopped == IF u.current = i THEN ClearTimer(u) ELSE u
             x == [stopped.callers[c] EXCEPT !.at = "releasing"]
             v == [stopped EXCEPT !.callers[c] = x]
             r == Request(u, "release", FALSE, "skip", i)
  <2>1. ReleaseToBackend(u, q, c, i) = Step(v, Send(q, c, r))
    BY <1>3 DEF ReleaseToBackend
  <2>2. Eased(u, stopped)
    BY <1>1, EasedStop
  <2>3. /\ r \in Awaited /\ r.op = "release" /\ r.lease = i /\ r.stage = "sent"
    <3>1. /\ i \in 0 .. MaxLeases /\ "skip" \in Modes
          /\ "release" \in {"acquire", "renew", "release"}
      BY HoldAssumption DEF Modes
    <3>2. r \in Awaited
      BY <1>1, <3>1, RequestIs
    <3> QED
      BY <3>2 DEF Request
  <2> HIDE DEF stopped, r
  <2>4. /\ Sound(stopped, q, fr) /\ Onward(u, q, stopped, q) /\ Free(stopped, q, c)
        /\ stopped.callers = u.callers /\ stopped \in Renderer
    BY <2>2, EasedLeads DEF Eased
  <2>5. x \in Caller /\ x.lease = i /\ x.at = "releasing"
    BY <1>1, <2>4 DEF Caller, Ats
  <2> HIDE DEF x
  <2>6. /\ Sound(v, q, fr) /\ Onward(stopped, q, v, q) /\ Free(v, q, c) /\ v.callers[c] = x
    BY <1>1, <2>4, <2>5, Acts
  <2> HIDE DEF v
  <2>7. Awaits(v, c, r)
    BY <2>3, <2>5, <2>6, Whose DEF Awaits
  <2>8. Sound(v, Send(q, c, r), fr)
    <3> DEFINE S == {}
    <3>1. S \in SUBSET Callers /\ (\A d \in S : Free(v, q, d))
          /\ (\A d \in Callers \ S : v.callers[d] = v.callers[d])
      OBVIOUS
    <3>2. \A j \in 1 .. MaxLeases :
              /\ v.leases[j].removed => v.leases[j].removed
              /\ v.leases[j].acquiring \/ c = Acquirer(j) => v.leases[j].acquiring
              /\ v.leases[j].acquiring => v.leases[j].acquiring \/ c = Acquirer(j)
              /\ v.leases[j].waiters = v.leases[j].waiters /\ v.leases[j].leavers = v.leases[j].leavers
      BY Whose
    <3>3. v \in Renderer /\ Refers(v) /\ Heeds(v) /\ c \in Whos
      BY <2>6, Whose DEF Sound
    <3> HIDE DEF S
    <3> QED
      BY <2>3, <2>6, <2>7, <3>1, <3>2, <3>3, Sends
  <2>9. Onward(u, q, v, Send(q, c, r))
    <3>1. Onward(u, q, v, q)
      BY <2>4, <2>6, OnwardAgain
    <3>2. c \notin DOMAIN q.wait /\ (\A b \in Nat : c # Reclaimer(b)) /\ c \in Whos
      BY Whose DEF Free
    <3> QED
      BY <1>1, <2>3, <3>1, <3>2, OnwardSend
  <2> QED
    BY <2>1, <2>8, <2>9, StepIs DEF Leads
<1> QED
  BY <1>2, <1>3

\* The removal of the task releases the lease that was retired.
LEMMA RemovalLeads ==
    ASSUME NEW u, NEW q, NEW fr, Sound(u, q, fr), NEW i \in 1 .. MaxLeases,
           Free(u, q, Remover(i)), u.leases[i].removed
    PROVE  Leads(u, q, ReleaseToBackend(u, q, Remover(i), i), fr)
<1> DEFINE w == Remover(i)
<1>1. u \in Renderer /\ q \in Requests /\ w \notin Callers /\ w \in Whos
  BY Whose DEF Sound
<1>2. CASE u.current # i /\ (~u.leases[i].removed \/ u.leases[i].generation = 0)
  BY <1>1, <1>2, StayLeads DEF ReleaseToBackend
<1>3. CASE ~(u.current # i /\ (~u.leases[i].removed \/ u.leases[i].generation = 0))
  <2> DEFINE v == IF u.current = i THEN ClearTimer(u) ELSE u
             r == Request(u, "release", FALSE, "skip", i)
  <2>1. ReleaseToBackend(u, q, w, i) = Step(v, Send(q, w, r))
    BY <1>1, <1>3 DEF ReleaseToBackend
  <2>2. Eased(u, v)
    BY <1>1, EasedStop
  <2>3. /\ r \in Awaited /\ r.op = "release" /\ r.lease = i /\ r.stage = "sent"
    <3>1. /\ i \in 0 .. MaxLeases /\ "skip" \in Modes
          /\ "release" \in {"acquire", "renew", "release"}
      BY HoldAssumption DEF Modes
    <3>2. r \in Awaited
      BY <1>1, <3>1, RequestIs
    <3> QED
      BY <3>2 DEF Request
  <2> HIDE DEF v, r
  <2>4. Sound(v, q, fr) /\ Onward(u, q, v, q) /\ Free(v, q, w) /\ v.leases[i].removed
    BY <2>2, EasedLeads DEF Eased, Like
  <2>5. Awaits(v, w, r)
    BY <2>3, <2>4, Whose DEF Awaits
  <2>6. Sound(v, Send(q, w, r), fr)
    <3> DEFINE S == {}
    <3>1. S \in SUBSET Callers /\ (\A d \in S : Free(v, q, d))
          /\ (\A d \in Callers \ S : v.callers[d] = v.callers[d])
      OBVIOUS
    <3>2. \A j \in 1 .. MaxLeases :
              /\ v.leases[j].removed => v.leases[j].removed
              /\ v.leases[j].acquiring \/ w = Acquirer(j) => v.leases[j].acquiring
              /\ v.leases[j].acquiring => v.leases[j].acquiring \/ w = Acquirer(j)
              /\ v.leases[j].waiters = v.leases[j].waiters /\ v.leases[j].leavers = v.leases[j].leavers
      BY Whose
    <3>3. v \in Renderer /\ Refers(v) /\ Heeds(v)
      BY <2>4 DEF Sound
    <3> HIDE DEF S, w
    <3> QED
      BY <1>1, <2>3, <2>4, <2>5, <3>1, <3>2, <3>3, Sends
  <2>7. Onward(u, q, v, Send(q, w, r))
    <3>1. w \notin DOMAIN q.wait /\ \A b \in Nat : w # Reclaimer(b)
      BY Whose DEF Free
    <3> HIDE DEF w
    <3> QED
      BY <1>1, <2>3, <2>4, <3>1, OnwardSend
  <2> QED
    BY <2>1, <2>6, <2>7, StepIs DEF Leads
<1> QED
  BY <1>2, <1>3

LEMMA FailedLeads ==
    ASSUME NEW u, NEW q, NEW fr, Sound(u, q, fr), NEW c \in Callers, Free(u, q, c),
           NEW i \in 1 .. MaxLeases, u.callers[c].lease = i
    PROVE  Leads(u, q, ReleaseFailed(u, q, c, i), fr)
<1> DEFINE less == Decrement(u, i)
<1>1. Eased(u, less)
  BY EasedOps DEF Sound
<1>2. /\ Sound(less, q, fr) /\ Onward(u, q, less, q) /\ Free(less, q, c)
      /\ less.callers[c].lease = i /\ i # 0
  BY <1>1, EasedLeads, HoldAssumption DEF Eased
<1> DEFINE rested == Rest(less, c)
<1>3. /\ Leads(less, q, Step(rested, q), fr) /\ Sound(rested, q, fr) /\ Onward(less, q, rested, q)
  BY <1>2, Rests
<1>4. Leads(rested, q, Step(Cleanup(rested, i), q), fr)
  BY <1>3, Cleans
<1>5. Leads(less, q, ReleaseToBackend(less, q, c, i), fr)
  BY <1>2, ReleaseLeads
<1>6. Leads(u, q, Step(rested, q), fr)
  BY <1>2, <1>3, LeadsAgain
<1>7. Leads(u, q, Step(Cleanup(rested, i), q), fr)
  BY <1>2, <1>3, <1>4, LeadsAgain, OnwardAgain
<1>8. Leads(u, q, ReleaseToBackend(less, q, c, i), fr)
  BY <1>2, <1>5, LeadsAgain
<1> QED
  BY <1>6, <1>7, <1>8 DEF ReleaseFailed

LEMMA LastLeads ==
    ASSUME NEW u, NEW q, NEW fr, Sound(u, q, fr), NEW c \in Callers, Free(u, q, c),
           NEW i \in 1 .. MaxLeases, u.callers[c].lease = i, NEW notify \in BOOLEAN
    PROVE  LET s == LastRelease(u, q, c, i, notify)
           IN  /\ Leads(u, q, s, fr)
               /\ ~notify =>
                     /\ s.calls = q /\ s.ui.callers[c].at # "holding"
                     /\ \A d \in Callers \ {c} : s.ui.callers[d] = u.callers[d]
                     /\ \A w : w # c /\ Free(u, q, w) => Free(s.ui, q, w)
<1>1. CASE notify
  BY <1>1, ReleaseLeads DEF LastRelease
<1>2. CASE ~notify
  <2> DEFINE rested == Rest(u, c)
             stopped == ClearTimer(rested)
             v == Cleanup(stopped, i)
  <2>1. u.callers[c].lease # 0
    BY HoldAssumption
  <2>2. /\ Sound(rested, q, fr) /\ Onward(u, q, rested, q) /\ rested.callers[c].at # "holding"
        /\ \A w : Free(u, q, w) => Free(rested, q, w)
        /\ \A d \in Callers \ {c} : rested.callers[d] = u.callers[d]
    BY <2>1, Rests
  <2> HIDE DEF rested
  <2>3. Eased(rested, stopped)
    BY <2>2, EasedStop DEF Sound
  <2> HIDE DEF stopped
  <2>4. /\ Sound(stopped, q, fr) /\ Onward(rested, q, stopped, q)
        /\ \A w : Free(rested, q, w) => Free(stopped, q, w)
        /\ stopped.callers = rested.callers
    BY <2>2, <2>3, EasedLeads DEF Eased
  <2>5. /\ Leads(stopped, q, Step(v, q), fr) /\ v.callers = stopped.callers
        /\ \A w : Free(stopped, q, w) => Free(v, q, w)
    BY <2>4, Cleans
  <2> HIDE DEF v
  <2>6. Leads(u, q, Step(v, q), fr)
    BY <2>2, <2>4, <2>5, LeadsAgain, OnwardAgain
  <2>7. LastRelease(u, q, c, i, notify) = Step(v, q)
    BY <1>2 DEF LastRelease, v, stopped, rested
  <2> QED
    BY <2>2, <2>4, <2>5, <2>6, <2>7, StepIs
<1> QED
  BY <1>1, <1>2

LEMMA HoldLeads ==
    ASSUME NEW u, NEW q, NEW fr, Sound(u, q, fr), NEW c \in Callers,
           u.callers[c].at = "holding", NEW notify \in BOOLEAN
    PROVE  LET s == ReleaseHold(u, q, c, notify)
           IN  /\ Leads(u, q, s, fr)
               /\ ~notify =>
                     /\ s.calls = q /\ s.ui.callers[c].at # "holding"
                     /\ \A d \in Callers \ {c} : s.ui.callers[d] = u.callers[d]
                     /\ \A w : w # c /\ Free(u, q, w) => Free(s.ui, q, w)
<1> DEFINE i == u.callers[c].lease
           less == Decrement(u, i)
           kind == IF notify THEN "release" ELSE "discard"
           e == [who |-> c, kind |-> kind, lease |-> i]
           x == [less.callers[c] EXCEPT !.at = "draining"]
           l == [less.leases[i] EXCEPT !.leavers = Append(less.leases[i].leavers, e)]
           v == [less EXCEPT !.callers[c] = x, !.leases[i] = l]
           s == ReleaseHold(u, q, c, notify)
<1>1. u \in Renderer /\ q \in Requests /\ u.callers[c] \in Caller /\ Refers(u) /\ Lined(u, q)
  BY DEF Sound, Renderer
<1>2. i \in 1 .. MaxLeases /\ i # 0
  BY <1>1, HoldAssumption DEF Refers, Caller
<1>3. Free(u, q, c)
  BY Unlisted DEF Free
<1>4. CASE s = Step(Rest(u, c), q)
  BY <1>2, <1>3, <1>4, Rests, StepIs
<1> HIDE DEF i
<1>5. Eased(u, less)
  BY <1>1, <1>2, EasedOps
<1> HIDE DEF less
<1>6. /\ Sound(less, q, fr) /\ Onward(u, q, less, q) /\ less.callers = u.callers /\ less \in Renderer
      /\ \A w : Free(u, q, w) => Free(less, q, w)
  BY <1>5, EasedLeads DEF Eased
<1>7. less.callers[c].lease = i /\ Free(less, q, c)
  BY <1>3, <1>6 DEF i
<1>8. CASE s = Step(Rest(less, c), q)
  BY <1>2, <1>6, <1>7, <1>8, Rests, StepIs, LeadsAgain
<1>9. CASE s = LastRelease(less, q, c, i, notify)
  BY <1>2, <1>6, <1>7, <1>9, LastLeads, LeadsAgain
<1>10. CASE s = Step(v, q) /\ u.leases[i].acquiring
  <2>1. /\ x \in Caller /\ x.at = "draining" /\ x.lease = i
    BY <1>1, <1>6, <1>7 DEF Caller, Ats
  <2>2. e \in Waiter /\ e.who = c /\ e.kind = kind /\ e.lease = i /\ kind \in LeaveKinds
        /\ kind \notin RetainKinds
    BY <1>2, Whose DEF Waiter, LeaveKinds, RetainKinds
  <2>3. /\ less.leases[i] \in LocalLease /\ less.leases[i].leavers \in Seq(Waiter)
        /\ Append(less.leases[i].leavers, e) \in Seq(Waiter)
    BY <1>2, <1>6, <2>2, Parts, NamesAppend
  <2> HIDE DEF x, e, kind
  <2>4. /\ l \in LocalLease /\ l.removed = less.leases[i].removed
        /\ l.acquiring = less.leases[i].acquiring /\ l.suspended = less.leases[i].suspended
        /\ l.waiters = less.leases[i].waiters
        /\ l.leavers = Append(less.leases[i].leavers, e)
    BY <2>3 DEF LocalLease
  <2> HIDE DEF l
  <2>5. /\ v \in Renderer /\ v.callers[c] = x /\ v.leases[i] = l /\ v.micro = less.micro
        /\ v.blips = less.blips /\ v.current = less.current /\ v.view = less.view
        /\ v.seen = less.seen /\ v.subscribed = less.subscribed
        /\ (\A d \in Callers \ {c} : v.callers[d] = less.callers[d])
        /\ (\A j \in 1 .. MaxLeases : j # i => v.leases[j] = less.leases[j])
    BY <1>2, <1>6, <2>1, <2>4 DEF Renderer
  <2> HIDE DEF v
  <2>6. Refers(v)
    BY <1>2, <1>6, <2>1, <2>5 DEF Refers, Sound
  <2>7. Heeds(v)
    <3>1. less.callers[c] # Closed
      BY <1>2, <1>7 DEF Closed
    <3>2. Sessions \subseteq Callers
      BY HoldAssumption
    <3> QED
      BY <1>6, <2>5, <3>1, <3>2 DEF Heeds, Sound
  <2>8. Stands(v, q, e)
    BY <1>2, <2>1, <2>2, <2>5 DEF Stands, LeaveKinds
  <2>9. less.leases[i].acquiring
    BY <1>2, <1>5, <1>10 DEF Eased, Like
  <2>10. \A j \in 1 .. MaxLeases :
              /\ less.leases[j].removed => v.leases[j].removed
              /\ v.leases[j].acquiring = less.leases[j].acquiring
              /\ j # i => v.leases[j].waiters = less.leases[j].waiters
                          /\ v.leases[j].leavers = less.leases[j].leavers
    BY <2>4, <2>5
  <2>11. Sound(v, q, fr) /\ \A w : Free(less, q, w) /\ w # c => Free(v, q, w)
    <3>1. Free(less, q, e.who) /\ e.lease = i /\ e.kind \notin RetainKinds
      BY <1>7, <2>2
    <3>2. v.leases[i].leavers = Append(less.leases[i].leavers, e)
          /\ v.leases[i].waiters = less.leases[i].waiters
      BY <2>4, <2>5
    <3>3. \A d \in Callers \ {e.who} : v.callers[d] = less.callers[d]
      BY <2>2, <2>5
    <3> QED
      BY <1>2, <1>6, <2>2, <2>5, <2>6, <2>7, <2>8, <2>9, <2>10, <3>1, <3>2, <3>3, Joins
  <2>12. Onward(less, q, v, q)
    <3>1. less.current \in 0 .. MaxLeases /\ Sessions \subseteq Callers
      BY <1>6, HoldAssumption DEF Renderer
    <3>2. \A j \in 1 .. MaxLeases : v.leases[j].suspended => less.leases[j].suspended
      BY <2>4, <2>5
    <3> QED
      BY <2>1, <2>5, <3>1, <3>2 DEF Onward
  <2>13. Leads(u, q, s, fr) /\ s.ui = v /\ s.calls = q
    BY <1>6, <1>10, <2>11, <2>12, OnwardAgain, StepIs DEF Leads
  <2> QED
    BY <1>6, <2>1, <2>5, <2>11, <2>13
<1>11. \/ s = Step(Rest(u, c), q) \/ s = Step(Rest(less, c), q)
       \/ s = LastRelease(less, q, c, i, notify)
       \/ s = Step(v, q) /\ u.leases[i].acquiring
  BY DEF ReleaseHold, i, less, l, x, e, kind, v
<1> QED
  BY <1>4, <1>8, <1>9, <1>10, <1>11

\* A release that does not tell the backend.
Silent(u, q, c) == ReleaseHold(u, q, c, FALSE)

\* The lease the renderer refers to was removed with the task.
Retired(u) == u.current # 0 /\ u.leases[u.current].removed

LEMMA SilentRetired ==
    ASSUME NEW u \in Renderer, NEW q, NEW c \in Callers, Retired(u)
    PROVE  LET s == Silent(u, q, c)
           IN  s.ui.leases = u.leases /\ s.ui.current = u.current
<1>1. Silent(u, q, c) = Step(Rest(u, c), q)
  BY DEF Silent, ReleaseHold, Retired
<1>2. Rest(u, c).leases = u.leases /\ Rest(u, c).current = u.current
  BY DEF Rest, Renderer
<1> QED
  BY <1>1, <1>2, StepIs

LEMMA SilentLeads ==
    ASSUME NEW u, NEW q, NEW fr, Sound(u, q, fr), NEW c \in Callers,
           u.callers[c].at = "holding"
    PROVE  LET s == Silent(u, q, c)
           IN  /\ Leads(u, q, s, fr)
               /\ s.calls = q /\ s.ui.callers[c].at # "holding"
               /\ \A d \in Callers \ {c} : s.ui.callers[d] = u.callers[d]
               /\ \A w : w # c /\ Free(u, q, w) => Free(s.ui, q, w)
<1> DEFINE notify == FALSE
           s == ReleaseHold(u, q, c, notify)
<1>1. notify \in BOOLEAN /\ ~notify
  OBVIOUS
<1> HIDE DEF notify
<1>2. /\ Leads(u, q, s, fr)
      /\ s.calls = q /\ s.ui.callers[c].at # "holding"
      /\ \A d \in Callers \ {c} : s.ui.callers[d] = u.callers[d]
      /\ \A w : w # c /\ Free(u, q, w) => Free(s.ui, q, w)
  BY <1>1, HoldLeads
<1>3. Silent(u, q, c) = s
  BY DEF notify, Silent
<1> HIDE DEF s
<1> QED
  BY <1>2, <1>3

\* The members of a finite set, one after the other.
LEMMA EachOnce ==
    ASSUME NEW T, IsFiniteSet(T)
    PROVE  LET o == SetToSeq(T)
               n == Len(o)
           IN  /\ n \in Nat
               /\ \A k \in 1 .. n : o[k] \in T
               /\ \A j, k \in 1 .. n : o[j] = o[k] => j = k
               /\ \A x \in T : \E k \in 1 .. n : x = o[k]
<1> DEFINE n == Cardinality(T)
           o == SetToSeq(T)
<1>1. n \in Nat /\ ExistsBijection(1 .. n, T)
  BY FS_CardinalityType
<1>2. PICK f : f \in Bijection(1 .. n, T)
  BY <1>1 DEF ExistsBijection
<1>3. f \in [1 .. n -> T] /\ IsInjective(f)
  BY <1>2 DEF Bijection, Injection, IsInjective
<1>4. o \in [1 .. n -> T] /\ IsInjective(o)
  BY <1>3 DEF SetToSeq
<1> HIDE DEF o
<1>5. o \in Injection(1 .. n, T)
  BY <1>4 DEF Injection, IsInjective
<1>6. Cardinality(1 .. n) = n
  BY <1>1, FS_Interval
<1>7. o \in Surjection(1 .. n, T)
  BY <1>1, <1>5, <1>6, FS_Injection
<1>8. Len(o) = n
  BY <1>1, <1>4
<1>9. \A x \in T : \E k \in 1 .. n : x = o[k]
  BY <1>7 DEF Surjection
<1>10. \A j, k \in 1 .. n : o[j] = o[k] => j = k
  BY <1>4 DEF IsInjective
<1> QED
  BY <1>1, <1>4, <1>8, <1>9, <1>10 DEF o

\* No session retains the lease any more.
LEMMA EndsLeads ==
    ASSUME NEW u, NEW q, NEW fr, Sound(u, q, fr)
    PROVE  LET s == InvalidateSessions(u, q)
           IN  /\ Leads(u, q, s, fr) /\ s.calls = q
               /\ \A c \in Sessions : s.ui.callers[c].at # "holding"
               /\ \A w : w \notin Sessions /\ Free(u, q, w) => Free(s.ui, q, w)
               /\ Retired(u) => s.ui.leases = u.leases /\ s.ui.current = u.current
<1> DEFINE o == SetToSeq({c \in Sessions : u.callers[c].at = "holding"})
           N == Len(o)
           step(f) == [n \in 0 .. Len(o) |->
                          IF n = 0 THEN Step(u, q)
                          ELSE ReleaseHold(f[n - 1].ui, f[n - 1].calls, o[n], FALSE)]
           after == CHOOSE f : f = step(f)
           D == {s \in [ui : Renderer, calls : Requests] : Sound(s.ui, s.calls, fr)}
           F == [k \in 1 .. N |-> [s \in D |->
                   IF s.ui.callers[o[k]].at = "holding"
                   THEN Silent(s.ui, s.calls, o[k]) ELSE s]]
<1>1. /\ N \in Nat /\ \A k \in 1 .. N : o[k] \in Sessions /\ u.callers[o[k]].at = "holding"
      /\ \A j, k \in 1 .. N : o[j] = o[k] => j = k
      /\ \A c \in Sessions : u.callers[c].at = "holding" => \E k \in 1 .. N : c = o[k]
  <2>1. IsFiniteSet({c \in Sessions : u.callers[c].at = "holding"})
    BY HoldAssumption, FS_Subset
  <2> QED
    BY <2>1, EachOnce
<1>2. InvalidateSessions(u, q) = after[N]
  BY DEF InvalidateSessions
<1> HIDE DEF o, N
<1>3. Sessions \subseteq Callers
  BY HoldAssumption
<1>4. \A s : Sound(s.ui, s.calls, fr) => s.ui \in Renderer /\ s.calls \in Requests
  BY DEF Sound
<1>5. Step(u, q) \in D
  BY <1>4, StepIs DEF Step, Sound
<1>6. ASSUME NEW s \in D, NEW c \in Callers, s.ui.callers[c].at = "holding"
      PROVE  LET r == Silent(s.ui, s.calls, c)
             IN  /\ r \in D /\ Leads(s.ui, s.calls, r, fr) /\ r.calls = s.calls
                 /\ r.ui.callers[c].at # "holding"
                 /\ \A d \in Callers \ {c} : r.ui.callers[d] = s.ui.callers[d]
                 /\ \A w : w # c /\ Free(s.ui, s.calls, w) => Free(r.ui, s.calls, w)
  <2> DEFINE r == Silent(s.ui, s.calls, c)
  <2>0. Sound(s.ui, s.calls, fr)
    OBVIOUS
  <2> HIDE DEF D, F
  <2>1. /\ Leads(s.ui, s.calls, r, fr) /\ r.calls = s.calls /\ r.ui.callers[c].at # "holding"
        /\ \A d \in Callers \ {c} : r.ui.callers[d] = s.ui.callers[d]
        /\ \A w : w # c /\ Free(s.ui, s.calls, w) => Free(r.ui, s.calls, w)
    BY <1>6, <2>0, SilentLeads
  <2>2. \E a, b : r = Step(a, b)
    BY DEF Silent, ReleaseHold, LastRelease, ReleaseToBackend
  <2>3. r = [ui |-> r.ui, calls |-> r.calls]
    BY <2>2 DEF Step
  <2> HIDE DEF r
  <2>4. r \in D
    BY <1>4, <2>1, <2>3 DEF Leads, D
  <2> QED
    BY <2>1, <2>4 DEF r
<1>7. F \in [1 .. N -> [D -> D]]
  <2>1. \A k \in 1 .. N : \A s \in D :
           s.ui.callers[o[k]].at = "holding" => Silent(s.ui, s.calls, o[k]) \in D
    BY <1>1, <1>3, <1>6
  <2> HIDE DEF D
  <2> QED
    BY <2>1
<1> HIDE DEF after
<1>8. PICK g \in [0 .. N -> D] : g[0] = Step(u, q) /\ \A k \in 1 .. N : g[k] = F[k][g[k - 1]]
  <2> HIDE DEF D, F
  <2>1. Rows(F, D, Step(u, q), N) # {}
    BY <1>1, <1>5, <1>7, IterateAlong
  <2> QED
    BY <2>1 DEF Rows
<1> DEFINE Done(n) ==
              /\ Leads(u, q, g[n], fr) /\ g[n].calls = q
              /\ \A k \in 1 .. n : g[n].ui.callers[o[k]].at # "holding"
              /\ \A d \in Callers : (\A k \in 1 .. n : d # o[k]) => g[n].ui.callers[d] = u.callers[d]
              /\ \A w : w \notin Sessions /\ Free(u, q, w) => Free(g[n].ui, q, w)
              /\ Retired(u) => g[n].ui.leases = u.leases /\ g[n].ui.current = u.current
           S == {n \in Nat : n <= N => Done(n)}
<1>9. 0 \in S
  BY <1>8, StayLeads, StepIs
<1>10. ASSUME NEW n \in Nat, n + 1 <= N, Done(n)
       PROVE  Done(n + 1) /\ g[n + 1] = Silent(g[n].ui, g[n].calls, o[n + 1])
  <2> DEFINE c == o[n + 1]
  <2>1. n + 1 \in 1 .. N /\ (n + 1) - 1 = n /\ n \in 0 .. N /\ g[n] \in D
    BY <1>1, <1>8, <1>10
  <2>2. c \in Sessions /\ c \in Callers /\ u.callers[c].at = "holding"
    BY <1>1, <1>3, <2>1
  <2>3. \A k \in 1 .. n : k \in 1 .. N /\ o[k] # c /\ o[k] \in Callers
    BY <1>1, <1>3, <2>1
  <2>4. g[n].ui.callers[c].at = "holding"
    BY <1>10, <2>2, <2>3
  <2>5. g[n + 1] = Silent(g[n].ui, g[n].calls, c)
    <3> HIDE DEF D
    <3> QED
      BY <1>8, <2>1, <2>4
  <2>6. /\ Leads(g[n].ui, g[n].calls, g[n + 1], fr) /\ g[n + 1].calls = g[n].calls
        /\ g[n + 1].ui.callers[c].at # "holding"
        /\ \A d \in Callers \ {c} : g[n + 1].ui.callers[d] = g[n].ui.callers[d]
        /\ \A w : w # c /\ Free(g[n].ui, g[n].calls, w) => Free(g[n + 1].ui, g[n].calls, w)
    <3>1. Sound(g[n].ui, g[n].calls, fr)
      BY <2>1
    <3> HIDE DEF D, F, c
    <3> QED
      BY <2>2, <2>4, <2>5, <3>1, SilentLeads
  <2> HIDE DEF D, F
  <2>7. Leads(u, q, g[n + 1], fr) /\ g[n + 1].calls = q
    BY <1>10, <2>6, LeadsAgain DEF Leads
  <2>8. \A k \in 1 .. n + 1 : k \in 1 .. n \/ k = n + 1
    OBVIOUS
  <2>9. \A k \in 1 .. n + 1 : g[n + 1].ui.callers[o[k]].at # "holding"
    <3> SUFFICES ASSUME NEW k \in 1 .. n + 1 PROVE g[n + 1].ui.callers[o[k]].at # "holding"
      OBVIOUS
    <3>1. CASE k = n + 1
      BY <3>1, <2>6
    <3>2. CASE k \in 1 .. n
      BY <3>2, <1>10, <2>3, <2>6
    <3> QED
      BY <3>1, <3>2, <2>8
  <2>10. ASSUME NEW d \in Callers, \A k \in 1 .. n + 1 : d # o[k]
         PROVE  g[n + 1].ui.callers[d] = u.callers[d]
    <3>1. (\A k \in 1 .. n : d # o[k]) /\ d # c
      BY <2>10
    <3> QED
      BY <3>1, <1>10, <2>6
  <2>11. \A w : w \notin Sessions /\ Free(u, q, w) => Free(g[n + 1].ui, q, w)
    BY <1>10, <2>2, <2>6
  <2>12. ASSUME Retired(u)
         PROVE  g[n + 1].ui.leases = u.leases /\ g[n + 1].ui.current = u.current
    <3>1. g[n].ui \in Renderer
      BY <2>1, <1>4 DEF D
    <3>2. Retired(g[n].ui) /\ g[n].ui.leases = u.leases /\ g[n].ui.current = u.current
      BY <1>10, <2>12 DEF Retired
    <3> QED
      BY <2>2, <2>5, <3>1, <3>2, SilentRetired
  <2> QED
    BY <2>5, <2>7, <2>9, <2>10, <2>11, <2>12
<1> HIDE DEF D, F, Done, step
<1>11. ASSUME NEW n \in Nat, n \in S PROVE n + 1 \in S
  <2> SUFFICES ASSUME n + 1 <= N PROVE Done(n + 1)
    OBVIOUS
  <2>1. n <= N
    BY <1>1
  <2>2. Done(n)
    BY <2>1, <1>11
  <2> QED
    BY <2>2, <1>10
<1>12. \A n \in 0 .. N : Done(n)
  <2> HIDE DEF S
  <2>1. Nat \subseteq S
    BY <1>9, <1>11, NaturalsByStep
  <2> QED
    BY <2>1, <1>1 DEF S
<1>13. \A n \in 0 .. N : n # 0 => g[n] = Silent(g[n - 1].ui, g[n - 1].calls, o[n])
  <2> SUFFICES ASSUME NEW n \in 0 .. N, n # 0
               PROVE  g[n] = Silent(g[n - 1].ui, g[n - 1].calls, o[n])
    OBVIOUS
  <2>1. n - 1 \in Nat /\ (n - 1) + 1 <= N /\ n - 1 \in 0 .. N /\ (n - 1) + 1 = n
    BY <1>1
  <2> QED
    BY <2>1, <1>10, <1>12
<1>14. g = step(g)
  BY <1>8, <1>13 DEF step, N, Silent
<1>15. after = step(after)
  BY <1>14 DEF after
<1>16. /\ after[0] = Step(u, q)
       /\ \A n \in 0 .. N : n # 0 =>
             after[n] = Silent(after[n - 1].ui, after[n - 1].calls, o[n])
  <2>1. 0 \in 0 .. N
    BY <1>1
  <2> QED
    BY <2>1, <1>15 DEF step, N, Silent
<1> DEFINE Q == {n \in Nat : n <= N => after[n] = g[n]}
<1>17. 0 \in Q
  BY <1>8, <1>16
<1>18. ASSUME NEW n \in Nat, n \in Q PROVE n + 1 \in Q
  <2> SUFFICES ASSUME n + 1 <= N PROVE after[n + 1] = g[n + 1]
    OBVIOUS
  <2>1. n + 1 \in 0 .. N /\ n + 1 # 0 /\ (n + 1) - 1 = n /\ n <= N
    BY <1>1
  <2> QED
    BY <2>1, <1>13, <1>16, <1>18
<1>19. N \in Q
  <2> HIDE DEF Q
  <2> QED
    BY <1>1, <1>17, <1>18, NaturalsByStep
<1>20. InvalidateSessions(u, q) = g[N] /\ Done(N)
  BY <1>1, <1>2, <1>12, <1>19
<1>21. \A c \in Sessions : g[N].ui.callers[c].at # "holding"
  <2> SUFFICES ASSUME NEW c \in Sessions PROVE g[N].ui.callers[c].at # "holding"
    OBVIOUS
  <2>1. CASE \E k \in 1 .. N : c = o[k]
    BY <2>1, <1>20 DEF Done
  <2>2. CASE \A k \in 1 .. N : c # o[k]
    BY <2>2, <1>1, <1>3, <1>20 DEF Done
  <2> QED
    BY <2>1, <2>2
<1> QED
  BY <1>20, <1>21 DEF Done

-----------------------------------------------------------------------------
(* Retaining. *)

LEMMA AdmitLeads ==
    ASSUME NEW u, NEW q, NEW fr, Sound(u, q, fr), NEW c \in Callers, Free(u, q, c),
           u.callers[c].lease # 0, u.view = Self, NEW i
    PROVE  Leads(u, q, Step(Admit(u, c, i), q), fr)
<1> DEFINE x == [u.callers[c] EXCEPT !.at = "holding"]
<1>1. u.callers[c] \in Caller
  BY DEF Sound, Renderer
<1>2. x \in Caller /\ (x.lease = 0) = (x.at \in {"idle", "open"})
  BY <1>1 DEF Caller, Ats
<1>3. Admit(u, c, i) \in {[u EXCEPT !.callers[c] = x], Rest(u, c)}
  BY DEF Admit
<1> HIDE DEF x
<1> QED
  BY <1>2, <1>3, Acts, Rests

\* Caller c, for whom nobody waits, sends an acquire of its own.
LEMMA AsksLeads ==
    ASSUME NEW u, NEW q, NEW fr, Sound(u, q, fr), NEW c \in Callers, Free(u, q, c),
           NEW i \in 1 .. MaxLeases, u.callers[c].lease = i,
           NEW x \in Caller, x.lease = i, x.at \in {"refreshing", "confirming"},
           NEW r \in Awaited, r.op = "acquire", r.lease = i, r.stage = "sent"
    PROVE  Leads(u, q, Step([u EXCEPT !.callers[c] = x], Send(q, c, r)), fr)
<1> DEFINE v == [u EXCEPT !.callers[c] = x]
<1>1. u \in Renderer /\ q \in Requests /\ i # 0
  BY HoldAssumption DEF Sound
<1>2. /\ (x.lease = 0) = (x.at \in {"idle", "open"}) /\ x.at # "holding"
  BY <1>1
<1>3. /\ Sound(v, q, fr) /\ Onward(u, q, v, q) /\ Free(v, q, c) /\ v.callers[c] = x
  BY <1>1, <1>2, Acts
<1> HIDE DEF v
<1>4. Awaits(v, c, r)
  BY <1>3, Whose DEF Awaits
<1>5. Sound(v, Send(q, c, r), fr)
  <2> DEFINE S == {}
  <2>1. S \in SUBSET Callers /\ (\A d \in S : Free(v, q, d))
        /\ (\A d \in Callers \ S : v.callers[d] = v.callers[d])
    OBVIOUS
  <2>2. \A j \in 1 .. MaxLeases :
            /\ v.leases[j].removed => v.leases[j].removed
            /\ v.leases[j].acquiring \/ c = Acquirer(j) => v.leases[j].acquiring
            /\ v.leases[j].acquiring => v.leases[j].acquiring \/ c = Acquirer(j)
            /\ v.leases[j].waiters = v.leases[j].waiters /\ v.leases[j].leavers = v.leases[j].leavers
    BY Whose
  <2>3. v \in Renderer /\ Refers(v) /\ Heeds(v) /\ c \in Whos
    BY <1>3, Whose DEF Sound
  <2> HIDE DEF S
  <2> QED
    BY <1>3, <1>4, <2>1, <2>2, <2>3, Sends
<1>6. Onward(u, q, v, Send(q, c, r))
  <2>1. c \notin DOMAIN q.wait /\ (\A b \in Nat : c # Reclaimer(b)) /\ c \in Whos
    BY Whose DEF Free
  <2> QED
    BY <1>1, <1>3, <2>1, OnwardSend
<1> QED
  BY <1>5, <1>6, StepIs DEF Leads, v

LEMMA RefreshLeads ==
    ASSUME NEW u, NEW q, NEW fr, Sound(u, q, fr), NEW c \in Callers, Free(u, q, c),
           NEW i \in 1 .. MaxLeases, u.callers[c].lease = i,
           NEW kind \in {"refreshing", "confirming"}
    PROVE  Leads(u, q, Refresh(u, q, c, i, kind), fr)
<1> DEFINE stopped == IF u.view = Self THEN u ELSE ClearTimer(u)
           x == [stopped.callers[c] EXCEPT !.at = kind]
           r == Request(u, "acquire", FALSE, u.callers[c].mode, i)
<1>1. u \in Renderer /\ q \in Requests /\ i # 0 /\ u.callers[c] \in Caller
  BY HoldAssumption DEF Sound, Renderer
<1>2. CASE u.view = Self /\ u.leases[i].generation # 0 /\ ~u.leases[i].suspended
  <2>1. Leads(u, q, Step(Admit(u, c, i), q), fr)
    BY <1>1, <1>2, AdmitLeads
  <2> QED
    BY <1>2, <2>1 DEF Refresh
<1>3. CASE ~(u.view = Self /\ u.leases[i].generation # 0 /\ ~u.leases[i].suspended)
  <2>1. Refresh(u, q, c, i, kind) = Step([stopped EXCEPT !.callers[c] = x], Send(q, c, r))
    BY <1>3 DEF Refresh
  <2>2. Eased(u, stopped)
    BY <1>1, EasedStop
  <2>3. /\ r \in Awaited /\ r.op = "acquire" /\ r.lease = i /\ r.stage = "sent"
    <3> DEFINE mode == u.callers[c].mode
    <3>1. /\ i \in 0 .. MaxLeases /\ mode \in Modes
          /\ "acquire" \in {"acquire", "renew", "release"}
      BY <1>1, HoldAssumption DEF Caller
    <3> HIDE DEF mode
    <3>2. Request(u, "acquire", FALSE, mode, i) \in Awaited
      BY <1>1, <3>1, RequestIs
    <3> QED
      BY <3>2 DEF Request, mode
  <2> HIDE DEF stopped, r
  <2>4. /\ Sound(stopped, q, fr) /\ Onward(u, q, stopped, q) /\ Free(stopped, q, c)
        /\ stopped.callers = u.callers
    BY <2>2, EasedLeads DEF Eased
  <2>5. x \in Caller /\ x.lease = i /\ x.at \in {"refreshing", "confirming"}
    BY <1>1, <2>4 DEF Caller, Ats
  <2> HIDE DEF x
  <2>6. Leads(stopped, q, Step([stopped EXCEPT !.callers[c] = x], Send(q, c, r)), fr)
    BY <2>3, <2>4, <2>5, AsksLeads
  <2> QED
    BY <2>1, <2>4, <2>6, LeadsAgain
<1> QED
  BY <1>2, <1>3

\* The acquire of a local lease that is not acquiring can be awaited.
LEMMA AcquirerFree ==
    ASSUME NEW u, NEW q, NEW fr, Sound(u, q, fr), NEW i \in 1 .. MaxLeases, ~u.leases[i].acquiring
    PROVE  Free(u, q, Acquirer(i))
<1>1. u \in Renderer /\ Lined(u, q)
  BY DEF Sound
<1>2. Acquirer(i) \notin DOMAIN q.wait
  BY <1>1 DEF Lined, Awaits
<1>3. \A e : Stands(u, q, e) /\ e.kind \in RetainKinds \cup LeaveKinds \cup {"remove"}
             => e.who # Acquirer(i)
  BY Whose DEF Stands
<1>4. \A e \in Range(u.micro) : e.who # Acquirer(i)
  BY <1>1, <1>3, Parts DEF Lined, Continuation
<1>5. \A j \in 1 .. MaxLeases : \A e \in Range(u.leases[j].waiters) \cup Range(u.leases[j].leavers) :
         e.who # Acquirer(i)
  BY <1>1, <1>3, Parts DEF Lined, Gathered, Waiter
<1> QED
  BY <1>2, <1>4, <1>5 DEF Free, Listed, Names

LEMMA StartLeads ==
    ASSUME NEW u, NEW q, NEW fr, Sound(u, q, fr), NEW i \in 1 .. MaxLeases, ~u.leases[i].acquiring,
           NEW mode \in Modes
    PROVE  LET s == StartAcquire(u, q, i, mode)
           IN  /\ Leads(u, q, s, fr) /\ s.ui.leases[i].acquiring
               /\ s.ui.callers = u.callers /\ s.ui.view = u.view /\ s.ui.current = u.current
               /\ \A x : Free(u, q, x) /\ x # Acquirer(i) => Free(s.ui, s.calls, x)
<1> DEFINE w == Acquirer(i)
           r == Request(u, "acquire", FALSE, mode, i)
           insists == mode = "insist"
           v == [u EXCEPT !.leases[i].acquiring = TRUE, !.leases[i].takeover = insists]
           s == StartAcquire(u, q, i, mode)
<1>1. u \in Renderer /\ q \in Requests /\ Refers(u) /\ Heeds(u) /\ u.current \in 0 .. MaxLeases
  BY DEF Sound, Renderer
<1>2. s.ui = v /\ s.calls = Send(q, w, r)
  BY StepIs DEF StartAcquire
<1>3. /\ r \in Awaited /\ r.op = "acquire" /\ r.lease = i /\ r.stage = "sent"
  <2>1. i \in 0 .. MaxLeases /\ "acquire" \in {"acquire", "renew", "release"}
    BY HoldAssumption
  <2>2. Request(u, "acquire", FALSE, mode, i) \in Awaited
    BY <1>1, <2>1, RequestIs
  <2> QED
    BY <2>2 DEF Request
<1>4. Free(u, q, w) /\ w \in Whos /\ w \notin Callers
  BY AcquirerFree, Whose
<1>5. /\ v \in Renderer /\ v.leases[i].acquiring
      /\ v.callers = u.callers /\ v.micro = u.micro /\ v.blips = u.blips /\ v.view = u.view
      /\ v.seen = u.seen /\ v.current = u.current /\ v.subscribed = u.subscribed
      /\ \A j \in 1 .. MaxLeases :
            /\ v.leases[j].removed = u.leases[j].removed
            /\ v.leases[j].suspended = u.leases[j].suspended
            /\ j # i => v.leases[j].acquiring = u.leases[j].acquiring
            /\ v.leases[j].waiters = u.leases[j].waiters /\ v.leases[j].leavers = u.leases[j].leavers
  <2> DEFINE l == [u.leases[i] EXCEPT !.acquiring = TRUE, !.takeover = insists]
  <2>1. u.leases[i] \in LocalLease /\ insists \in BOOLEAN
    BY <1>1 DEF Renderer
  <2> HIDE DEF insists
  <2>2. /\ l \in LocalLease /\ l.acquiring /\ l.removed = u.leases[i].removed
        /\ l.suspended = u.leases[i].suspended
        /\ l.waiters = u.leases[i].waiters /\ l.leavers = u.leases[i].leavers
    BY <2>1 DEF LocalLease
  <2>3. v = [u EXCEPT !.leases[i] = l]
    BY <1>1, <2>1 DEF Renderer, LocalLease
  <2> HIDE DEF v, l
  <2> QED
    BY <1>1, <2>2, <2>3 DEF Renderer
<1> HIDE DEF v, r
<1>6. Awaits(v, w, r)
  BY <1>3, <1>5, Whose DEF Awaits
<1>7. Refers(v) /\ Heeds(v)
  BY <1>1, <1>5 DEF Refers, Heeds
<1>8. /\ Sound(v, Send(q, w, r), fr)
      /\ \A x : Free(u, q, x) /\ x # w => Free(v, Send(q, w, r), x)
  <2> DEFINE S == {}
  <2>1. S \in SUBSET Callers /\ (\A d \in S : Free(u, q, d))
        /\ (\A d \in Callers \ S : v.callers[d] = u.callers[d])
    BY <1>5
  <2>2. \A j \in 1 .. MaxLeases : w = Acquirer(j) => j = i
    BY Whose
  <2>3. \A j \in 1 .. MaxLeases :
            /\ u.leases[j].removed => v.leases[j].removed
            /\ u.leases[j].acquiring \/ w = Acquirer(j) => v.leases[j].acquiring
            /\ v.leases[j].acquiring => u.leases[j].acquiring \/ w = Acquirer(j)
            /\ v.leases[j].waiters = u.leases[j].waiters /\ v.leases[j].leavers = u.leases[j].leavers
    BY <1>5, <2>2
  <2> HIDE DEF S, w
  <2> QED
    BY <1>3, <1>4, <1>5, <1>6, <1>7, <2>1, <2>3, Sends
<1>9. Onward(u, q, v, Send(q, w, r))
  <2>1. Onward(u, q, v, q)
    BY <1>1, <1>5 DEF Onward
  <2>2. w \notin DOMAIN q.wait /\ \A b \in Nat : w # Reclaimer(b)
    BY <1>4, Whose DEF Free
  <2> HIDE DEF w
  <2> QED
    BY <1>1, <1>3, <1>4, <2>1, <2>2, OnwardSend
<1> HIDE DEF s
<1> QED
  BY <1>2, <1>5, <1>8, <1>9 DEF Leads, s

LEMMA WaitLeads ==
    ASSUME NEW u, NEW q, NEW fr, Sound(u, q, fr), NEW c \in Callers, Free(u, q, c),
           NEW i \in 1 .. MaxLeases, u.callers[c].lease = i, u.leases[i].acquiring,
           NEW kind \in RetainKinds
    PROVE  Leads(u, q, Step(Wait(u, c, i, kind), q), fr)
<1> DEFINE e == [who |-> c, kind |-> kind, lease |-> i]
           x == [u.callers[c] EXCEPT !.at = "waiting"]
           l == [u.leases[i] EXCEPT !.waiters = Append(u.leases[i].waiters, e)]
           v == [u EXCEPT !.callers[c] = x, !.leases[i] = l]
<1>1. /\ u \in Renderer /\ Refers(u) /\ Heeds(u) /\ u.callers[c] \in Caller /\ i # 0
      /\ u.leases[i] \in LocalLease /\ u.current \in 0 .. MaxLeases
  BY HoldAssumption DEF Sound, Renderer
<1>2. e \in Waiter /\ e.who = c /\ e.kind = kind /\ e.lease = i
  BY Whose DEF Waiter
<1> HIDE DEF e
<1>3. x \in Caller /\ x.lease = i /\ x.at = "waiting"
  BY <1>1 DEF Caller, Ats
<1> HIDE DEF x
<1>4. /\ u.leases[i].waiters \in Seq(Waiter) /\ Append(u.leases[i].waiters, e) \in Seq(Waiter)
  BY <1>1, <1>2, NamesAppend DEF LocalLease
<1>5. /\ l \in LocalLease /\ l.removed = u.leases[i].removed
      /\ l.acquiring = u.leases[i].acquiring /\ l.suspended = u.leases[i].suspended
      /\ l.waiters = Append(u.leases[i].waiters, e) /\ l.leavers = u.leases[i].leavers
  BY <1>1, <1>4 DEF LocalLease
<1>6. Wait(u, c, i, kind) = v
  BY DEF Wait, e, x, l
<1> HIDE DEF l
<1>7. /\ v \in Renderer /\ v.callers[c] = x /\ v.leases[i] = l
      /\ v.micro = u.micro /\ v.blips = u.blips /\ v.view = u.view /\ v.seen = u.seen
      /\ v.current = u.current /\ v.subscribed = u.subscribed
      /\ \A d \in Callers \ {c} : v.callers[d] = u.callers[d]
      /\ \A j \in 1 .. MaxLeases : j # i => v.leases[j] = u.leases[j]
  BY <1>1, <1>3, <1>5 DEF Renderer
<1> HIDE DEF v
<1>8. Refers(v)
  BY <1>1, <1>3, <1>7 DEF Refers
<1>9. Heeds(v)
  <2>1. u.callers[c] # Closed /\ Sessions \subseteq Callers
    BY <1>1, HoldAssumption DEF Closed
  <2> QED
    BY <1>1, <1>7, <2>1 DEF Heeds
<1>10. Stands(v, q, e)
  BY <1>2, <1>3, <1>7 DEF Stands, RetainKinds, LeaveKinds
<1>11. Sound(v, q, fr)
  <2>1. \A j \in 1 .. MaxLeases :
              /\ u.leases[j].removed => v.leases[j].removed
              /\ v.leases[j].acquiring = u.leases[j].acquiring
              /\ j # i => v.leases[j].waiters = u.leases[j].waiters
                          /\ v.leases[j].leavers = u.leases[j].leavers
    BY <1>5, <1>7
  <2>2. /\ e.kind \in RetainKinds /\ v.leases[i].waiters = Append(u.leases[i].waiters, e)
        /\ v.leases[i].leavers = u.leases[i].leavers
    BY <1>2, <1>5, <1>7
  <2>3. \A d \in Callers \ {e.who} : v.callers[d] = u.callers[d]
    BY <1>2, <1>7
  <2>4. e.lease = i /\ Free(u, q, e.who)
    BY <1>2
  <2> QED
    BY <1>2, <1>7, <1>8, <1>9, <1>10, <2>1, <2>2, <2>3, <2>4, Joins
<1>12. Onward(u, q, v, q)
  <2>1. \A s \in Sessions : v.callers[s].at = "holding" => u.callers[s].at = "holding"
    BY <1>3, <1>7, HoldAssumption
  <2>2. \A j \in 1 .. MaxLeases : v.leases[j].suspended = u.leases[j].suspended
    BY <1>5, <1>7
  <2> QED
    BY <1>1, <1>7, <2>1, <2>2 DEF Onward
<1> QED
  BY <1>6, <1>11, <1>12, StepIs DEF Leads

-----------------------------------------------------------------------------
(* Continuations. *)

LEMMA RetainedLeads ==
    ASSUME NEW u, NEW q, NEW fr, Sound(u, q, fr), NEW n \in Continuation, Stands(u, q, n),
           Free(u, q, n.who), n.kind \in RetainKinds
    PROVE  Leads(u, q, Retained(u, q, n), fr)
<1> DEFINE c == n.who
           i == n.lease
           mode == u.callers[c].mode
           again == StartAcquire(u, q, i, mode)
           retry == "retry"
<1>1. /\ c \in Callers /\ u.callers[c].at = "waiting" /\ u.callers[c].lease = i
      /\ i \in 1 .. MaxLeases /\ i # 0 /\ Free(u, q, c)
  BY HoldAssumption DEF Stands, Continuation
<1>2. u \in Renderer /\ mode \in Modes
  <2>1. u.callers[c] \in Caller
    BY <1>1 DEF Sound, Renderer
  <2> QED
    BY <2>1 DEF Caller, Sound
<1> HIDE DEF c, i
<1>3. Leads(u, q, Step(Rest(u, c), q), fr)
  BY <1>1, Rests
<1>4. Leads(u, q, Refresh(u, q, c, i, "confirming"), fr)
  BY <1>1, RefreshLeads
<1>5. Leads(u, q, ReleaseFailed(u, q, c, i), fr)
  BY <1>1, FailedLeads
<1>6. ASSUME ~u.leases[i].acquiring
      PROVE  Leads(u, q, Step(Wait(again.ui, c, i, retry), again.calls), fr)
  <2>1. /\ Leads(u, q, again, fr) /\ again.ui.leases[i].acquiring
        /\ again.ui.callers = u.callers
        /\ \A x : Free(u, q, x) /\ x # Acquirer(i) => Free(again.ui, again.calls, x)
    BY <1>1, <1>2, <1>6, StartLeads
  <2>2. c # Acquirer(i)
    BY <1>1, Whose
  <2> HIDE DEF again
  <2>3. retry \in RetainKinds
    BY DEF RetainKinds
  <2>4. /\ Sound(again.ui, again.calls, fr) /\ Onward(u, q, again.ui, again.calls)
        /\ again.ui.callers[c].lease = i /\ Free(again.ui, again.calls, c)
    BY <1>1, <2>1, <2>2 DEF Leads
  <2> HIDE DEF retry
  <2>5. Leads(again.ui, again.calls, Step(Wait(again.ui, c, i, retry), again.calls), fr)
    BY <1>1, <2>1, <2>3, <2>4, WaitLeads
  <2> QED
    BY <2>4, <2>5, LeadsAgain
<1> QED
  BY <1>3, <1>4, <1>5, <1>6 DEF Retained, c, i

LEMMA DrainedLeads ==
    ASSUME NEW u, NEW q, NEW fr, Sound(u, q, fr), NEW n \in Continuation, Stands(u, q, n),
           Free(u, q, n.who), n.kind \in LeaveKinds
    PROVE  Leads(u, q, Drained(u, q, n), fr)
<1> DEFINE notify == n.kind = "release"
<1>1. /\ n.who \in Callers /\ u.callers[n.who].lease = n.lease
      /\ n.lease \in 1 .. MaxLeases /\ n.lease # 0
  BY HoldAssumption DEF Stands, Continuation
<1>2. Leads(u, q, Step(Rest(u, n.who), q), fr)
  BY <1>1, Rests
<1>3. notify \in BOOLEAN
  OBVIOUS
<1>4. Drained(u, q, n) \in {Step(Rest(u, n.who), q), LastRelease(u, q, n.who, n.lease, notify)}
  BY DEF Drained
<1> HIDE DEF notify
<1>5. Leads(u, q, LastRelease(u, q, n.who, n.lease, notify), fr)
  BY <1>1, <1>3, LastLeads
<1> QED
  BY <1>2, <1>4, <1>5

LEMMA RemovedLeads ==
    ASSUME NEW u, NEW q, NEW fr, Sound(u, q, fr), NEW i \in 1 .. MaxLeases, Free(u, q, Remover(i)),
           u.leases[i].removed
    PROVE  Leads(u, q, Removed(u, q, i), fr)
<1> DEFINE l == [u.leases[i] EXCEPT !.hold = 0]
           v == [u EXCEPT !.leases[i] = l]
<1>1. u \in Renderer /\ u.leases[i] \in LocalLease
  BY DEF Sound, Renderer
<1>2. /\ l \in LocalLease /\ l.removed = u.leases[i].removed /\ l.acquiring = u.leases[i].acquiring
      /\ l.waiters = u.leases[i].waiters /\ l.leavers = u.leases[i].leavers
      /\ l.suspended = u.leases[i].suspended
  <2>1. 0 \in 0 .. MaxHolds
    BY HoldAssumption
  <2> QED
    BY <1>1, <2>1 DEF LocalLease
<1> HIDE DEF l
<1>3. Eased(u, v)
  BY <1>1, <1>2, EasedLease
<1>4. Removed(u, q, i) = ReleaseToBackend(v, q, Remover(i), i)
  BY DEF Removed, Set, l
<1> HIDE DEF v
<1>5. /\ Sound(v, q, fr) /\ Onward(u, q, v, q) /\ Free(v, q, Remover(i)) /\ v.leases[i].removed
  BY <1>3, EasedLeads DEF Eased, Like
<1>6. Leads(v, q, ReleaseToBackend(v, q, Remover(i), i), fr)
  BY <1>5, RemovalLeads
<1> QED
  BY <1>4, <1>5, <1>6, LeadsAgain

\* What is done with the first continuation.
Resumed(u, q) ==
    LET n == Head(u.micro)
        rest == [u EXCEPT !.micro = Tail(@)]
    IN  CASE n.kind \in {"release", "discard"} -> Drained(rest, q, n)
          [] n.kind = "remove" -> Removed(rest, q, n.lease)
          [] OTHER -> Retained(rest, q, n)

LEMMA ResumeLeads ==
    ASSUME NEW u, NEW q, NEW fr, Sound(u, q, fr), u.micro # <<>>
    PROVE  Leads(u, q, Resumed(u, q), fr)
<1> DEFINE v == [u EXCEPT !.micro = Tail(@)]
           n == Head(u.micro)
<1>1. Sound(v, q, fr) /\ n \in Continuation /\ Stands(v, q, n) /\ Free(v, q, n.who)
  BY Pops
<1>2. Onward(u, q, v, q)
  BY DEF Sound, Renderer, Onward
<1> HIDE DEF v
<1>3. n.kind \in RetainKinds \cup LeaveKinds \cup {"remove"} /\ n.lease \in 1 .. MaxLeases
  BY <1>1 DEF Continuation
<1>4. Resumed(u, q) = IF n.kind \in LeaveKinds THEN Drained(v, q, n)
                      ELSE IF n.kind = "remove" THEN Removed(v, q, n.lease) ELSE Retained(v, q, n)
  BY DEF Resumed, v, LeaveKinds
<1> HIDE DEF n
<1>5. CASE n.kind \in LeaveKinds
  BY <1>1, <1>2, <1>4, <1>5, DrainedLeads, LeadsAgain
<1>6. CASE n.kind = "remove"
  <2>1. n.who = Remover(n.lease) /\ v.leases[n.lease].removed /\ n.kind \notin LeaveKinds
    BY <1>1, <1>6 DEF Stands, LeaveKinds
  <2>2. Leads(v, q, Removed(v, q, n.lease), fr)
    BY <1>1, <1>3, <2>1, RemovedLeads
  <2> QED
    BY <1>2, <1>4, <1>6, <2>1, <2>2, LeadsAgain
<1>7. CASE n.kind \in RetainKinds
  <2>1. n.kind \notin LeaveKinds /\ n.kind # "remove"
    BY <1>7 DEF RetainKinds, LeaveKinds
  <2>2. Leads(v, q, Retained(v, q, n), fr)
    BY <1>1, <1>7, RetainedLeads
  <2> QED
    BY <1>2, <1>4, <2>1, <2>2, LeadsAgain
<1> QED
  BY <1>3, <1>5, <1>6, <1>7

-----------------------------------------------------------------------------
(* Answers to an acquire. *)

LEMMA OnwardOther ==
    ASSUME NEW u, NEW q, NEW v, NEW p, Onward(u, q, v, q)
    PROVE  Onward(u, p, v, p)
  BY DEF Onward

Outcomes == {"yes", "no", "error"}

LEMMA SettleLeads ==
    ASSUME NEW u, NEW q, NEW fr, Sound(u, q, fr), NEW i \in 1 .. MaxLeases,
           Unposted(q, fr, Acquirer(i)), NEW outcome \in Outcomes
    PROVE  LET p == Forget(q, Acquirer(i))
           IN  Leads(u, p, Step(Settle(u, i, outcome), p), fr)
<1> DEFINE p == Forget(q, Acquirer(i))
           cs == Continuations(u.leases[i], outcome)
           l == [u.leases[i] EXCEPT !.acquiring = FALSE, !.takeover = FALSE,
                                    !.waiters = <<>>, !.leavers = <<>>]
           micro == u.micro \o cs
           v == [u EXCEPT !.leases[i] = l, !.micro = micro]
<1>1. u \in Renderer /\ Heeds(u) /\ u.leases[i] \in LocalLease /\ u.micro \in Seq(Continuation)
  BY DEF Sound, Renderer
<1>2. micro \in Seq(Continuation)
  <2>1. cs \in Seq(Continuation)
    BY <1>1, ContinuationsAre DEF Outcomes
  <2> HIDE DEF cs
  <2> QED
    BY <1>1, <2>1
<1>3. /\ l \in LocalLease /\ l.removed = u.leases[i].removed /\ ~l.acquiring
      /\ l.suspended = u.leases[i].suspended /\ l.waiters = <<>> /\ l.leavers = <<>>
  <2>1. <<>> \in Seq(Waiter)
    OBVIOUS
  <2> DEFINE none == <<>>
             m == [u.leases[i] EXCEPT !.acquiring = FALSE, !.takeover = FALSE,
                                      !.waiters = none, !.leavers = none]
  <2> HIDE DEF none
  <2>2. none \in Seq(Waiter)
    BY <2>1 DEF none
  <2>3. /\ m \in LocalLease /\ m.removed = u.leases[i].removed /\ ~m.acquiring
        /\ m.suspended = u.leases[i].suspended /\ m.waiters = none /\ m.leavers = none
    BY <1>1, <2>2 DEF LocalLease
  <2> QED
    BY <2>3 DEF none
<1>4. Settle(u, i, outcome) = Cleanup(v, i)
  BY DEF Settle
<1> HIDE DEF l
<1>5. /\ v \in Renderer /\ v.leases[i] = l /\ v.micro = micro
      /\ v.callers = u.callers /\ v.blips = u.blips /\ v.view = u.view /\ v.seen = u.seen
      /\ v.current = u.current /\ v.subscribed = u.subscribed
      /\ \A j \in 1 .. MaxLeases : j # i => v.leases[j] = u.leases[j]
  <2> HIDE DEF micro
  <2> QED
    BY <1>1, <1>2, <1>3 DEF Renderer
<1> HIDE DEF v
<1>7. Heeds(v)
  BY <1>1, <1>5 DEF Heeds
<1>8. Sound(v, p, fr)
  <2>1. \A j \in 1 .. MaxLeases : j # i => Like(u, v, j)
    BY <1>5 DEF Like
  <2>2. /\ u.leases[i].removed => v.leases[i].removed
        /\ ~v.leases[i].acquiring /\ v.leases[i].waiters = <<>> /\ v.leases[i].leavers = <<>>
    BY <1>3, <1>5
  <2>3. v.micro = u.micro \o Continuations(u.leases[i], outcome)
    BY <1>5
  <2>4. outcome \in {"yes", "no", "error"}
    BY DEF Outcomes
  <2> HIDE DEF micro, cs
  <2> QED
    BY <1>5, <1>7, <2>1, <2>2, <2>3, <2>4, Settles
<1> HIDE DEF p
<1>9. Onward(u, p, v, p)
  <2>1. \A j \in 1 .. MaxLeases : v.leases[j].suspended = u.leases[j].suspended
    BY <1>3, <1>5
  <2> QED
    BY <1>1, <1>5, <2>1 DEF Onward, Renderer
<1>10. Leads(v, p, Step(Cleanup(v, i), p), fr)
  BY <1>8, Cleans
<1> QED
  BY <1>4, <1>9, <1>10, LeadsAgain DEF p

LEMMA AcquiredLeads ==
    ASSUME NEW u, NEW q, NEW fr, Sound(u, q, fr), NEW i \in 1 .. MaxLeases,
           Unposted(q, fr, Acquirer(i)), NEW outcome \in Outcomes,
           NEW generation \in 0 .. MaxGeneration, NEW request
    PROVE  LET p == Forget(q, Acquirer(i))
           IN  Leads(u, p, Acquired(u, p, i, request, outcome, generation), fr)
<1> DEFINE p == Forget(q, Acquirer(i))
           adopted == IF outcome = "yes" THEN [u EXCEPT !.leases[i].generation = generation] ELSE u
           admitted == outcome = "yes" /\ AttemptCurrent(u, request.blips)
           v == IF admitted /\ u.current = i /\ ~u.leases[i].removed
                THEN StartTimer(adopted, i) ELSE adopted
           end == IF outcome = "error" THEN "error" ELSE IF admitted THEN "yes" ELSE "no"
<1>1. u \in Renderer
  BY DEF Sound
<1>2. Eased(u, adopted)
  BY <1>1, EasedOps, EasedStop
<1>3. Acquired(u, p, i, request, outcome, generation) = Step(Settle(v, i, end), p)
  BY DEF Acquired
<1>4. end \in Outcomes
  BY DEF Outcomes
<1> HIDE DEF adopted, admitted, end, p
<1>5. Eased(u, v)
  <2>1. Eased(adopted, StartTimer(adopted, i))
    BY <1>2, EasedOps DEF Eased
  <2> QED
    BY <1>2, <2>1, EasedTwice
<1> HIDE DEF v
<1>6. Sound(v, q, fr) /\ Onward(u, q, v, q)
  BY <1>5, EasedLeads
<1>7. Leads(v, p, Step(Settle(v, i, end), p), fr)
  BY <1>4, <1>6, SettleLeads DEF p
<1>8. Onward(u, p, v, p)
  BY <1>6, OnwardOther
<1> QED
  BY <1>3, <1>7, <1>8, LeadsAgain DEF p

LEMMA RefreshedLeads ==
    ASSUME NEW u, NEW q, NEW fr, Sound(u, q, fr), NEW c \in Callers, Free(u, q, c),
           NEW i \in 1 .. MaxLeases, u.callers[c].lease = i, NEW request, request.lease = i,
           NEW outcome \in Outcomes, NEW generation \in 0 .. MaxGeneration
    PROVE  Leads(u, q, Refreshed(u, q, c, request, outcome, generation), fr)
<1> DEFINE v == IF outcome = "yes" THEN [u EXCEPT !.leases[i].generation = generation] ELSE u
<1>1. u \in Renderer /\ i # 0
  BY HoldAssumption DEF Sound
<1>2. Eased(u, v)
  BY <1>1, EasedOps, EasedStop
<1>3. /\ Refreshed(u, q, c, request, outcome, generation) \in
            {Step(Rest(u, c), q), Step(Admit(v, c, i), q), ReleaseFailed(v, q, c, i),
             Step(Rest(v, c), q)}
      /\ Refreshed(u, q, c, request, outcome, generation) = Step(Admit(v, c, i), q)
            => u.view = Self \/ Refreshed(u, q, c, request, outcome, generation) \in
                                  {Step(Rest(u, c), q), ReleaseFailed(v, q, c, i), Step(Rest(v, c), q)}
  BY DEF Refreshed, AttemptCurrent
<1> HIDE DEF v
<1>4. /\ Sound(v, q, fr) /\ Onward(u, q, v, q) /\ Free(v, q, c) /\ v.callers[c].lease = i
      /\ v.view = u.view
  BY <1>2, EasedLeads DEF Eased
<1>5. Leads(u, q, Step(Rest(u, c), q), fr)
  BY <1>1, Rests
<1>6. Leads(u, q, Step(Rest(v, c), q), fr)
  BY <1>1, <1>4, Rests, LeadsAgain
<1>7. Leads(u, q, ReleaseFailed(v, q, c, i), fr)
  BY <1>4, FailedLeads, LeadsAgain
<1>8. u.view = Self => Leads(u, q, Step(Admit(v, c, i), q), fr)
  BY <1>1, <1>4, AdmitLeads, LeadsAgain
<1> QED
  BY <1>3, <1>5, <1>6, <1>7, <1>8

LEMMA ReclaimedLeads ==
    ASSUME NEW u, NEW q, NEW fr, Sound(u, q, fr), NEW request, request.lease \in 1 .. MaxLeases,
           NEW outcome \in Outcomes, NEW generation \in 0 .. MaxGeneration
    PROVE  Leads(u, q, Reclaimed(u, q, request, outcome, generation), fr)
<1> DEFINE i == request.lease
           resumed == [u EXCEPT !.leases[i].suspended = FALSE, !.leases[i].generation = generation]
           started == IF u.leases[i].timer THEN resumed ELSE StartTimer(resumed, i)
           unmarked == [u EXCEPT !.leases[i].suspended = FALSE]
           stopped == ClearTimer(unmarked)
<1>1. u \in Renderer
  BY DEF Sound
<1>2. Reclaimed(u, q, request, outcome, generation) \in
         {Step(u, q), Step(started, q), InvalidateSessions(stopped, q)}
  BY DEF Reclaimed
<1>3. Eased(u, resumed) /\ Eased(u, unmarked)
  BY <1>1, EasedOps
<1>9. i \in 1 .. MaxLeases
  OBVIOUS
<1> HIDE DEF resumed, unmarked, i
<1>10. resumed \in Renderer /\ unmarked \in Renderer
  BY <1>3 DEF Eased
<1>11. started \in {resumed, StartTimer(resumed, i)}
  BY DEF i
<1> HIDE DEF started
<1>4. Eased(u, started)
  <2>1. Eased(resumed, StartTimer(resumed, i))
    BY <1>9, <1>10, StartEased
  <2> QED
    BY <1>3, <1>11, <2>1, EasedTwice
<1>5. Eased(u, stopped)
  <2>1. Eased(unmarked, stopped)
    BY <1>10, EasedStop
  <2> HIDE DEF stopped
  <2> QED
    BY <1>3, <2>1, EasedTwice
<1> HIDE DEF stopped
<1>6. Leads(u, q, Step(u, q), fr)
  BY StayLeads
<1>7. Leads(u, q, Step(started, q), fr)
  BY <1>4, EasedLeads, StepIs DEF Leads
<1>8. Leads(u, q, InvalidateSessions(stopped, q), fr)
  <2>1. Sound(stopped, q, fr) /\ Onward(u, q, stopped, q)
    BY <1>5, EasedLeads
  <2>2. Leads(stopped, q, InvalidateSessions(stopped, q), fr)
    BY <2>1, EndsLeads
  <2> QED
    BY <2>1, <2>2, LeadsAgain
<1> QED
  BY <1>2, <1>6, <1>7, <1>8

\* Whoever awaits an acquire: a caller, a local lease, or the re-claim.
LEMMA WhoAcquires ==
    ASSUME NEW u, NEW q, NEW fr, Sound(u, q, fr), NEW w \in DOMAIN q.wait,
           q.wait[w].op = "acquire"
    PROVE  /\ q.wait[w] \in Awaited /\ Awaits(u, w, q.wait[w]) /\ w \in Whos
           /\ q.wait[w].lease \in 1 .. MaxLeases
           /\ \/ w \in Callers /\ u.callers[w].lease = q.wait[w].lease
              \/ w = Acquirer(q.wait[w].lease)
              \/ \E b \in Nat : w = Reclaimer(b)
<1>1. q \in Requests /\ u \in Renderer /\ Lined(u, q) /\ Refers(u)
  BY DEF Sound
<1>2. w \in Whos /\ q.wait[w] \in Awaited /\ Awaits(u, w, q.wait[w])
  BY <1>1, TableTyping DEF Lined
<1>3. q.wait[w].lease \in 0 .. MaxLeases
  BY <1>2 DEF Awaited
<1>4. CASE w \in Callers
  <2>1. u.callers[w].lease = q.wait[w].lease /\ u.callers[w].at \in {"refreshing", "confirming"}
    BY <1>2, <1>4 DEF Awaits
  <2>2. u.callers[w].lease # 0
    BY <1>1, <1>4, <2>1 DEF Refers
  <2> QED
    BY <1>2, <1>3, <1>4, <2>1, <2>2, HoldAssumption
<1>5. CASE w \notin Callers
  <2>1. w # Renewer /\ \A i \in 1 .. MaxLeases : w # Remover(i)
    BY <1>2 DEF Awaits
  <2>2. CASE \E i \in 1 .. MaxLeases : w = Acquirer(i)
    BY <1>2, <2>2 DEF Awaits
  <2>3. CASE \E b \in Nat : w = Reclaimer(b)
    BY <1>2, <1>3, <2>3, HoldAssumption DEF Awaits
  <2> QED
    BY <1>2, <1>5, <2>1, <2>2, <2>3 DEF Whos
<1> QED
  BY <1>4, <1>5

LEMMA EnsuredLeads ==
    ASSUME NEW u, NEW q, NEW fr, Sound(u, q, fr), NEW w \in DOMAIN q.wait,
           q.wait[w].op = "acquire", Unposted(q, fr, w), NEW outcome \in Outcomes,
           NEW generation \in 0 .. MaxGeneration
    PROVE  Leads(u, Forget(q, w), Ensured(u, q, w, outcome, generation), fr)
<1> DEFINE r == q.wait[w]
           p == Forget(q, w)
           i == r.lease
<1>1. /\ i \in 1 .. MaxLeases /\ w \in Whos
      /\ \/ w \in Callers /\ u.callers[w].lease = i
         \/ w = Acquirer(i)
         \/ \E b \in Nat : w = Reclaimer(b)
  BY WhoAcquires
<1>2. Ensured(u, q, w, outcome, generation) =
         IF w \in Callers THEN Refreshed(u, p, w, r, outcome, generation)
         ELSE IF w[1] = "reclaim" THEN Reclaimed(u, p, r, outcome, generation)
         ELSE Acquired(u, p, i, r, outcome, generation)
  BY DEF Ensured
<1> HIDE DEF p, i
<1>3. CASE w \in Callers /\ u.callers[w].lease = i
  <2>1. Sound(u, p, fr) /\ Free(u, p, w)
    BY <1>3, Forgets, Whose DEF p
  <2>2. r.lease = i
    BY DEF i
  <2> HIDE DEF r
  <2> QED
    BY <1>1, <1>2, <1>3, <2>1, <2>2, RefreshedLeads DEF p
<1>4. CASE w = Acquirer(i)
  <2>1. w \notin Callers /\ w[1] # "reclaim"
    BY <1>1, <1>4, Whose DEF Acquirer
  <2> HIDE DEF r
  <2> QED
    BY <1>1, <1>2, <1>4, <2>1, AcquiredLeads DEF p
<1>5. CASE \E b \in Nat : w = Reclaimer(b)
  <2>1. w \notin Callers /\ w[1] = "reclaim" /\ \A j \in 1 .. MaxLeases : w # Acquirer(j)
    BY <1>5, Whose DEF Reclaimer
  <2>2. Sound(u, p, fr)
    BY <2>1, Forgets DEF p
  <2>3. r.lease \in 1 .. MaxLeases
    BY <1>1 DEF i
  <2> HIDE DEF r
  <2> QED
    BY <1>2, <2>1, <2>2, <2>3, ReclaimedLeads DEF p
<1> QED
  BY <1>1, <1>3, <1>4, <1>5

-----------------------------------------------------------------------------
(* What the renderer believes. *)

\* Is the task's local lease suspended?
Marked(u) == u.current # 0 /\ u.leases[u.current].suspended

\* Nothing is suspended, no connection lost and no lease re-claimed.
Calm(u, q, v, p) ==
    /\ v.blips = u.blips /\ (Marked(v) => Marked(u))
    /\ \A b \in Nat : Reclaimer(b) \in DOMAIN p.wait => Reclaimer(b) \in DOMAIN q.wait

\* A session retains the lease only while the renderer believes it has control.
Believes(u) == \A s \in Sessions : u.callers[s].at = "holding" => u.view = Self

\* And what is believed stays.
Keeps(u, q, v, p) ==
    /\ Calm(u, q, v, p) /\ v.view = u.view /\ v.seen = u.seen /\ (Believes(u) => Believes(v))

LEMMA CalmAgain ==
    ASSUME NEW u, NEW q, NEW v, NEW p, NEW x, NEW r, Calm(u, q, v, p), Calm(v, p, x, r)
    PROVE  Calm(u, q, x, r)
  BY DEF Calm

LEMMA KeepsAgain ==
    ASSUME NEW u, NEW q, NEW v, NEW p, NEW x, NEW r, Keeps(u, q, v, p), Keeps(v, p, x, r)
    PROVE  Keeps(u, q, x, r)
  BY CalmAgain DEF Keeps

LEMMA OnwardKeeps ==
    ASSUME NEW u \in Renderer, NEW q, NEW v, NEW p, Onward(u, q, v, p)
    PROVE  Keeps(u, q, v, p)
<1>1. u.current \in 0 .. MaxLeases /\ \A i \in 0 .. MaxLeases : i # 0 => i \in 1 .. MaxLeases
  BY HoldAssumption DEF Renderer
<1>2. Marked(v) => Marked(u)
  BY <1>1 DEF Marked, Onward
<1>3. Believes(u) => Believes(v)
  BY DEF Believes, Onward
<1> QED
  BY <1>2, <1>3 DEF Keeps, Calm, Onward

\* Whoever awaited request w no longer does.
LEMMA ForgetKeeps ==
    ASSUME NEW u \in Renderer, NEW q \in Requests, NEW w, NEW v, NEW p, Onward(u, Forget(q, w), v, p)
    PROVE  Keeps(u, q, v, p)
<1>1. Keeps(u, Forget(q, w), v, p)
  BY OnwardKeeps
<1>2. DOMAIN Forget(q, w).wait \subseteq DOMAIN q.wait
  BY ForgetIs
<1> QED
  BY <1>1, <1>2 DEF Keeps, Calm

LEMMA ChangedLeads ==
    ASSUME NEW u, NEW q, NEW fr, Sound(u, q, fr)
    PROVE  LET s == HandleControllerChanged(u, q)
           IN  /\ Leads(u, q, s, fr) /\ s.calls = q /\ Believes(s.ui)
               /\ \A w : w \notin Sessions /\ Free(u, q, w) => Free(s.ui, q, w)
<1> DEFINE s == HandleControllerChanged(u, q)
           v == ClearTimer(u)
           e == InvalidateSessions(v, q)
<1>1. CASE ~u.subscribed \/ u.view = Self
  <2>1. s = Step(u, q)
    BY <1>1 DEF HandleControllerChanged
  <2>2. Believes(u)
    BY <1>1 DEF Believes, Sound, Heeds, Closed
  <2> HIDE DEF s
  <2> QED
    BY <2>1, <2>2, StayLeads, StepIs DEF s
<1>2. CASE ~(~u.subscribed \/ u.view = Self)
  <2>1. s = e
    BY <1>2 DEF HandleControllerChanged
  <2>2. Eased(u, v)
    BY EasedStop DEF Sound
  <2> HIDE DEF v, s
  <2>3. Sound(v, q, fr) /\ Onward(u, q, v, q) /\ \A w : Free(u, q, w) => Free(v, q, w)
    BY <2>2, EasedLeads
  <2>4. /\ Leads(v, q, e, fr) /\ e.calls = q /\ \A c \in Sessions : e.ui.callers[c].at # "holding"
        /\ \A w : w \notin Sessions /\ Free(v, q, w) => Free(e.ui, q, w)
    BY <2>3, EndsLeads
  <2> HIDE DEF e
  <2>5. Leads(u, q, e, fr) /\ Believes(e.ui)
    BY <2>3, <2>4, LeadsAgain DEF Believes
  <2> QED
    BY <2>1, <2>3, <2>4, <2>5 DEF s
<1> QED
  BY <1>1, <1>2

\* A snapshot that is older than what is known changes nothing; a newer one is believed.
LEMMA ApplyLeads ==
    ASSUME NEW u, NEW q, NEW fr, Sound(u, q, fr), NEW snapshot \in ControllerSnapshot, Believes(u)
    PROVE  LET s == Apply(u, q, snapshot)
           IN  /\ Sound(s.ui, s.calls, fr) /\ s.calls = q
               /\ Calm(u, q, s.ui, q) /\ Believes(s.ui)
               /\ snapshot.version < u.seen => s.ui.view = u.view /\ s.ui.seen = u.seen
               /\ ~(snapshot.version < u.seen) =>
                     s.ui.view = snapshot.controllerId /\ s.ui.seen = snapshot.version
               /\ \A w : w \notin Sessions /\ Free(u, q, w) => Free(s.ui, q, w)
<1> DEFINE v == [u EXCEPT !.view = snapshot.controllerId, !.seen = snapshot.version]
           h == HandleControllerChanged(v, q)
           s == Apply(u, q, snapshot)
<1>1. CASE snapshot.version < u.seen
  <2>1. s = Step(u, q)
    BY <1>1 DEF Apply
  <2>2. Calm(u, q, u, q)
    BY DEF Calm
  <2> HIDE DEF s
  <2> QED
    BY <1>1, <2>1, <2>2, StepIs DEF s
<1>2. CASE ~(snapshot.version < u.seen)
  <2>1. /\ v \in Renderer /\ v.view = snapshot.controllerId /\ v.seen = snapshot.version
        /\ v.callers = u.callers /\ v.leases = u.leases /\ v.micro = u.micro /\ v.blips = u.blips
        /\ v.current = u.current /\ v.subscribed = u.subscribed
    <3>1. /\ u \in Renderer /\ snapshot.controllerId \in Clients \cup {None}
          /\ snapshot.version \in Nat \cup {-1}
      BY DEF Sound, ControllerSnapshot
    <3> QED
      BY <3>1 DEF Renderer
  <2>2. s = IF snapshot.controllerId = u.view THEN Step(v, q) ELSE h
    BY <1>2 DEF Apply
  <2> HIDE DEF v, s
  <2>3. Sound(v, q, fr) /\ \A w : Free(u, q, w) => Free(v, q, w)
    <3> DEFINE S == {}
    <3>1. S \in SUBSET Callers /\ (\A d \in S : Free(u, q, d))
          /\ (\A d \in Callers \ S : v.callers[d] = u.callers[d])
      BY <2>1
    <3>2. \A j \in 1 .. MaxLeases : Like(u, v, j)
      BY <2>1 DEF Like
    <3>3. Refers(v) /\ Heeds(v)
      BY <2>1 DEF Sound, Refers, Heeds
    <3> HIDE DEF S
    <3> QED
      BY <2>1, <3>1, <3>2, <3>3, Moves
  <2>4. Calm(u, q, v, q)
    BY <2>1 DEF Calm, Marked
  <2>5. CASE snapshot.controllerId = u.view
    <3>1. Believes(v)
      BY <2>1, <2>5 DEF Believes
    <3> QED
      BY <1>2, <2>1, <2>2, <2>3, <2>4, <2>5, <3>1, StepIs DEF s
  <2>6. CASE snapshot.controllerId # u.view
    <3>1. /\ Leads(v, q, h, fr) /\ h.calls = q /\ Believes(h.ui)
          /\ \A w : w \notin Sessions /\ Free(v, q, w) => Free(h.ui, q, w)
      BY <2>3, ChangedLeads
    <3> HIDE DEF h
    <3>2. Keeps(v, q, h.ui, q) /\ Sound(h.ui, q, fr)
      BY <2>1, <3>1, OnwardKeeps DEF Leads
    <3>3. Calm(u, q, h.ui, q) /\ h.ui.view = v.view /\ h.ui.seen = v.seen
      BY <2>4, <3>2, CalmAgain DEF Keeps
    <3> QED
      BY <1>2, <2>1, <2>2, <2>3, <2>6, <3>1, <3>2, <3>3 DEF s
  <2> QED
    BY <2>5, <2>6
<1> QED
  BY <1>1, <1>2

-----------------------------------------------------------------------------
(* Requests whose stage changes, and frames. *)

\* Sound looks at requests through their names, their stages and what is on its way.
LEMMA Repost ==
    ASSUME NEW u, NEW q, NEW fr, Sound(u, q, fr), NEW p \in Requests, NEW gr \in Seq(Received),
           DOMAIN p.wait = DOMAIN q.wait,
           \A w \in DOMAIN q.wait : Awaits(u, w, q.wait[w]) => Awaits(u, w, p.wait[w]),
           Posted(p, gr)
    PROVE  /\ Sound(u, p, gr) /\ Calm(u, q, u, p) /\ Keeps(u, q, u, p)
           /\ \A w : Free(u, q, w) => Free(u, p, w)
<1>1. u \in Renderer /\ Lined(u, q)
  BY DEF Sound
<1>2. \A e : Stands(u, q, e) => Stands(u, p, e)
  BY DEF Stands
<1>3. \A i \in 1 .. MaxLeases : Gathered(u, p, i)
  BY <1>1, <1>2 DEF Lined, Gathered
<1>4. Lined(u, p)
  BY <1>1, <1>2, <1>3 DEF Lined
<1> QED
  BY <1>4 DEF Sound, Calm, Keeps, Free

\* The stage of a request changes that is on no way.
LEMMA Restages ==
    ASSUME NEW u, NEW q, NEW fr, Sound(u, q, fr), NEW w \in DOMAIN q.wait, Unposted(q, fr, w),
           NEW r \in Awaited, r.op = q.wait[w].op, r.lease = q.wait[w].lease, r.mode = q.wait[w].mode,
           r.stage \notin {"sent", "lost"} => r.op = "acquire" /\ r.mode # "skip"
    PROVE  /\ Sound(u, Await(q, w, r), fr) /\ Keeps(u, q, u, Await(q, w, r))
           /\ \A x : Free(u, q, x) => Free(u, Await(q, w, r), x)
<1> DEFINE p == Await(q, w, r)
<1>1. q \in Requests /\ Posted(q, fr) /\ fr \in Seq(Received) /\ w \in Whos
  BY TableTyping DEF Sound
<1>2. /\ p \in Requests /\ p.line = q.line /\ DOMAIN p.wait = DOMAIN q.wait /\ p.wait[w] = r
      /\ \A x \in DOMAIN q.wait \ {w} : p.wait[x] = q.wait[x]
  <2>1. /\ p \in Requests /\ p.line = q.line /\ DOMAIN p.wait = DOMAIN q.wait \cup {w}
        /\ p.wait[w] = r /\ \A x \in DOMAIN q.wait \ {w} : p.wait[x] = q.wait[x]
    BY <1>1, AwaitIs
  <2>2. DOMAIN q.wait \cup {w} = DOMAIN q.wait
    OBVIOUS
  <2> HIDE DEF p
  <2> QED
    BY <2>1, <2>2
<1> HIDE DEF p
<1>3. \A x \in DOMAIN q.wait : Awaits(u, x, q.wait[x]) => Awaits(u, x, p.wait[x])
  <2> SUFFICES ASSUME NEW x \in DOMAIN q.wait, Awaits(u, x, q.wait[x]) PROVE Awaits(u, x, p.wait[x])
    OBVIOUS
  <2>1. CASE x # w
    BY <1>2, <2>1
  <2>2. CASE x = w
    BY <1>2, <2>2 DEF Awaits
  <2> QED
    BY <2>1, <2>2
<1>4. Posted(p, fr)
  <2>1. \A m \in Range(q.line) : m.who # w
    BY DEF Unposted, Names
  <2>2. w \notin Answering(fr)
    BY DEF Unposted
  <2> QED
    BY <1>1, <1>2, <2>1, <2>2 DEF Posted
<1> QED
  BY <1>1, <1>2, <1>3, <1>4, Repost DEF p

\* A request is sent again that was not on its way.
LEMMA Resends ==
    ASSUME NEW u, NEW q, NEW fr, Sound(u, q, fr), NEW w \in DOMAIN q.wait, Unposted(q, fr, w),
           NEW r \in Awaited, r.op = q.wait[w].op, r.lease = q.wait[w].lease, r.mode = q.wait[w].mode,
           r.stage = "sent"
    PROVE  Sound(u, Send(q, w, r), fr) /\ Keeps(u, q, u, Send(q, w, r))
<1> DEFINE p == Send(q, w, r)
           m == Message(w, r)
<1>1. q \in Requests /\ Posted(q, fr) /\ fr \in Seq(Received) /\ w \in Whos /\ q.line \in Seq(Posting)
  BY TableTyping DEF Sound
<1>2. /\ p \in Requests /\ p.line = Append(q.line, m) /\ DOMAIN p.wait = DOMAIN q.wait /\ p.wait[w] = r
      /\ \A x \in DOMAIN q.wait \ {w} : p.wait[x] = q.wait[x]
      /\ m \in Posting /\ m.who = w /\ m.op = r.op
  <2>1. /\ p \in Requests /\ p.line = Append(q.line, m) /\ DOMAIN p.wait = DOMAIN q.wait \cup {w}
        /\ p.wait[w] = r /\ \A x \in DOMAIN q.wait \ {w} : p.wait[x] = q.wait[x]
        /\ m \in Posting /\ m.who = w /\ m.op = r.op
    BY <1>1, SendIs
  <2>2. DOMAIN q.wait \cup {w} = DOMAIN q.wait
    OBVIOUS
  <2> HIDE DEF p, m
  <2> QED
    BY <2>1, <2>2
<1> HIDE DEF p, m
<1>3. \A x \in DOMAIN q.wait : Awaits(u, x, q.wait[x]) => Awaits(u, x, p.wait[x])
  <2> SUFFICES ASSUME NEW x \in DOMAIN q.wait, Awaits(u, x, q.wait[x]) PROVE Awaits(u, x, p.wait[x])
    OBVIOUS
  <2>1. CASE x # w
    BY <1>2, <2>1
  <2>2. CASE x = w
    BY <1>2, <2>2 DEF Awaits
  <2> QED
    BY <2>1, <2>2
<1>4. Posted(p, fr)
  <2>1. /\ \A n \in Range(q.line) : n.who # w
        /\ w \notin Answering(fr) /\ w \notin Names(q.line)
    BY DEF Unposted, Names
  <2>2. /\ Range(p.line) = Range(q.line) \cup {m} /\ Names(p.line) = Names(q.line) \cup {w}
        /\ Once(q.line) => Once(p.line)
    BY <1>1, <1>2, <2>1, NamesAppend
  <2>3. /\ Once(p.line) /\ AnsweredOnce(fr) /\ Names(p.line) \cap Answering(fr) = {}
    BY <1>1, <2>1, <2>2 DEF Posted
  <2>4. \A n \in Range(p.line) :
           n.who \in DOMAIN p.wait /\ p.wait[n.who].stage = "sent" /\ p.wait[n.who].op = n.op
    BY <1>1, <1>2, <2>1, <2>2 DEF Posted
  <2>5. \A x \in Answering(fr) : x \in DOMAIN p.wait /\ p.wait[x].stage = "sent"
    BY <1>1, <1>2, <2>1 DEF Posted
  <2> QED
    BY <2>3, <2>4, <2>5 DEF Posted
<1> QED
  BY <1>1, <1>2, <1>3, <1>4, Repost DEF p

\* The first frame is received.
LEMMA TailSound ==
    ASSUME NEW u, NEW q, NEW fr, Sound(u, q, fr), fr # <<>>
    PROVE  /\ Sound(u, q, Tail(fr)) /\ Head(fr) \in Received
           /\ Head(fr).kind = "answer" =>
                 Head(fr).who \in DOMAIN q.wait /\ Unposted(q, Tail(fr), Head(fr).who)
<1>1. q \in Requests /\ Posted(q, fr) /\ fr \in Seq(Received)
  BY DEF Sound
<1>2. /\ Tail(fr) \in Seq(Received) /\ Len(fr) \in Nat \ {0} /\ Len(Tail(fr)) = Len(fr) - 1
      /\ \A n \in 1 .. Len(fr) - 1 : Tail(fr)[n] = fr[n + 1] /\ n + 1 \in 1 .. Len(fr) /\ n + 1 # 1
      /\ Head(fr) = fr[1] /\ Head(fr) \in Received /\ 1 \in 1 .. Len(fr)
      /\ DOMAIN fr = 1 .. Len(fr) /\ DOMAIN Tail(fr) = 1 .. Len(fr) - 1
  BY <1>1, EmptySeq
<1>3. Range(Tail(fr)) \subseteq Range(fr) /\ Head(fr) \in Range(fr)
  BY <1>2 DEF Range
<1>4. Answering(Tail(fr)) \subseteq Answering(fr)
  BY <1>3 DEF Answering, Answers
<1>5. AnsweredOnce(Tail(fr))
  <2> SUFFICES ASSUME NEW m \in 1 .. Len(fr) - 1, NEW n \in 1 .. Len(fr) - 1,
                      Tail(fr)[m].kind = "answer", Tail(fr)[n].kind = "answer",
                      Tail(fr)[m].who = Tail(fr)[n].who
               PROVE  m = n
    BY <1>2 DEF AnsweredOnce
  <2>1. m + 1 = n + 1
    BY <1>1, <1>2 DEF Posted, AnsweredOnce
  <2> QED
    BY <2>1
<1>6. Posted(q, Tail(fr))
  BY <1>1, <1>4, <1>5 DEF Posted
<1>7. Sound(u, q, Tail(fr))
  BY <1>2, <1>6 DEF Sound
<1>8. ASSUME Head(fr).kind = "answer"
      PROVE  Head(fr).who \in DOMAIN q.wait /\ Unposted(q, Tail(fr), Head(fr).who)
  <2>1. Head(fr).who \in Answering(fr)
    BY <1>3, <1>8 DEF Answering, Answers
  <2>2. Head(fr).who \in DOMAIN q.wait /\ Head(fr).who \notin Names(q.line)
    BY <1>1, <2>1 DEF Posted
  <2>3. ASSUME NEW n \in 1 .. Len(fr) - 1, Tail(fr)[n].kind = "answer"
        PROVE  Tail(fr)[n].who # Head(fr).who
    BY <1>1, <1>2, <1>8, <2>3 DEF Posted, AnsweredOnce
  <2>4. Head(fr).who \notin Answering(Tail(fr))
    BY <1>2, <2>3 DEF Answering, Answers, Range
  <2> QED
    BY <2>2, <2>4 DEF Unposted
<1> QED
  BY <1>2, <1>7, <1>8

\* A frame follows that is no answer.
LEMMA AppendSound ==
    ASSUME NEW u, NEW q, NEW fr, Sound(u, q, fr), NEW f \in Received, f.kind # "answer"
    PROVE  Sound(u, q, Append(fr, f)) /\ Answering(Append(fr, f)) = Answering(fr)
<1>1. q \in Requests /\ Posted(q, fr) /\ fr \in Seq(Received)
  BY DEF Sound
<1>2. /\ Append(fr, f) \in Seq(Received) /\ Len(fr) \in Nat /\ Len(Append(fr, f)) = Len(fr) + 1
      /\ \A n \in 1 .. Len(fr) : Append(fr, f)[n] = fr[n]
      /\ Append(fr, f)[Len(fr) + 1] = f
  BY <1>1
<1>3. Range(Append(fr, f)) = Range(fr) \cup {f}
  BY <1>1, NamesAppend
<1>4. Answering(Append(fr, f)) = Answering(fr)
  BY <1>3 DEF Answering, Answers
<1>5. \A n \in 1 .. Len(fr) + 1 : Append(fr, f)[n].kind = "answer" => n \in 1 .. Len(fr)
  BY <1>2
<1>6. AnsweredOnce(Append(fr, f))
  BY <1>1, <1>2, <1>5 DEF Posted, AnsweredOnce
<1>7. Posted(q, Append(fr, f))
  BY <1>1, <1>4, <1>6 DEF Posted
<1> QED
  BY <1>2, <1>4, <1>7 DEF Sound

\* The first request in the line is answered.
LEMMA ServeSound ==
    ASSUME NEW u, NEW q, NEW fr, Sound(u, q, fr), q.line # <<>>,
           NEW f \in Received, f.kind = "answer", f.who = Head(q.line).who
    PROVE  Sound(u, [q EXCEPT !.line = Tail(@)], Append(fr, f))
<1> DEFINE p == [q EXCEPT !.line = Tail(@)]
<1>1. q \in Requests /\ Posted(q, fr) /\ fr \in Seq(Received) /\ q.line \in Seq(Posting)
  BY TableTyping DEF Sound
<1>2. /\ Tail(q.line) \in Seq(Posting) /\ Head(q.line) \in Posting /\ Head(q.line) \in Range(q.line)
      /\ Range(Tail(q.line)) \subseteq Range(q.line) /\ Names(Tail(q.line)) \subseteq Names(q.line)
      /\ Once(Tail(q.line)) /\ f.who \notin Names(Tail(q.line))
  BY <1>1, NamesTail DEF Posted
<1>3. p \in Requests /\ p.wait = q.wait /\ p.line = Tail(q.line)
  BY <1>1, <1>2 DEF Requests
<1> HIDE DEF p
<1>4. /\ f.who \in DOMAIN q.wait /\ q.wait[f.who].stage = "sent" /\ f.who \in Names(q.line)
  BY <1>1, <1>2 DEF Posted, Names
<1>5. f.who \notin Answering(fr)
  BY <1>1, <1>4 DEF Posted
<1>6. /\ Append(fr, f) \in Seq(Received) /\ Len(fr) \in Nat /\ Len(Append(fr, f)) = Len(fr) + 1
      /\ \A n \in 1 .. Len(fr) : Append(fr, f)[n] = fr[n] /\ fr[n] \in Range(fr)
      /\ Append(fr, f)[Len(fr) + 1] = f
  BY <1>1 DEF Range
<1>7. Range(Append(fr, f)) = Range(fr) \cup {f}
  BY <1>1, NamesAppend
<1>8. Answering(Append(fr, f)) = Answering(fr) \cup {f.who}
  BY <1>7 DEF Answering, Answers
<1>9. \A n \in 1 .. Len(fr) : fr[n].kind = "answer" => fr[n].who # f.who
  BY <1>5, <1>6 DEF Answering, Answers
<1>10. \A n \in 1 .. Len(fr) + 1 : n \in 1 .. Len(fr) \/ n = Len(fr) + 1
  BY <1>6
<1>11. AnsweredOnce(Append(fr, f))
  BY <1>1, <1>6, <1>9, <1>10 DEF Posted, AnsweredOnce
<1>12. Posted(p, Append(fr, f))
  BY <1>1, <1>2, <1>3, <1>4, <1>8, <1>11 DEF Posted
<1>13. \A w \in DOMAIN q.wait : Awaits(u, w, q.wait[w]) => Awaits(u, w, p.wait[w])
  BY <1>3
<1> QED
  BY <1>3, <1>6, <1>12, <1>13, Repost DEF p

-----------------------------------------------------------------------------
(* Answers. *)

\* What an event leads to: what is believed may change.
Lands(u, q, s, fr) == Sound(s.ui, s.calls, fr) /\ Calm(u, q, s.ui, s.calls) /\ Believes(s.ui)

\* A snapshot is believed or changes nothing.
Learns(u, v, snapshot) ==
    \/ v.view = u.view /\ v.seen = u.seen
    \/ /\ ~(snapshot.version < u.seen)
       /\ v.view = snapshot.controllerId /\ v.seen = snapshot.version

LEMMA LandsAgain ==
    ASSUME NEW u, NEW q, NEW v, NEW p, NEW s, NEW fr, NEW snapshot,
           Calm(u, q, v, p), Believes(v), Learns(u, v, snapshot), v \in Renderer, p \in Requests,
           \/ Leads(v, p, s, fr)
           \/ \E w : Leads(v, Forget(p, w), s, fr)
           \/ Sound(s.ui, s.calls, fr) /\ Keeps(v, p, s.ui, s.calls)
    PROVE  Lands(u, q, s, fr) /\ Learns(u, s.ui, snapshot)
<1>1. Sound(s.ui, s.calls, fr) /\ Keeps(v, p, s.ui, s.calls)
  BY OnwardKeeps, ForgetKeeps DEF Leads
<1> QED
  BY <1>1, CalmAgain DEF Lands, Learns, Keeps

LEMMA AcquireAnsweredLands ==
    ASSUME NEW u, NEW q, NEW fr, Sound(u, q, fr), Believes(u), NEW w \in DOMAIN q.wait,
           q.wait[w].op = "acquire", Unposted(q, fr, w), NEW answer \in Received
    PROVE  LET s == AcquireAnswered(u, q, w, answer)
           IN  Lands(u, q, s, fr) /\ Learns(u, s.ui, answer.snapshot)
<1> DEFINE s == AcquireAnswered(u, q, w, answer)
           a == Apply(u, q, answer.snapshot)
           v == a.ui
           stage == IF up THEN "asking" ELSE "confirming"
           r == [q.wait[w] EXCEPT !.stage = stage]
           won == Ensured(v, q, w, "yes", answer.generation)
           lost == Ensured(v, q, w, "no", 0)
           kept == Step(v, Await(q, w, r))
           snapshot == answer.snapshot
           generation == answer.generation
<1>1. /\ snapshot \in ControllerSnapshot /\ generation \in 0 .. MaxGeneration /\ 0 \in 0 .. MaxGeneration
      /\ answer.kind # "failure"
  BY HoldAssumption DEF Received
<1>2. q \in Requests /\ q.wait[w] \in Awaited
  BY TableTyping DEF Sound
<1>3. /\ Sound(v, q, fr) /\ a.calls = q /\ Calm(u, q, v, q) /\ Believes(v)
      /\ snapshot.version < u.seen => v.view = u.view /\ v.seen = u.seen
      /\ ~(snapshot.version < u.seen) => v.view = snapshot.controllerId /\ v.seen = snapshot.version
  <2> HIDE DEF snapshot
  <2> QED
    BY <1>1, ApplyLeads DEF snapshot
<1>4. \/ s = won \/ s = lost
      \/ s = kept /\ q.wait[w].mode # "skip"
  BY <1>1, <1>3 DEF AcquireAnswered, Failed
<1> HIDE DEF a
<1>5. v \in Renderer /\ Learns(u, v, snapshot)
  BY <1>3 DEF Sound, Learns
<1> HIDE DEF v, snapshot
<1>6. Leads(v, Forget(q, w), won, fr)
  <2> DEFINE outcome == "yes"
  <2>1. outcome \in Outcomes
    BY DEF Outcomes
  <2> HIDE DEF outcome, generation
  <2>2. Leads(v, Forget(q, w), Ensured(v, q, w, outcome, generation), fr)
    BY <1>1, <1>3, <2>1, EnsuredLeads
  <2> QED
    BY <2>2 DEF outcome, generation
<1>7. Leads(v, Forget(q, w), lost, fr)
  <2> DEFINE outcome == "no"
  <2>1. outcome \in Outcomes
    BY DEF Outcomes
  <2> HIDE DEF outcome
  <2>2. Leads(v, Forget(q, w), Ensured(v, q, w, outcome, 0), fr)
    BY <1>1, <1>3, <2>1, EnsuredLeads
  <2> QED
    BY <2>2 DEF outcome
<1>8. ASSUME q.wait[w].mode # "skip"
      PROVE  Sound(v, Await(q, w, r), fr) /\ Keeps(v, q, v, Await(q, w, r))
  <2>1. /\ r \in Awaited /\ r.op = q.wait[w].op /\ r.lease = q.wait[w].lease
        /\ r.mode = q.wait[w].mode
    <3>1. stage \in {"sent", "lost", "asking", "approved", "confirming"}
      OBVIOUS
    <3> HIDE DEF stage
    <3> QED
      BY <1>2, <3>1 DEF Awaited
  <2> HIDE DEF r
  <2> QED
    BY <1>3, <1>8, <2>1, Restages
<1> HIDE DEF won, lost, s
<1>9. CASE s = won
  BY <1>2, <1>3, <1>5, <1>6, <1>9, LandsAgain DEF s, snapshot
<1>10. CASE s = lost
  BY <1>2, <1>3, <1>5, <1>7, <1>10, LandsAgain DEF s, snapshot
<1>11. CASE s = kept /\ q.wait[w].mode # "skip"
  <2>1. s.ui = v /\ s.calls = Await(q, w, r)
    BY <1>11, StepIs
  <2> HIDE DEF r, kept
  <2> QED
    BY <1>2, <1>3, <1>5, <1>8, <1>11, <2>1, LandsAgain DEF s, snapshot
<1> QED
  BY <1>4, <1>9, <1>10, <1>11

LEMMA RenewAnsweredLands ==
    ASSUME NEW u, NEW q, NEW fr, Sound(u, q, fr), Believes(u), NEW w \in DOMAIN q.wait,
           q.wait[w].op = "renew", Unposted(q, fr, w), NEW answer \in Received
    PROVE  LET s == RenewAnswered(u, q, w, answer)
           IN  Lands(u, q, s, fr) /\ Learns(u, s.ui, answer.snapshot)
<1> DEFINE s == RenewAnswered(u, q, w, answer)
           p == Forget(q, w)
           a == Apply(u, p, answer.snapshot)
           v == a.ui
           stopped == ClearTimer(v)
           snapshot == answer.snapshot
<1>1. snapshot \in ControllerSnapshot
  BY DEF Received
<1>2. Sound(u, p, fr)
  <2>1. \A i \in 1 .. MaxLeases : w # Acquirer(i)
    BY DEF Sound, Lined, Awaits
  <2> QED
    BY <2>1, Forgets
<1>3. Calm(u, q, u, p) /\ p \in Requests /\ u \in Renderer
  <2>1. DOMAIN p.wait = DOMAIN q.wait \ {w}
    BY ForgetIs DEF Sound
  <2> HIDE DEF p
  <2> QED
    BY <1>2, <2>1 DEF Calm, Sound
<1> HIDE DEF p
<1>4. /\ Sound(v, p, fr) /\ a.calls = p /\ Calm(u, p, v, p) /\ Believes(v)
      /\ snapshot.version < u.seen => v.view = u.view /\ v.seen = u.seen
      /\ ~(snapshot.version < u.seen) => v.view = snapshot.controllerId /\ v.seen = snapshot.version
  <2> HIDE DEF snapshot
  <2> QED
    BY <1>1, <1>2, ApplyLeads DEF snapshot
<1>5. s \in {Step(u, p), Step(stopped, a.calls), a}
  BY DEF RenewAnswered, p
<1> HIDE DEF a, s
<1>6. Learns(u, v, snapshot) /\ Calm(u, q, v, p) /\ v \in Renderer
  BY <1>3, <1>4, CalmAgain DEF Learns, Sound
<1> HIDE DEF v, snapshot
<1>7. CASE s = Step(u, p)
  BY <1>2, <1>3, <1>7, StepIs DEF Lands, Learns, s
<1>8. CASE s = Step(stopped, a.calls)
  <2>1. Eased(v, stopped)
    BY <1>6, EasedStop
  <2> HIDE DEF stopped
  <2>2. Leads(v, p, s, fr)
    BY <1>4, <1>8, <2>1, EasedLeads, StepIs DEF Leads
  <2> QED
    BY <1>3, <1>4, <1>6, <2>2, LandsAgain DEF s, snapshot
<1>9. CASE s = a
  BY <1>4, <1>6, <1>9 DEF v, Lands, s, snapshot
<1> QED
  BY <1>5, <1>7, <1>8, <1>9

\* A release that came back, or will not: its caller rests.
LEMMA ReleaseEnds ==
    ASSUME NEW u, NEW q, NEW fr, Sound(u, q, fr), NEW w \in DOMAIN q.wait,
           q.wait[w].op = "release", Unposted(q, fr, w)
    PROVE  LET p == Forget(q, w)
               v == IF w \in Callers THEN Rest(u, w) ELSE u
           IN  /\ Sound(v, p, fr) /\ Onward(u, p, v, p) /\ q.wait[w].lease \in 1 .. MaxLeases
               /\ v.view = u.view /\ v.seen = u.seen
<1> DEFINE p == Forget(q, w)
           v == IF w \in Callers THEN Rest(u, w) ELSE u
           r == q.wait[w]
<1>1. u \in Renderer /\ q \in Requests /\ Refers(u)
  BY DEF Sound
<1>2. w \in Whos /\ r \in Awaited /\ Awaits(u, w, r)
  BY <1>1, TableTyping DEF Sound, Lined
<1>3. /\ \A i \in 1 .. MaxLeases : w # Acquirer(i)
      /\ \A b \in Nat : w # Reclaimer(b)
      /\ w # Renewer
  BY <1>2 DEF Awaits
<1>4. /\ Sound(u, p, fr)
      /\ w \in Callers => Free(u, p, w)
  BY <1>3, Forgets
<1>5. CASE w \in Callers
  <2>1. r.lease = u.callers[w].lease /\ u.callers[w].at = "releasing"
    BY <1>2, <1>5 DEF Awaits
  <2>2. u.callers[w].lease # 0 /\ u.callers[w] \in Caller
    BY <1>1, <1>5, <2>1 DEF Refers, Renderer
  <2>3. r.lease \in 1 .. MaxLeases
    BY <2>1, <2>2, HoldAssumption DEF Caller
  <2>4. Sound(Rest(u, w), p, fr) /\ Onward(u, p, Rest(u, w), p)
    BY <1>4, <1>5, <2>2, Rests
  <2> HIDE DEF p
  <2> QED
    BY <1>5, <2>3, <2>4 DEF Onward, p
<1>6. CASE w \notin Callers
  <2>1. PICK i \in 1 .. MaxLeases : w = Remover(i)
    BY <1>2, <1>3, <1>6 DEF Whos
  <2>2. r.lease \in 1 .. MaxLeases
    BY <1>2, <2>1 DEF Awaits
  <2>3. Sound(u, p, fr) /\ Onward(u, p, u, p)
    BY <1>4, StayLeads
  <2> HIDE DEF p
  <2> QED
    BY <1>6, <2>2, <2>3 DEF p
<1> QED
  BY <1>5, <1>6

LEMMA ReleaseAnsweredLands ==
    ASSUME NEW u, NEW q, NEW fr, Sound(u, q, fr), Believes(u), NEW w \in DOMAIN q.wait,
           q.wait[w].op = "release", Unposted(q, fr, w), NEW answer \in Received \cup {Failure},
           NEW snapshot, answer # Failure => snapshot = answer.snapshot
    PROVE  LET s == ReleaseAnswered(u, q, w, answer)
           IN  /\ Lands(u, q, s, fr) /\ Learns(u, s.ui, snapshot)
               /\ answer = Failure => s.ui.view = u.view /\ s.ui.seen = u.seen
<1> DEFINE s == ReleaseAnswered(u, q, w, answer)
           i == q.wait[w].lease
           p == Forget(q, w)
           rested == IF w \in Callers THEN Rest(u, w) ELSE u
           a == IF Failed(answer) THEN Step(rested, p) ELSE Apply(rested, p, answer.snapshot)
           v == a.ui
           held == [v EXCEPT !.leases[i].hold = 1]
           started == IF v.leases[i].timer THEN held ELSE StartTimer(held, i)
<1>1. /\ Sound(rested, p, fr) /\ Onward(u, p, rested, p) /\ i \in 1 .. MaxLeases
      /\ rested.view = u.view /\ rested.seen = u.seen
  BY ReleaseEnds
<1>2. u \in Renderer /\ q \in Requests /\ p \in Requests /\ rested \in Renderer
  BY <1>1 DEF Sound
<1>3. Keeps(u, q, rested, p) /\ Believes(rested)
  BY <1>1, <1>2, ForgetKeeps DEF Keeps
<1>4. Failed(answer) = (answer = Failure)
  BY DEF Failed, Failure, Received
<1>5. s \in {Step(rested, p), Step(Cleanup(v, i), a.calls), a, Step(started, a.calls)}
  BY DEF ReleaseAnswered
<1> HIDE DEF p, rested, i
<1>6. /\ Sound(v, p, fr) /\ a.calls = p /\ Calm(u, q, v, p) /\ Believes(v) /\ v \in Renderer
      /\ Learns(u, v, snapshot)
      /\ answer = Failure => v.view = u.view /\ v.seen = u.seen
  <2>1. CASE answer = Failure
    <3>1. a = Step(rested, p)
      BY <1>4, <2>1
    <3> HIDE DEF a
    <3>2. v = rested /\ a.calls = p
      BY <3>1, StepIs
    <3> QED
      BY <1>1, <1>2, <1>3, <2>1, <3>2 DEF Keeps, Learns
  <2>2. CASE answer # Failure
    <3>1. answer \in Received /\ snapshot \in ControllerSnapshot /\ snapshot = answer.snapshot
      BY <2>2 DEF Received
    <3>2. a = Apply(rested, p, snapshot)
      BY <1>4, <2>2, <3>1
    <3> HIDE DEF a
    <3>3. /\ Sound(v, p, fr) /\ a.calls = p /\ Calm(rested, p, v, p) /\ Believes(v)
          /\ snapshot.version < rested.seen => v.view = rested.view /\ v.seen = rested.seen
          /\ ~(snapshot.version < rested.seen) =>
                v.view = snapshot.controllerId /\ v.seen = snapshot.version
      BY <1>1, <1>3, <3>1, <3>2, ApplyLeads
    <3>4. Calm(u, q, v, p)
      BY <1>3, <3>3, CalmAgain DEF Keeps
    <3> HIDE DEF v
    <3> QED
      BY <1>1, <2>2, <3>3, <3>4 DEF Learns, Sound
  <2> QED
    BY <2>1, <2>2
<1> HIDE DEF a, s
<1>7. CASE s = Step(rested, p)
  <2>1. s.ui = rested /\ s.calls = p
    BY <1>7, StepIs
  <2>2. Lands(u, q, s, fr) /\ Learns(u, s.ui, snapshot)
    BY <1>1, <1>3, <2>1 DEF Lands, Learns, Keeps
  <2> QED
    BY <1>1, <2>1, <2>2 DEF s
<1>8. CASE s = a
  BY <1>6, <1>8 DEF Lands, v, s
<1> HIDE DEF v
<1>9. CASE s = Step(Cleanup(v, i), a.calls)
  <2>1. Leads(v, p, Step(Cleanup(v, i), p), fr)
    BY <1>6, Cleans
  <2> DEFINE t == Step(Cleanup(v, i), p)
  <2>2. t.ui.view = v.view /\ t.ui.seen = v.seen
    BY <2>1 DEF Leads, Onward
  <2>3. s = t
    BY <1>6, <1>9
  <2>4. Leads(v, p, t, fr)
    BY <2>1
  <2> HIDE DEF t
  <2>5. Lands(u, q, s, fr) /\ Learns(u, s.ui, snapshot)
    BY <1>2, <1>6, <2>3, <2>4, LandsAgain
  <2> QED
    BY <1>6, <2>2, <2>3, <2>5 DEF s
<1>10. CASE s = Step(started, a.calls)
  <2>1. Eased(v, held)
    <3> DEFINE h == 1
    <3>1. h \in 0 .. MaxHolds
      BY HoldAssumption
    <3> HIDE DEF h
    <3>2. Eased(v, [v EXCEPT !.leases[i].hold = h])
      BY <1>1, <1>6, <3>1, EasedOps
    <3> QED
      BY <3>2 DEF h
  <2> HIDE DEF held
  <2>2. Eased(v, started)
    <3>1. held \in Renderer
      BY <2>1 DEF Eased
    <3>2. Eased(held, StartTimer(held, i))
      BY <1>1, <3>1, EasedOps
    <3>3. Eased(held, held)
      BY <3>1, EasedStop
    <3>4. Eased(held, started)
      BY <3>2, <3>3
    <3> QED
      BY <2>1, <3>4, EasedTwice
  <2> HIDE DEF started
  <2> DEFINE t == Step(started, p)
  <2>3. t.ui = started /\ t.calls = p
    BY StepIs
  <2>4. s = t
    BY <1>6, <1>10
  <2> HIDE DEF t
  <2>5. Leads(v, p, t, fr) /\ t.ui.view = v.view /\ t.ui.seen = v.seen
    BY <1>6, <2>2, <2>3, EasedLeads DEF Leads, Eased
  <2>6. Lands(u, q, s, fr) /\ Learns(u, s.ui, snapshot)
    BY <1>2, <1>6, <2>4, <2>5, LandsAgain
  <2> QED
    BY <1>6, <2>4, <2>5, <2>6 DEF s
<1> QED
  BY <1>5, <1>7, <1>8, <1>9, <1>10

LEMMA AnsweredLands ==
    ASSUME NEW u, NEW q, NEW fr, Sound(u, q, fr), Believes(u), NEW w \in DOMAIN q.wait,
           Unposted(q, fr, w), NEW answer \in Received
    PROVE  LET s == Answered(u, q, w, answer)
           IN  Lands(u, q, s, fr) /\ Learns(u, s.ui, answer.snapshot)
<1> DEFINE s == Answered(u, q, w, answer)
           op == q.wait[w].op
<1>1. op \in {"acquire", "renew", "release"}
  BY TableTyping DEF Sound, Awaited
<1>2. CASE op = "acquire"
  <2>1. s = AcquireAnswered(u, q, w, answer)
    BY <1>2 DEF Answered
  <2> HIDE DEF s
  <2> QED
    BY <1>2, <2>1, AcquireAnsweredLands DEF s
<1>3. CASE op = "renew"
  <2>1. s = RenewAnswered(u, q, w, answer)
    BY <1>3 DEF Answered
  <2> HIDE DEF s
  <2> QED
    BY <1>3, <2>1, RenewAnsweredLands DEF s
<1>4. CASE op = "release"
  <2>1. s = ReleaseAnswered(u, q, w, answer)
    BY <1>4 DEF Answered
  <2> DEFINE snapshot == answer.snapshot
  <2>2. answer \in Received \cup {Failure} /\ (answer # Failure => snapshot = answer.snapshot)
    OBVIOUS
  <2> HIDE DEF s, snapshot
  <2>3. Lands(u, q, s, fr) /\ Learns(u, s.ui, snapshot)
    BY <1>4, <2>1, <2>2, ReleaseAnsweredLands
  <2> QED
    BY <2>3 DEF s, snapshot
<1> QED
  BY <1>1, <1>2, <1>3, <1>4

LEMMA FailureLands ==
    ASSUME NEW u, NEW q, NEW fr, Sound(u, q, fr), Believes(u), NEW w \in DOMAIN q.wait,
           Unposted(q, fr, w)
    PROVE  LET s == Answered(u, q, w, Failure)
           IN  Lands(u, q, s, fr) /\ s.ui.view = u.view /\ s.ui.seen = u.seen
<1> DEFINE s == Answered(u, q, w, Failure)
           op == q.wait[w].op
           p == Forget(q, w)
<1>1. /\ op \in {"acquire", "renew", "release"}
      /\ u \in Renderer /\ q \in Requests
  BY TableTyping DEF Sound, Awaited
<1>2. Failed(Failure)
  BY DEF Failed, Failure
<1>3. CASE op = "acquire"
  <2> DEFINE outcome == "error"
             e == Ensured(u, q, w, outcome, 0)
  <2>1. s = e
    BY <1>2, <1>3 DEF Answered, AcquireAnswered
  <2>2. outcome \in Outcomes /\ 0 \in 0 .. MaxGeneration
    BY HoldAssumption DEF Outcomes
  <2> HIDE DEF s, outcome
  <2>3. Leads(u, p, e, fr)
    BY <1>3, <2>2, EnsuredLeads
  <2> HIDE DEF e
  <2>4. Sound(s.ui, s.calls, fr) /\ Keeps(u, q, s.ui, s.calls)
    BY <1>1, <2>1, <2>3, ForgetKeeps DEF Leads
  <2> QED
    BY <2>4 DEF Lands, Keeps, s
<1>4. CASE op = "renew"
  <2>1. s = Step(u, p)
    BY <1>2, <1>4 DEF Answered, RenewAnswered
  <2>2. Sound(u, p, fr)
    <3>1. \A i \in 1 .. MaxLeases : w # Acquirer(i)
      BY <1>4 DEF Sound, Lined, Awaits
    <3> QED
      BY <3>1, Forgets
  <2>3. Keeps(u, q, u, p)
    BY <1>1, <2>2, StayLeads, ForgetKeeps
  <2>4. s.ui = u /\ s.calls = p
    BY <2>1, StepIs
  <2> HIDE DEF s, p
  <2>5. Lands(u, q, s, fr) /\ s.ui.view = u.view /\ s.ui.seen = u.seen
    BY <2>2, <2>3, <2>4 DEF Lands, Keeps
  <2> QED
    BY <2>5 DEF s
<1>5. CASE op = "release"
  <2> DEFINE answer == Failure
             t == ReleaseAnswered(u, q, w, answer)
  <2>1. s = t
    BY <1>5 DEF Answered
  <2>2. answer = Failure /\ answer \in Received \cup {Failure}
    OBVIOUS
  <2> HIDE DEF s, answer
  <2>3. Lands(u, q, t, fr) /\ t.ui.view = u.view /\ t.ui.seen = u.seen
    BY <1>5, <2>2, ReleaseAnsweredLands
  <2> HIDE DEF t
  <2> QED
    BY <2>1, <2>3 DEF s
<1> QED
  BY <1>1, <1>3, <1>4, <1>5

\* A pending decision ends without a takeover.
Declined(u, q, w) == Ensured(u, q, w, "no", 0)

\* A request that awaits a decision is an acquire of a caller or of a local lease.
LEMMA Asking ==
    ASSUME NEW u, NEW q, NEW fr, Sound(u, q, fr), NEW w \in DOMAIN q.wait,
           q.wait[w].stage \notin {"sent", "lost"}
    PROVE  /\ q.wait[w].op = "acquire" /\ q.wait[w].mode # "skip" /\ Unposted(q, fr, w)
           /\ w \in Callers \cup {Acquirer(i) : i \in 1 .. MaxLeases}
<1>1. /\ Awaits(u, w, q.wait[w]) /\ w \in Whos /\ Posted(q, fr)
  BY TableTyping DEF Sound, Lined
<1>2. Unposted(q, fr, w)
  BY <1>1 DEF Posted, Unposted, Names
<1>3. q.wait[w].op = "acquire" /\ q.wait[w].mode # "skip"
  BY <1>1 DEF Awaits
<1>4. w # Renewer /\ (\A b \in Nat : w # Reclaimer(b)) /\ \A i \in 1 .. MaxLeases : w # Remover(i)
  BY <1>1, <1>3 DEF Awaits
<1> QED
  BY <1>1, <1>2, <1>3, <1>4 DEF Whos

LEMMA DeclinedLeads ==
    ASSUME NEW u, NEW q, NEW fr, Sound(u, q, fr), NEW w \in DOMAIN q.wait,
           q.wait[w].stage \notin {"sent", "lost"}
    PROVE  LET s == Declined(u, q, w)
           IN  /\ Leads(u, Forget(q, w), s, fr) /\ Keeps(u, q, s.ui, s.calls)
               /\ s \in [ui : Renderer, calls : Requests]
<1> DEFINE outcome == "no"
           e == Ensured(u, q, w, outcome, 0)
<1>1. /\ q.wait[w].op = "acquire" /\ Unposted(q, fr, w)
      /\ w \in Callers \cup {Acquirer(i) : i \in 1 .. MaxLeases}
      /\ u \in Renderer /\ q \in Requests
  BY Asking DEF Sound
<1>2. outcome \in Outcomes /\ 0 \in 0 .. MaxGeneration
  BY HoldAssumption DEF Outcomes
<1>3. Declined(u, q, w) = e
  BY DEF Declined
<1>4. w \notin Callers => w[1] # "reclaim"
  BY <1>1 DEF Acquirer
<1>5. \E a, b : e = Step(a, b)
  BY <1>4 DEF Ensured, Refreshed, Acquired, ReleaseFailed, ReleaseToBackend
<1> HIDE DEF outcome
<1>6. Leads(u, Forget(q, w), e, fr)
  BY <1>1, <1>2, EnsuredLeads
<1>7. Keeps(u, q, e.ui, e.calls)
  BY <1>1, <1>6, ForgetKeeps DEF Leads
<1> HIDE DEF e
<1>8. e \in [ui : Renderer, calls : Requests]
  BY <1>5, <1>6 DEF Step, Leads, Sound
<1> QED
  BY <1>3, <1>6, <1>7, <1>8

\* All of the pending decisions end.
LEMMA DecisionsKeep ==
    ASSUME NEW u, NEW q, NEW fr, Sound(u, q, fr)
    PROVE  LET s == EndDecisions(u, q)
           IN  Sound(s.ui, s.calls, fr) /\ Keeps(u, q, s.ui, s.calls)
<1> DEFINE A == {w \in DOMAIN q.wait : q.wait[w].stage \in {"asking", "approved"}}
           o == SetToSeq(A)
           N == Len(o)
           step(f) == [n \in 0 .. Len(o) |->
                          IF n = 0 THEN Step(u, q)
                          ELSE Ensured(f[n - 1].ui, f[n - 1].calls, o[n], "no", 0)]
           after == CHOOSE f : f = step(f)
           D == {s \in [ui : Renderer, calls : Requests] : Sound(s.ui, s.calls, fr)}
           Stays(s, w) == w \in DOMAIN s.calls.wait /\ s.calls.wait[w] = q.wait[w]
           F == [k \in 1 .. N |-> [s \in D |->
                   IF Stays(s, o[k]) THEN Declined(s.ui, s.calls, o[k]) ELSE s]]
<1>1. /\ N \in Nat /\ \A k \in 1 .. N : o[k] \in A
      /\ \A j, k \in 1 .. N : o[j] = o[k] => j = k
  <2>1. IsFiniteSet(A)
    <3> DEFINE f == [i \in 1 .. MaxLeases |-> Acquirer(i)]
               B == {f[i] : i \in 1 .. MaxLeases}
    <3>1. \A w \in A : w \in Callers \cup {Acquirer(i) : i \in 1 .. MaxLeases}
      BY Asking
    <3>2. IsFiniteSet(1 .. MaxLeases)
      BY FS_Interval, HoldAssumption
    <3>3. IsFiniteSet(B)
      <4>1. f \in [1 .. MaxLeases -> B] /\ B = {f[i] : i \in 1 .. MaxLeases}
        OBVIOUS
      <4> HIDE DEF f, B
      <4>2. f \in Surjection(1 .. MaxLeases, B)
        BY <4>1 DEF Surjection
      <4> QED
        BY <3>2, <4>2, FS_Surjection
    <3>4. IsFiniteSet(Callers \cup B)
      BY <3>3, FS_Union, HoldAssumption
    <3>5. A \subseteq Callers \cup B
      BY <3>1
    <3> HIDE DEF B
    <3> QED
      BY <3>4, <3>5, FS_Subset
  <2> HIDE DEF A
  <2> QED
    BY <2>1, EachOnce
<1>2. EndDecisions(u, q) = after[N]
  BY DEF EndDecisions
<1>3. \A k \in 1 .. N : o[k] \in DOMAIN q.wait /\ q.wait[o[k]].stage \notin {"sent", "lost"}
  BY <1>1
<1> HIDE DEF o, N, A
<1>4. Step(u, q) \in D
  BY StepIs DEF Step, Sound
<1>5. ASSUME NEW s \in D, NEW k \in 1 .. N, Stays(s, o[k])
      PROVE  LET r == Declined(s.ui, s.calls, o[k])
             IN  /\ r \in D /\ Keeps(s.ui, s.calls, r.ui, r.calls)
                 /\ \A w \in DOMAIN s.calls.wait \ {o[k]} :
                       w \in DOMAIN r.calls.wait /\ r.calls.wait[w] = s.calls.wait[w]
  <2> DEFINE v == s.ui
             p == s.calls
             w == o[k]
             r == Declined(v, p, w)
  <2>1. Sound(v, p, fr) /\ w \in DOMAIN p.wait /\ p.wait[w].stage \notin {"sent", "lost"}
    BY <1>3, <1>5
  <2>2. p \in Requests
    BY <2>1 DEF Sound
  <2> HIDE DEF D, F, v, p, w
  <2>3. /\ Leads(v, Forget(p, w), r, fr) /\ Keeps(v, p, r.ui, r.calls)
        /\ r \in [ui : Renderer, calls : Requests]
    BY <2>1, DeclinedLeads
  <2> HIDE DEF r
  <2>4. \A x \in DOMAIN p.wait \ {w} : x \in DOMAIN r.calls.wait /\ r.calls.wait[x] = p.wait[x]
    BY <2>2, <2>3, ForgetIs DEF Leads, Onward
  <2>5. r \in D
    BY <2>3 DEF Leads, D
  <2> QED
    BY <2>3, <2>4, <2>5 DEF v, p, w, r
<1>6. F \in [1 .. N -> [D -> D]]
  <2>1. \A k \in 1 .. N : \A s \in D :
           Stays(s, o[k]) => Declined(s.ui, s.calls, o[k]) \in D
    <3> HIDE DEF D, Stays
    <3> QED
      BY <1>5
  <2> HIDE DEF D, Stays
  <2> QED
    BY <2>1
<1> HIDE DEF after
<1>7. PICK g \in [0 .. N -> D] : g[0] = Step(u, q) /\ \A k \in 1 .. N : g[k] = F[k][g[k - 1]]
  <2> HIDE DEF D, F
  <2>1. Rows(F, D, Step(u, q), N) # {}
    BY <1>1, <1>4, <1>6, IterateAlong
  <2> QED
    BY <2>1 DEF Rows
<1> DEFINE Done(n) ==
              /\ Keeps(u, q, g[n].ui, g[n].calls)
              /\ \A k \in 1 .. N : k > n => Stays(g[n], o[k])
           S == {n \in Nat : n <= N => Done(n)}
<1>8. 0 \in S
  <2>1. g[0].ui = u /\ g[0].calls = q
    BY <1>7, StepIs
  <2>2. Keeps(u, q, u, q)
    BY DEF Keeps, Calm
  <2> HIDE DEF D, F
  <2> QED
    BY <1>3, <2>1, <2>2
<1>9. ASSUME NEW n \in Nat, n + 1 <= N, Done(n)
      PROVE  Done(n + 1) /\ g[n + 1] = Declined(g[n].ui, g[n].calls, o[n + 1])
  <2> DEFINE m == n + 1
  <2>1. m \in 1 .. N /\ m - 1 = n /\ n \in 0 .. N /\ g[n] \in D /\ m > n
    BY <1>1, <1>7, <1>9
  <2>2. Stays(g[n], o[m])
    BY <1>9, <2>1
  <2>3. g[m] = Declined(g[n].ui, g[n].calls, o[m])
    <3> HIDE DEF D, Stays, m
    <3> QED
      BY <1>7, <2>1, <2>2
  <2>4. /\ Keeps(g[n].ui, g[n].calls, g[m].ui, g[m].calls)
        /\ \A w \in DOMAIN g[n].calls.wait \ {o[m]} :
              w \in DOMAIN g[m].calls.wait /\ g[m].calls.wait[w] = g[n].calls.wait[w]
    <3> HIDE DEF D, F, Stays, m
    <3> QED
      BY <1>5, <2>1, <2>2, <2>3
  <2>5. Keeps(u, q, g[m].ui, g[m].calls)
    BY <1>9, <2>4, KeepsAgain
  <2>6. ASSUME NEW k \in 1 .. N, k > m PROVE Stays(g[m], o[k])
    <3>1. k > n /\ k # m
      BY <1>1, <2>6
    <3>2. Stays(g[n], o[k]) /\ o[k] # o[m]
      BY <1>1, <1>9, <2>1, <3>1
    <3> HIDE DEF m
    <3> QED
      BY <2>4, <3>2
  <2> QED
    BY <2>3, <2>5, <2>6
<1> HIDE DEF D, F, Done, step
<1>10. ASSUME NEW n \in Nat, n \in S PROVE n + 1 \in S
  <2> SUFFICES ASSUME n + 1 <= N PROVE Done(n + 1)
    OBVIOUS
  <2>1. n <= N
    BY <1>1
  <2>2. Done(n)
    BY <2>1, <1>10
  <2> QED
    BY <2>2, <1>9
<1>11. \A n \in 0 .. N : Done(n)
  <2> HIDE DEF S
  <2>1. Nat \subseteq S
    BY <1>8, <1>10, NaturalsByStep
  <2> QED
    BY <2>1, <1>1 DEF S
<1>12. \A n \in 0 .. N : n # 0 => g[n] = Declined(g[n - 1].ui, g[n - 1].calls, o[n])
  <2> SUFFICES ASSUME NEW n \in 0 .. N, n # 0
               PROVE  g[n] = Declined(g[n - 1].ui, g[n - 1].calls, o[n])
    OBVIOUS
  <2>1. n - 1 \in Nat /\ (n - 1) + 1 <= N /\ n - 1 \in 0 .. N /\ (n - 1) + 1 = n
    BY <1>1
  <2> QED
    BY <2>1, <1>9, <1>11
<1>13. g = step(g)
  BY <1>7, <1>12 DEF step, N, Declined
<1>14. after = step(after)
  BY <1>13 DEF after
<1>15. /\ after[0] = Step(u, q)
       /\ \A n \in 0 .. N : n # 0 =>
             after[n] = Declined(after[n - 1].ui, after[n - 1].calls, o[n])
  <2>1. 0 \in 0 .. N
    BY <1>1
  <2> QED
    BY <2>1, <1>14 DEF step, N, Declined
<1> DEFINE Q == {n \in Nat : n <= N => after[n] = g[n]}
<1>16. 0 \in Q
  BY <1>7, <1>15
<1>17. ASSUME NEW n \in Nat, n \in Q PROVE n + 1 \in Q
  <2> SUFFICES ASSUME n + 1 <= N PROVE after[n + 1] = g[n + 1]
    OBVIOUS
  <2>1. n + 1 \in 0 .. N /\ n + 1 # 0 /\ (n + 1) - 1 = n /\ n <= N
    BY <1>1
  <2> QED
    BY <2>1, <1>12, <1>15, <1>17
<1>18. N \in Q
  <2> HIDE DEF Q
  <2> QED
    BY <1>1, <1>16, <1>17, NaturalsByStep
<1>19. EndDecisions(u, q) = g[N] /\ Done(N) /\ g[N] \in D
  BY <1>1, <1>2, <1>7, <1>11, <1>18
<1> QED
  BY <1>19 DEF Done, D

-----------------------------------------------------------------------------
(***************************************************************************)
(* The inductive invariant.                                                *)
(***************************************************************************)

\* The table of the backend, and what disturbed the renderer, within their bounds.
Backed(s, u, d) ==
    /\ s \in Store /\ Current(s) /\ \A t \in Tasks : s.generation[t] <= MaxGeneration
    /\ d \in 0 .. MaxFaults /\ u.blips <= d

\* Frames arrive in the order of their versions, between what the renderer knows and the
\* table.
InOrder(fr, s, u) ==
    /\ u.seen <= s.version
    /\ \A n \in 1 .. Len(fr) :
          u.seen <= fr[n].snapshot.version /\ fr[n].snapshot.version <= s.version
    /\ \A m, n \in 1 .. Len(fr) : m <= n => fr[m].snapshot.version <= fr[n].snapshot.version

AgainstSelf(f) == f.snapshot.controllerId # Self

PeerControls(s) == s.lease[Task] # None /\ s.lease[Task].clientId # Self

\* While a peer has control the renderer knows, or is about to be told.
Told(fr, s, u) ==
    PeerControls(s) =>
        \/ \E n \in 1 .. Len(fr) : fr[n].kind = "snapshot" /\ \A m \in n .. Len(fr) : AgainstSelf(fr[m])
        \/ u.view # Self /\ \A m \in 1 .. Len(fr) : AgainstSelf(fr[m])

\* A suspended lease is not yet re-claimed for the connection that is to come.
Unclaimed(u, q) == Marked(u) => Reclaimer(u.blips) \notin DOMAIN q.wait

Inv(s, connected, fr, u, q, d) ==
    /\ Sound(u, q, fr) /\ Believes(u) /\ Backed(s, u, d) /\ InOrder(fr, s, u)
    /\ connected \in BOOLEAN
    /\ connected => Told(fr, s, u)
    /\ ~connected => Unclaimed(u, q) /\ fr = <<>>

HoldInv == Inv(store, up, frames, ui, calls, disturbed)

\* The renderer acts on its own, and believes what it did.
LEMMA KeepsInv ==
    ASSUME NEW s, NEW connected, NEW fr, NEW u, NEW q, NEW d, Inv(s, connected, fr, u, q, d),
           NEW v, NEW p, Sound(v, p, fr), Keeps(u, q, v, p)
    PROVE  Inv(s, connected, fr, v, p, d)
<1>1. u.blips \in Nat
  BY DEF Inv, Sound, Renderer
<1>2. Believes(v) /\ v.blips = u.blips /\ v.view = u.view /\ v.seen = u.seen
  BY DEF Keeps, Calm, Inv
<1>3. Backed(s, v, d) /\ InOrder(fr, s, v) /\ (connected => Told(fr, s, v))
  BY <1>2 DEF Inv, Backed, InOrder, Told
<1>4. Unclaimed(u, q) => Unclaimed(v, p)
  BY <1>1, <1>2 DEF Unclaimed, Keeps, Calm
<1> QED
  BY <1>2, <1>3, <1>4 DEF Inv

LEMMA LeadsInv ==
    ASSUME NEW s, NEW connected, NEW fr, NEW u, NEW q, NEW d, Inv(s, connected, fr, u, q, d),
           NEW r, Leads(u, q, r, fr)
    PROVE  Inv(s, connected, fr, r.ui, r.calls, d)
<1>1. u \in Renderer
  BY DEF Inv, Sound
<1>2. Sound(r.ui, r.calls, fr) /\ Keeps(u, q, r.ui, r.calls)
  BY <1>1, OnwardKeeps DEF Leads
<1> QED
  BY <1>2, KeepsInv

\* The renderer received the first frame, an answer or a snapshot, and learnt from it or not.
LEMMA LearnsInv ==
    ASSUME NEW s, NEW fr, NEW u, NEW q, NEW d, Inv(s, TRUE, fr, u, q, d), fr # <<>>,
           NEW r, Lands(u, q, r, Tail(fr)), Learns(u, r.ui, Head(fr).snapshot),
           Head(fr).kind = "snapshot" => r.ui.view = Head(fr).snapshot.controllerId
    PROVE  Inv(s, TRUE, Tail(fr), r.ui, r.calls, d)
<1> DEFINE v == r.ui
           f == Head(fr)
           tl == Tail(fr)
<1>1. /\ fr \in Seq(Received) /\ Sound(v, r.calls, tl) /\ Believes(v) /\ v.blips = u.blips
  BY DEF Inv, Sound, Lands, Calm
<1>2. /\ Len(fr) \in Nat \ {0} /\ Len(tl) = Len(fr) - 1 /\ f = fr[1]
      /\ \A n \in 1 .. Len(fr) - 1 : tl[n] = fr[n + 1] /\ n + 1 \in 1 .. Len(fr)
      /\ 1 \in 1 .. Len(fr)
      /\ \A n \in 1 .. Len(fr) : fr[n] \in Received
  BY <1>1, EmptySeq
<1>3. /\ u.seen \in Int /\ s.version \in Int
      /\ \A n \in 1 .. Len(fr) : fr[n].snapshot.version \in Int
  BY <1>2 DEF Inv, Sound, Renderer, Backed, Store, Received, ControllerSnapshot
<1> HIDE DEF tl, f
<1>4. InOrder(fr, s, u) /\ Told(fr, s, u) /\ Learns(u, v, f.snapshot) /\ Backed(s, u, d)
  BY DEF Inv, f
<1>5. v.seen = u.seen \/ v.seen = f.snapshot.version
  BY <1>4 DEF Learns
<1> HIDE DEF v
<1>6. InOrder(tl, s, v)
  <2>1. /\ \A n \in 1 .. Len(fr) : u.seen <= fr[n].snapshot.version /\ f.snapshot.version <= fr[n].snapshot.version
                                    /\ fr[n].snapshot.version <= s.version
        /\ u.seen <= s.version /\ f.snapshot.version <= s.version
    BY <1>2, <1>3, <1>4 DEF InOrder
  <2>2. \A m, n \in 1 .. Len(fr) - 1 : m <= n => tl[m].snapshot.version <= tl[n].snapshot.version
    <3> SUFFICES ASSUME NEW m \in 1 .. Len(fr) - 1, NEW n \in 1 .. Len(fr) - 1, m <= n
                 PROVE  tl[m].snapshot.version <= tl[n].snapshot.version
      OBVIOUS
    <3>1. m + 1 \in 1 .. Len(fr) /\ n + 1 \in 1 .. Len(fr) /\ m + 1 <= n + 1
      BY <1>2
    <3>2. fr[m + 1].snapshot.version <= fr[n + 1].snapshot.version
      BY <1>4, <3>1 DEF InOrder
    <3> QED
      BY <1>2, <3>2
  <2>3. \A n \in 1 .. Len(tl) : v.seen <= tl[n].snapshot.version /\ tl[n].snapshot.version <= s.version
    BY <1>2, <1>5, <2>1
  <2> QED
    BY <1>2, <1>5, <2>1, <2>2, <2>3 DEF InOrder
<1>7. Told(tl, s, v)
  <2> SUFFICES ASSUME PeerControls(s)
               PROVE  \/ \E n \in 1 .. Len(tl) : tl[n].kind = "snapshot"
                             /\ \A m \in n .. Len(tl) : AgainstSelf(tl[m])
                      \/ v.view # Self /\ \A m \in 1 .. Len(tl) : AgainstSelf(tl[m])
    BY DEF Told
  <2>1. CASE u.view # Self /\ \A m \in 1 .. Len(fr) : AgainstSelf(fr[m])
    <3>1. v.view # Self
      BY <1>2, <1>4, <2>1 DEF Learns, AgainstSelf
    <3> QED
      BY <1>2, <2>1, <3>1
  <2>2. ASSUME NEW n \in 1 .. Len(fr), fr[n].kind = "snapshot", \A m \in n .. Len(fr) : AgainstSelf(fr[m])
        PROVE  \/ \E k \in 1 .. Len(tl) : tl[k].kind = "snapshot"
                             /\ \A m \in k .. Len(tl) : AgainstSelf(tl[m])
               \/ v.view # Self /\ \A m \in 1 .. Len(tl) : AgainstSelf(tl[m])
    <3>1. CASE n = 1
      <4>1. f.kind = "snapshot" /\ f.snapshot.controllerId # Self
        BY <1>2, <2>2, <3>1 DEF AgainstSelf
      <4>2. v.view # Self
        BY <4>1 DEF f, v
      <4> QED
        BY <1>2, <2>2, <3>1, <4>2
    <3>2. CASE n # 1
      <4> DEFINE k == n - 1
      <4>1. k \in 1 .. Len(tl) /\ k \in 1 .. Len(fr) - 1 /\ k + 1 = n
        BY <1>2, <3>2
      <4>2. tl[k].kind = "snapshot"
        BY <1>2, <2>2, <4>1
      <4>3. ASSUME NEW m \in k .. Len(tl) PROVE AgainstSelf(tl[m])
        <5>1. m \in 1 .. Len(fr) - 1 /\ m + 1 \in n .. Len(fr)
          BY <1>2, <4>1
        <5> QED
          BY <1>2, <2>2, <5>1
      <4> QED
        BY <4>1, <4>2, <4>3
    <3> QED
      BY <3>1, <3>2
  <2> QED
    BY <1>4, <2>1, <2>2 DEF Told
<1>8. Backed(s, v, d)
  BY <1>1, <1>4 DEF Backed, v
<1> QED
  BY <1>1, <1>6, <1>7, <1>8 DEF Inv, v, tl

-----------------------------------------------------------------------------
(* The backend, and the frames it sends. *)

LEMMA FramesTyping ==
    ASSUME NEW s, NEW connected, NEW fr, NEW u, NEW q, NEW d, Inv(s, connected, fr, u, q, d)
    PROVE  /\ fr \in Seq(Received) /\ Len(fr) \in Nat /\ u \in Renderer /\ q \in Requests
           /\ u.seen \in Int /\ s.version \in Nat /\ s \in Store
           /\ \A n \in 1 .. Len(fr) : fr[n] \in Received /\ fr[n].snapshot.version \in Nat
<1>1. fr \in Seq(Received) /\ Len(fr) \in Nat /\ u \in Renderer /\ q \in Requests /\ s \in Store
  BY DEF Inv, Sound, Backed
<1>2. u.seen \in Int /\ s.version \in Nat
  BY <1>1 DEF Renderer, Store
<1>3. \A n \in 1 .. Len(fr) : fr[n] \in Received
  BY <1>1
<1>4. \A n \in 1 .. Len(fr) : fr[n].snapshot.version \in Nat
  BY <1>3 DEF Received, ControllerSnapshot
<1> QED
  BY <1>1, <1>2, <1>3, <1>4

\* The table moves on: it may give a peer control only if the renderer is then told.
LEMMA StoreInv ==
    ASSUME NEW s, NEW connected, NEW fr, NEW u, NEW q, NEW d, Inv(s, connected, fr, u, q, d),
           NEW r, NEW e, Backed(r, u, e), s.version <= r.version,
           connected /\ PeerControls(r) => PeerControls(s)
    PROVE  Inv(r, connected, fr, u, q, e)
<1>1. r.version \in Nat
  BY DEF Backed, Store
<1>2. InOrder(fr, r, u)
  <2>1. InOrder(fr, s, u)
    BY DEF Inv
  <2>2. u.seen <= r.version
    BY <1>1, <2>1, FramesTyping DEF InOrder
  <2>3. ASSUME NEW n \in 1 .. Len(fr) PROVE fr[n].snapshot.version <= r.version
    <3>1. fr[n].snapshot.version <= s.version
      BY <2>1 DEF InOrder
    <3> QED
      BY <1>1, <3>1, FramesTyping
  <2> QED
    BY <2>1, <2>2, <2>3 DEF InOrder
<1>3. connected => Told(fr, r, u)
  BY DEF Inv, Told
<1> QED
  BY <1>2, <1>3 DEF Inv

\* A frame that tells of the table as it is joins the others: a snapshot, or another
\* while the renderer is told of the controller or none is a peer.
LEMMA FrameInv ==
    ASSUME NEW s, NEW r, NEW fr, NEW u, NEW q, NEW p, NEW d, NEW e, Inv(s, TRUE, fr, u, q, d),
           Backed(r, u, e), s.version <= r.version,
           NEW f \in Received, f.snapshot = Snapshot(r, Task),
           f.kind = "snapshot" \/ (PeerControls(r) => PeerControls(s)),
           Sound(u, p, Append(fr, f))
    PROVE  Inv(r, TRUE, Append(fr, f), u, p, e)
<1> DEFINE gr == Append(fr, f)
<1>1. r.version \in Nat /\ f.snapshot.version = r.version /\ f.snapshot.controllerId =
          IF r.lease[Task] = None THEN None ELSE r.lease[Task].clientId
  BY DEF Backed, Store, Snapshot, SnapshotAt
<1>2. /\ Len(fr) \in Nat /\ Len(gr) = Len(fr) + 1 /\ gr[Len(fr) + 1] = f
      /\ \A n \in 1 .. Len(fr) : gr[n] = fr[n]
  BY FramesTyping
<1>3. /\ u.seen \in Int /\ s.version \in Nat
      /\ \A n \in 1 .. Len(fr) : fr[n].snapshot.version \in Nat
  BY FramesTyping
<1>4. InOrder(fr, s, u) /\ Told(fr, s, u) /\ Believes(u)
  BY DEF Inv
<1> HIDE DEF gr
<1>5. InOrder(gr, r, u)
  <2>1. /\ u.seen <= s.version
        /\ \A n \in 1 .. Len(fr) :
              u.seen <= fr[n].snapshot.version /\ fr[n].snapshot.version <= s.version
    BY <1>4 DEF InOrder
  <2>2. /\ u.seen <= r.version
        /\ \A n \in 1 .. Len(fr) : fr[n].snapshot.version <= r.version
    BY <1>1, <1>3, <2>1
  <2>3. \A n \in 1 .. Len(gr) :
            u.seen <= gr[n].snapshot.version /\ gr[n].snapshot.version <= r.version
    <3> SUFFICES ASSUME NEW n \in 1 .. Len(gr)
                 PROVE  u.seen <= gr[n].snapshot.version /\ gr[n].snapshot.version <= r.version
      OBVIOUS
    <3>1. CASE n = Len(fr) + 1
      BY <1>1, <1>2, <2>2, <3>1
    <3>2. CASE n \in 1 .. Len(fr)
      BY <1>2, <2>1, <2>2, <3>2
    <3> QED
      BY <1>2, <3>1, <3>2
  <2>4. ASSUME NEW m \in 1 .. Len(gr), NEW n \in 1 .. Len(gr), m <= n
        PROVE  gr[m].snapshot.version <= gr[n].snapshot.version
    <3>1. CASE n = Len(fr) + 1
      BY <1>1, <1>2, <2>3, <3>1
    <3>2. CASE n # Len(fr) + 1
      <4>1. m \in 1 .. Len(fr) /\ n \in 1 .. Len(fr)
        BY <1>2, <2>4, <3>2
      <4>2. fr[m].snapshot.version <= fr[n].snapshot.version
        BY <1>4, <2>4, <4>1 DEF InOrder
      <4> QED
        BY <1>2, <4>1, <4>2
    <3> QED
      BY <3>1, <3>2
  <2> QED
    BY <2>2, <2>3, <2>4 DEF InOrder
<1>6. Told(gr, r, u)
  <2> SUFFICES ASSUME PeerControls(r)
               PROVE  \/ \E n \in 1 .. Len(gr) : gr[n].kind = "snapshot"
                             /\ \A m \in n .. Len(gr) : AgainstSelf(gr[m])
                      \/ u.view # Self /\ \A m \in 1 .. Len(gr) : AgainstSelf(gr[m])
    BY DEF Told
  <2>1. AgainstSelf(f)
    BY <1>1 DEF PeerControls, AgainstSelf
  <2>2. CASE f.kind = "snapshot"
    <3>1. \A m \in Len(gr) .. Len(gr) : m = Len(gr)
      BY <1>2
    <3>2. Len(gr) \in 1 .. Len(gr) /\ gr[Len(gr)] = f
      BY <1>2
    <3> QED
      BY <2>1, <2>2, <3>1, <3>2
  <2>3. CASE PeerControls(s)
    <3>1. CASE u.view # Self /\ \A m \in 1 .. Len(fr) : AgainstSelf(fr[m])
      <4>1. \A m \in 1 .. Len(gr) : m \in 1 .. Len(fr) \/ m = Len(fr) + 1
        BY <1>2
      <4>2. \A m \in 1 .. Len(gr) : AgainstSelf(gr[m])
        BY <1>2, <2>1, <3>1, <4>1
      <4> QED
        BY <3>1, <4>2
    <3>2. ASSUME NEW n \in 1 .. Len(fr), fr[n].kind = "snapshot",
                 \A m \in n .. Len(fr) : AgainstSelf(fr[m])
          PROVE  \E k \in 1 .. Len(gr) : gr[k].kind = "snapshot"
                             /\ \A m \in k .. Len(gr) : AgainstSelf(gr[m])
      <4>1. n \in 1 .. Len(gr) /\ gr[n].kind = "snapshot"
        BY <1>2, <3>2
      <4>2. ASSUME NEW m \in n .. Len(gr) PROVE AgainstSelf(gr[m])
        <5>1. CASE m = Len(fr) + 1
          BY <1>2, <2>1, <5>1
        <5>2. CASE m # Len(fr) + 1
          <6>1. m \in n .. Len(fr) /\ m \in 1 .. Len(fr)
            BY <1>2, <5>2
          <6> QED
            BY <1>2, <3>2, <6>1
        <5> QED
          BY <5>1, <5>2
      <4> QED
        BY <4>1, <4>2
    <3> QED
      BY <1>4, <2>3, <3>1, <3>2 DEF Told
  <2> QED
    BY <2>2, <2>3
<1> QED
  BY <1>4, <1>5, <1>6 DEF Inv, gr

\* What is broadcast reaches the renderer while it is connected.
Broadcast(connected, fr, changed, snapshot) ==
    IF changed /\ connected THEN Append(fr, Frame("snapshot", None, FALSE, 0, snapshot)) ELSE fr

LEMMA SnapshotIs ==
    ASSUME NEW r \in Store
    PROVE  /\ Snapshot(r, Task) \in ControllerSnapshot
           /\ Frame("snapshot", None, FALSE, 0, Snapshot(r, Task)) \in Received
           /\ \A w \in Whos, won \in BOOLEAN, g \in 0 .. MaxGeneration, kind \in {"answer", "approved"} :
                 Frame(kind, w, won, g, Snapshot(r, Task)) \in Received
<1>1. Snapshot(r, Task) \in ControllerSnapshot
  BY HoldAssumption, SnapshotTyping DEF Snapshot, Store
<1> DEFINE x == Snapshot(r, Task)
<1>2. x \in ControllerSnapshot
  BY <1>1
<1> HIDE DEF x
<1>3. MaxGeneration \in Nat
  BY HoldAssumption
<1>4. Frame("snapshot", None, FALSE, 0, x) \in Received
  BY <1>2, <1>3 DEF Frame, Received
<1>5. ASSUME NEW w \in Whos, NEW won \in BOOLEAN, NEW g \in 0 .. MaxGeneration, NEW kind \in {"answer", "approved"}
      PROVE  Frame(kind, w, won, g, x) \in Received
  BY <1>2 DEF Frame, Received
<1> QED
  BY <1>1, <1>4, <1>5 DEF x

\* The table moves on and the change, if it is one, is broadcast.
LEMMA BroadcastInv ==
    ASSUME NEW s, NEW connected, NEW fr, NEW u, NEW q, NEW d, Inv(s, connected, fr, u, q, d),
           NEW r, NEW e, Backed(r, u, e), s.version <= r.version, NEW changed \in BOOLEAN,
           PeerControls(r) => changed \/ PeerControls(s)
    PROVE  LET gr == Broadcast(connected, fr, changed, Snapshot(r, Task))
           IN  Inv(r, connected, gr, u, q, e) /\ Answering(gr) = Answering(fr)
<1> DEFINE x == Snapshot(r, Task)
           f == Frame("snapshot", None, FALSE, 0, x)
<1>1. f \in Received /\ f.kind = "snapshot" /\ f.snapshot = x
  BY SnapshotIs DEF Backed, Frame
<1>2. Sound(u, q, fr) /\ connected \in BOOLEAN
  BY DEF Inv
<1> HIDE DEF f, x
<1>3. Sound(u, q, Append(fr, f)) /\ Answering(Append(fr, f)) = Answering(fr)
  BY <1>1, <1>2, AppendSound
<1>4. CASE changed /\ connected
  <2>1. connected = TRUE
    BY <1>2, <1>4
  <2>2. Inv(r, TRUE, Append(fr, f), u, q, e)
    BY <1>1, <1>3, <2>1, FrameInv DEF x
  <2> QED
    BY <1>3, <1>4, <2>1, <2>2 DEF Broadcast, f, x
<1>5. CASE ~(changed /\ connected)
  BY <1>5, StoreInv DEF Broadcast
<1> QED
  BY <1>4, <1>5

\* The table after each of its operations on behalf of the renderer or of a peer.
LEMMA StepBacked ==
    ASSUME NEW s, NEW u, NEW d, Backed(s, u, d), NEW r, StoreStep(s, r),
           r.generation = s.generation \/
              (s.generation[Task] < MaxGeneration /\ r.generation = [s.generation EXCEPT ![Task] = @ + 1])
    PROVE  Backed(r, u, d) /\ s.version <= r.version /\ r \in Store
<1>1. s \in Store /\ r \in Store /\ Current(r) /\ s.version <= r.version
  BY DEF Backed, StoreStep
<1>2. /\ s.generation \in [Tasks -> Nat] /\ Tasks = {Task} /\ s.generation[Task] <= MaxGeneration
      /\ MaxGeneration \in Nat
  BY <1>1, HoldAssumption DEF Store, Backed
<1>3. r.generation[Task] <= MaxGeneration
  BY <1>2
<1> QED
  BY <1>1, <1>2, <1>3 DEF Backed

LEMMA ActivePeer ==
    ASSUME NEW s \in Store, Current(s)
    PROVE  PeerControls(Active(s, Task)) => PeerControls(s) /\ Active(s, Task) = s
  BY ActiveStep, HoldAssumption DEF PeerControls

LEMMA AcquireBacked ==
    ASSUME NEW s, NEW u, NEW d, Backed(s, u, d), s.generation[Task] < MaxGeneration,
           NEW c \in Clients, NEW o \in Owners, NEW a \in Actions, NEW takeover \in BOOLEAN
    PROVE  LET result == Acquire(s, Task, c, o, a, takeover)
           IN  /\ Backed(result.store, u, d) /\ s.version <= result.store.version
               /\ result.snapshot = Snapshot(result.store, Task)
               /\ result.changed \in BOOLEAN /\ result.acquired \in BOOLEAN
               /\ result.leaseGeneration \in 0 .. MaxGeneration
               /\ PeerControls(result.store) => result.changed \/ PeerControls(s)
               /\ c = Self /\ takeover => ~PeerControls(result.store)
<1> DEFINE r == Acquire(s, Task, c, o, a, takeover)
           l == Active(s, Task).lease[Task]
<1>1. s \in Store /\ Current(s) /\ Task \in Tasks /\ Tasks = {Task}
  BY HoldAssumption DEF Backed
<1>2. /\ StoreStep(s, r.store) /\ r.snapshot = Snapshot(r.store, Task)
      /\ r.acquired = ~Refused(l, c, takeover)
  BY <1>1, AcquireStep
<1>3. /\ Active(s, Task) \in Store /\ Current(Active(s, Task))
      /\ Active(s, Task).generation = s.generation
  BY <1>1, ActiveStep DEF StoreStep
<1>4. s.generation[Task] \in Nat /\ MaxGeneration \in Nat /\ s.generation \in [Tasks -> Nat]
      /\ s.lease \in [Tasks -> Lease \cup {None}]
  BY <1>1, HoldAssumption DEF Store
<1>5. r.changed \in BOOLEAN
  BY DEF Acquire, ControllerChanged
<1>6. CASE Refused(l, c, takeover)
  <2>1. r.store = Active(s, Task) /\ r.leaseGeneration = l.leaseGeneration
    BY <1>6 DEF Acquire
  <2>2. r.store.generation = s.generation
    BY <1>3, <2>1
  <2>3. l.leaseGeneration = s.generation[Task]
    BY <1>1, <1>3, <1>6 DEF Refused, Current
  <2>4. r.leaseGeneration \in 0 .. MaxGeneration
    BY <1>4, <2>1, <2>3
  <2>5. ~takeover
    BY <1>6 DEF Refused
  <2>6. Backed(r.store, u, d) /\ s.version <= r.store.version
    BY <1>2, <2>2, StepBacked
  <2>7. PeerControls(r.store) => PeerControls(s)
    BY <1>1, <2>1, ActivePeer
  <2> QED
    BY <1>2, <1>5, <2>4, <2>5, <2>6, <2>7
<1>7. CASE ~Refused(l, c, takeover)
  <2>1. /\ r.leaseGeneration = s.generation[Task] + 1
        /\ r.store.generation = [s.generation EXCEPT ![Task] = @ + 1]
        /\ r.store.lease = [s.lease EXCEPT ![Task] =
                 [action |-> a, clientId |-> c, ttl |-> LeaseMs,
                  leaseGeneration |-> s.generation[Task] + 1, ownerId |-> o]]
    BY <1>1, <1>7, AcquireGrants
  <2>2. Backed(r.store, u, d) /\ s.version <= r.store.version
    BY <1>2, <2>1, StepBacked
  <2>3. r.leaseGeneration \in 0 .. MaxGeneration
    BY <1>4, <2>1
  <2>4. r.store.lease[Task].clientId = c
    BY <1>1, <1>4, <2>1
  <2>5. r.changed = ControllerChanged(l, c, a)
    BY <1>7 DEF Acquire
  <2>6. ASSUME PeerControls(r.store), ~r.changed PROVE PeerControls(s)
    <3>1. l # None /\ l.clientId = c
      BY <2>5, <2>6 DEF ControllerChanged
    <3>2. c # Self
      BY <2>4, <2>6 DEF PeerControls
    <3>3. PeerControls(Active(s, Task))
      BY <3>1, <3>2 DEF PeerControls
    <3> QED
      BY <1>1, <3>3, ActivePeer
  <2> QED
    BY <1>2, <1>5, <2>2, <2>3, <2>4, <2>6 DEF PeerControls
<1> QED
  BY <1>6, <1>7

-----------------------------------------------------------------------------
(* The actions of the backend keep the invariant. *)

LEMMA PostedWho ==
    ASSUME NEW q \in Requests, q.line # <<>>
    PROVE  Head(q.line) \in Posting /\ Head(q.line).who \in Whos /\ Head(q.line).takeover \in BOOLEAN
<1>1. Head(q.line) \in Posting
  BY TableTyping, NamesTail
<1> QED
  BY <1>1 DEF Posting

LEMMA ServedInv ==
    ASSUME HoldInv, up, calls.line # <<>>, NEW r, NEW changed \in BOOLEAN, NEW won \in BOOLEAN,
           NEW generation \in 0 .. MaxGeneration, Backed(r, ui, disturbed), store.version <= r.version,
           PeerControls(r) => changed \/ PeerControls(store),
           Served(r, changed, won, generation, Snapshot(r, Task))
    PROVE  HoldInv'
<1> DEFINE x == Snapshot(r, Task)
           gr == Broadcast(TRUE, frames, changed, x)
           f == Frame("answer", First.who, won, generation, x)
           p == [calls EXCEPT !.line = Tail(@)]
<1>1. up = TRUE /\ Inv(store, TRUE, frames, ui, calls, disturbed) /\ calls \in Requests
  BY DEF HoldInv, Inv, Sound
<1>2. Inv(r, TRUE, gr, ui, calls, disturbed)
  BY <1>1, BroadcastInv
<1>3. First.who \in Whos
  BY <1>1, PostedWho DEF First
<1>4. /\ f \in Received /\ f.kind = "answer" /\ f.who = Head(calls.line).who /\ f.snapshot = x
  BY <1>3, SnapshotIs DEF Backed, Frame, First
<1>5. store' = r /\ frames' = Append(gr, f) /\ calls' = p /\ up' = up /\ ui' = ui /\ disturbed' = disturbed
  BY <1>1 DEF Served, Announced, Broadcast
<1> HIDE DEF gr, f, p
<1>6. Sound(ui, calls, gr)
  BY <1>2 DEF Inv
<1>7. Sound(ui, p, Append(gr, f))
  BY <1>4, <1>6, ServeSound DEF p
<1>8. r.version <= r.version
  BY DEF Backed, Store
<1>9. Inv(r, TRUE, Append(gr, f), ui, p, disturbed)
  BY <1>2, <1>4, <1>7, <1>8, FrameInv
<1> QED
  BY <1>1, <1>5, <1>9 DEF HoldInv

LEMMA ServeAcquireInv ==
    ASSUME HoldInv, ServeAcquire
    PROVE  HoldInv'
<1> DEFINE result == Acquire(store, Task, Self, Owner, Action, First.takeover)
<1>1. /\ up /\ calls.line # <<>> /\ store.generation[Task] < MaxGeneration
      /\ Served(result.store, result.changed, result.acquired, result.leaseGeneration, result.snapshot)
  BY DEF ServeAcquire, Serving
<1>2. Backed(store, ui, disturbed) /\ calls \in Requests
  BY DEF HoldInv, Inv, Sound
<1>3. First.takeover \in BOOLEAN /\ Self \in Clients /\ Owner \in Owners /\ Action \in Actions
  BY <1>1, <1>2, PostedWho, HoldAssumption DEF First
<1>4. /\ Backed(result.store, ui, disturbed) /\ store.version <= result.store.version
      /\ result.snapshot = Snapshot(result.store, Task)
      /\ result.changed \in BOOLEAN /\ result.acquired \in BOOLEAN
      /\ result.leaseGeneration \in 0 .. MaxGeneration
      /\ PeerControls(result.store) => result.changed \/ PeerControls(store)
  BY <1>1, <1>2, <1>3, AcquireBacked
<1> HIDE DEF result
<1> QED
  BY <1>1, <1>4, ServedInv

LEMMA RenewPeer ==
    ASSUME NEW s \in Store, Current(s), NEW c, NEW o, NEW g,
           PeerControls(Renew(s, Task, c, o, g).store)
    PROVE  PeerControls(s)
<1> DEFINE a == Active(s, Task)
<1>1. a \in Store /\ Task \in Tasks
  BY ActiveStep, HoldAssumption DEF StoreStep
<1>2. CASE Matches(a.lease[Task], c, o, g)
  <2>1. /\ Renew(s, Task, c, o, g).store = Extend(a, Task) /\ a.lease[Task] # None
    BY <1>2 DEF Renew, Matches
  <2>2. a.lease[Task] \in Lease
    BY <1>1, <2>1, LeaseTyping
  <2>3. Extend(a, Task).lease[Task].clientId = a.lease[Task].clientId
    BY <1>1, <2>2 DEF Extend, Lease, Store
  <2>4. PeerControls(a)
    BY <2>1, <2>3 DEF PeerControls
  <2> QED
    BY <2>4, ActivePeer
<1>3. CASE ~Matches(a.lease[Task], c, o, g)
  BY <1>3, ActivePeer DEF Renew
<1> QED
  BY <1>2, <1>3

LEMMA ServeRenewInv ==
    ASSUME HoldInv, ServeRenew
    PROVE  HoldInv'
<1> DEFINE result == Renew(store, Task, Self, Owner, First.generation)
<1>1. /\ up /\ calls.line # <<>>
      /\ Served(result.store, FALSE, result.renewed, 0, result.snapshot)
  BY DEF ServeRenew, Serving
<1>2. Backed(store, ui, disturbed) /\ store \in Store /\ Current(store) /\ Task \in Tasks
  BY HoldAssumption DEF HoldInv, Inv, Backed
<1>3. StoreStep(store, result.store) /\ result.snapshot = Snapshot(result.store, Task)
      /\ result.store.generation = store.generation
  BY <1>2, RenewStep
<1>4. result.renewed \in BOOLEAN
  BY DEF Renew
<1>5. PeerControls(result.store) => PeerControls(store)
  BY <1>2, RenewPeer
<1> HIDE DEF result
<1>6. Backed(result.store, ui, disturbed) /\ store.version <= result.store.version
  BY <1>2, <1>3, StepBacked
<1>7. 0 \in 0 .. MaxGeneration
  BY HoldAssumption
<1> QED
  BY <1>1, <1>3, <1>4, <1>5, <1>6, <1>7, ServedInv

LEMMA ServeReleaseInv ==
    ASSUME HoldInv, ServeRelease
    PROVE  HoldInv'
<1> DEFINE result == Release(store, Task, Self, Owner, First.generation)
<1>1. /\ up /\ calls.line # <<>>
      /\ Served(result.store, result.changed, result.changed, 0, result.snapshot)
  BY DEF ServeRelease, Serving
<1>2. Backed(store, ui, disturbed) /\ store \in Store /\ Current(store) /\ Task \in Tasks
  BY HoldAssumption DEF HoldInv, Inv, Backed
<1>3. StoreStep(store, result.store) /\ result.snapshot = Snapshot(result.store, Task)
      /\ result.store.generation = store.generation
  BY <1>2, ReleaseStep
<1>4. result.changed \in BOOLEAN
  BY DEF Release
<1>5. PeerControls(result.store) => result.changed \/ PeerControls(store)
  BY <1>2, ActivePeer DEF Release
<1> HIDE DEF result
<1>6. Backed(result.store, ui, disturbed) /\ store.version <= result.store.version
  BY <1>2, <1>3, StepBacked
<1>7. 0 \in 0 .. MaxGeneration
  BY HoldAssumption
<1> QED
  BY <1>1, <1>3, <1>4, <1>5, <1>6, <1>7, ServedInv

LEMMA DisturbBacked ==
    ASSUME NEW fault, Backed(store, ui, disturbed), ui \in Renderer, Disturb(fault)
    PROVE  Backed(store, ui, disturbed') /\ disturbed' = disturbed + 1
<1>1. disturbed' = disturbed + 1 /\ disturbed < MaxFaults /\ disturbed \in 0 .. MaxFaults /\ MaxFaults \in Nat
  BY HoldAssumption DEF Disturb, Backed
<1>2. ui.blips <= disturbed /\ ui.blips \in Nat
  BY DEF Backed, Renderer
<1> QED
  BY <1>1, <1>2 DEF Backed

LEMMA PeerAcquiresInv ==
    ASSUME HoldInv, PeerAcquires
    PROVE  HoldInv'
<1> PICK c \in Clients \ {Self}, o \in Owners, a \in Actions, takeover \in BOOLEAN :
        LET result == Acquire(store, Task, c, o, a, takeover)
        IN  /\ Disturb("peer") /\ ui.micro = <<>> /\ store.generation[Task] < MaxGeneration
            /\ result.changed
            /\ store' = result.store
            /\ frames' = Announced(TRUE, result.snapshot)
            /\ UNCHANGED <<up, ui, calls>>
  BY DEF PeerAcquires
<1> DEFINE result == Acquire(store, Task, c, o, a, takeover)
<1>1. Inv(store, up, frames, ui, calls, disturbed) /\ Backed(store, ui, disturbed) /\ up \in BOOLEAN
      /\ ui \in Renderer
  BY DEF HoldInv, Inv, Sound
<1>2. Backed(store, ui, disturbed')
  BY <1>1, DisturbBacked
<1>3. /\ Backed(result.store, ui, disturbed') /\ store.version <= result.store.version
      /\ result.snapshot = Snapshot(result.store, Task)
  BY <1>2, AcquireBacked
<1> DEFINE gr == Broadcast(up, frames, TRUE, Snapshot(result.store, Task))
<1>4. Inv(result.store, up, gr, ui, calls, disturbed')
  BY <1>1, <1>3, BroadcastInv
<1>5. frames' = gr
  BY <1>3 DEF Announced, Broadcast
<1> HIDE DEF gr, result
<1> QED
  BY <1>4, <1>5 DEF HoldInv, result

LEMMA LeaseEndsInv ==
    ASSUME HoldInv, LeaseEnds
    PROVE  HoldInv'
<1> DEFINE r == Delete(store, Task)
<1>1. /\ Inv(store, up, frames, ui, calls, disturbed) /\ Backed(store, ui, disturbed)
      /\ store \in Store /\ Current(store) /\ Task \in Tasks /\ Disturb("peer")
      /\ store' = r /\ up' = up /\ ui' = ui /\ calls' = calls /\ ui \in Renderer
  BY HoldAssumption DEF HoldInv, Inv, Sound, Backed, LeaseEnds
<1>2. StoreStep(store, r) /\ r.generation = store.generation /\ r.lease = [store.lease EXCEPT ![Task] = None]
  BY <1>1, DeleteStep
<1>3. ~PeerControls(r)
  BY <1>1, <1>2 DEF Store, PeerControls
<1>4. Backed(store, ui, disturbed')
  BY <1>1, DisturbBacked
<1> HIDE DEF r
<1>5. Backed(r, ui, disturbed') /\ store.version <= r.version
  BY <1>2, <1>4, StepBacked
<1>6. \E announced \in BOOLEAN : frames' = Broadcast(up, frames, announced, Snapshot(r, Task))
  BY <1>1 DEF LeaseEnds, Announced, Broadcast
<1> QED
  BY <1>1, <1>3, <1>5, <1>6, BroadcastInv DEF HoldInv

\* A stage changes in place.
LEMMA StagedIs ==
    ASSUME NEW q \in Requests, NEW w \in DOMAIN q.wait, NEW stage
    PROVE  [q EXCEPT !.wait[w].stage = stage] = Await(q, w, [q.wait[w] EXCEPT !.stage = stage])
<1> DEFINE r == [q.wait[w] EXCEPT !.stage = stage]
           f == [q.wait EXCEPT ![w] = r]
           g == [x \in DOMAIN q.wait \cup {w} |-> IF x = w THEN r ELSE q.wait[x]]
<1>1. [q EXCEPT !.wait[w].stage = stage] = [q EXCEPT !.wait = f]
  OBVIOUS
<1>2. Await(q, w, r) = [q EXCEPT !.wait = g]
  BY DEF Await
<1>3. q.wait \in Tables
  BY DEF Requests
<1>4. q.wait = [x \in DOMAIN q.wait |-> q.wait[x]]
  BY <1>3 DEF Tables
<1> HIDE DEF r
<1>5. DOMAIN q.wait \cup {w} = DOMAIN q.wait
  OBVIOUS
<1>6. f = [x \in DOMAIN q.wait |-> IF x = w THEN r ELSE q.wait[x]]
  BY <1>4
<1>7. f = g
  BY <1>5, <1>6
<1> HIDE DEF f, g
<1> QED
  BY <1>1, <1>2, <1>7 DEF r

LEMMA StageTyping ==
    ASSUME NEW r \in Awaited, NEW stage \in {"sent", "lost", "asking", "approved", "confirming"}
    PROVE  LET x == [r EXCEPT !.stage = stage]
               y == [r EXCEPT !.takeover = TRUE, !.stage = stage]
           IN  /\ x \in Awaited /\ x.op = r.op /\ x.lease = r.lease /\ x.mode = r.mode
               /\ y \in Awaited /\ y.op = r.op /\ y.lease = r.lease /\ y.mode = r.mode
               /\ y.stage = stage
  BY DEF Awaited

\* Stages of a request that waits for a decision.
LEMMA DecisionKeeps ==
    ASSUME NEW u, NEW q, NEW fr, Sound(u, q, fr), NEW w \in DOMAIN q.wait,
           q.wait[w].stage \notin {"sent", "lost"}
    PROVE  /\ \A stage \in {"approved", "confirming"} :
                 LET p == [q EXCEPT !.wait[w].stage = stage]
                 IN  Sound(u, p, fr) /\ Keeps(u, q, u, p)
           /\ Sound(u, TakeOver(q, w), fr) /\ Keeps(u, q, u, TakeOver(q, w))
<1>1. q \in Requests /\ q.wait[w] \in Awaited
  BY TableTyping DEF Sound
<1>2. q.wait[w].op = "acquire" /\ q.wait[w].mode # "skip" /\ Unposted(q, fr, w)
  BY Asking
<1>3. ASSUME NEW stage \in {"approved", "confirming"}
      PROVE  LET p == [q EXCEPT !.wait[w].stage = stage]
             IN  Sound(u, p, fr) /\ Keeps(u, q, u, p)
  <2> DEFINE r == [q.wait[w] EXCEPT !.stage = stage]
  <2>1. /\ r \in Awaited /\ r.op = q.wait[w].op /\ r.lease = q.wait[w].lease
        /\ r.mode = q.wait[w].mode
    <3>1. stage \in {"sent", "lost", "asking", "approved", "confirming"}
      OBVIOUS
    <3> QED
      BY <1>1, <3>1, StageTyping
  <2>2. [q EXCEPT !.wait[w].stage = stage] = Await(q, w, r)
    BY <1>1, StagedIs
  <2> HIDE DEF r
  <2>3. Sound(u, Await(q, w, r), fr) /\ Keeps(u, q, u, Await(q, w, r))
    BY <1>2, <2>1, Restages
  <2> QED
    BY <2>2, <2>3
<1>4. Sound(u, TakeOver(q, w), fr) /\ Keeps(u, q, u, TakeOver(q, w))
  <2> DEFINE r == [q.wait[w] EXCEPT !.takeover = TRUE, !.stage = "sent"]
  <2>1. /\ r \in Awaited /\ r.op = q.wait[w].op /\ r.lease = q.wait[w].lease
        /\ r.mode = q.wait[w].mode /\ r.stage = "sent"
    BY <1>1, StageTyping
  <2>2. TakeOver(q, w) = Send(q, w, r)
    BY DEF TakeOver
  <2> HIDE DEF r
  <2> QED
    BY <1>2, <2>1, <2>2, Resends
<1> QED
  BY <1>3, <1>4

LEMMA ApproveInv ==
    ASSUME HoldInv, NEW who \in DOMAIN calls.wait, Approve(who)
    PROVE  HoldInv'
<1> DEFINE yes == TRUE
           result == Acquire(store, Task, Self, Owner, Action, yes)
           p == [calls EXCEPT !.wait[who].stage = "approved"]
           x == Snapshot(result.store, Task)
           gr == Broadcast(TRUE, frames, result.changed, x)
           f == Frame("approved", who, TRUE, 0, x)
<1>1. /\ Inv(store, TRUE, frames, ui, calls, disturbed) /\ Backed(store, ui, disturbed)
      /\ Sound(ui, calls, frames) /\ up = TRUE /\ who \in Whos
  BY TableTyping DEF HoldInv, Inv, Sound, Approve
<1>2. /\ calls.wait[who].stage = "asking" /\ store.generation[Task] < MaxGeneration
      /\ store' = result.store /\ calls' = p /\ up' = up /\ ui' = ui /\ disturbed' = disturbed
  BY DEF Approve
<1>3. Self \in Clients /\ Owner \in Owners /\ Action \in Actions /\ 0 \in 0 .. MaxGeneration
      /\ yes \in BOOLEAN
  BY HoldAssumption
<1>4. /\ Backed(result.store, ui, disturbed) /\ store.version <= result.store.version
      /\ result.snapshot = x /\ result.changed \in BOOLEAN
      /\ PeerControls(result.store) => result.changed \/ PeerControls(store)
  <2>1. Backed(store, ui, disturbed) /\ store.generation[Task] < MaxGeneration
    BY <1>1, <1>2
  <2> HIDE DEF p, f, gr, yes
  <2> QED
    BY <2>1, <1>3, AcquireBacked
<1>5. frames' = Append(gr, f)
  BY <1>1, <1>4 DEF Approve, Announced, Broadcast
<1>6. f \in Received /\ f.kind = "approved" /\ f.snapshot = x
  BY <1>1, <1>3, <1>4, SnapshotIs DEF Backed, Frame
<1>7. Sound(ui, p, frames) /\ Keeps(ui, calls, ui, p)
  BY <1>1, <1>2, DecisionKeeps
<1> HIDE DEF p, f, result
<1>8. Inv(store, TRUE, frames, ui, p, disturbed)
  BY <1>1, <1>7, KeepsInv
<1>9. Inv(result.store, TRUE, gr, ui, p, disturbed)
  BY <1>4, <1>8, BroadcastInv
<1> HIDE DEF gr, x
<1>10. Sound(ui, p, Append(gr, f))
  BY <1>6, <1>9, AppendSound DEF Inv
<1>11. result.store.version <= result.store.version
  BY <1>4 DEF Backed, Store
<1>12. Inv(result.store, TRUE, Append(gr, f), ui, p, disturbed)
  BY <1>4, <1>6, <1>9, <1>10, <1>11, FrameInv DEF x
<1> QED
  BY <1>1, <1>2, <1>5, <1>12 DEF HoldInv

-----------------------------------------------------------------------------
(* What the renderer receives, and what it does on its own. *)

LEMMA ReceiveSnapshotInv ==
    ASSUME HoldInv, ReceiveSnapshot
    PROVE  HoldInv'
<1> DEFINE f == Head(frames)
           s == Apply(ui, calls, f.snapshot)
           tl == Tail(frames)
<1>1. /\ frames # <<>> /\ f.kind = "snapshot" /\ frames' = tl /\ ui' = s.ui /\ calls' = s.calls
      /\ store' = store /\ up' = up /\ disturbed' = disturbed
  BY DEF ReceiveSnapshot, Take
<1>2. /\ Inv(store, TRUE, frames, ui, calls, disturbed) /\ up = TRUE /\ Believes(ui)
      /\ Sound(ui, calls, frames) /\ InOrder(frames, store, ui)
  BY <1>1 DEF HoldInv, Inv
<1>3. Sound(ui, calls, tl) /\ f \in Received
  BY <1>1, <1>2, TailSound
<1>4. f.snapshot \in ControllerSnapshot /\ f.snapshot.version \in Nat
  BY <1>3 DEF Received, ControllerSnapshot
<1>5. ~(f.snapshot.version < ui.seen)
  <2>1. f = frames[1] /\ 1 \in 1 .. Len(frames) /\ ui.seen \in Int
    <3>1. frames \in Seq(Received) /\ ui.seen \in Int
      BY <1>2, FramesTyping
    <3> QED
      BY <1>1, <3>1, EmptySeq
  <2>2. ui.seen <= f.snapshot.version
    BY <1>2, <2>1 DEF InOrder
  <2> QED
    BY <1>4, <2>1, <2>2
<1> HIDE DEF tl, f
<1>6. /\ Sound(s.ui, s.calls, tl) /\ s.calls = calls /\ Calm(ui, calls, s.ui, calls)
      /\ Believes(s.ui) /\ s.ui.view = f.snapshot.controllerId /\ s.ui.seen = f.snapshot.version
  BY <1>2, <1>3, <1>4, <1>5, ApplyLeads
<1> HIDE DEF s
<1>7. Lands(ui, calls, s, tl) /\ Learns(ui, s.ui, f.snapshot)
  BY <1>5, <1>6 DEF Lands, Learns
<1>8. Inv(store, TRUE, tl, s.ui, s.calls, disturbed)
  BY <1>1, <1>2, <1>6, <1>7, LearnsInv DEF f, tl
<1> QED
  BY <1>1, <1>2, <1>8 DEF HoldInv

LEMMA ReceiveAnswerInv ==
    ASSUME HoldInv, ReceiveAnswer
    PROVE  HoldInv'
<1> DEFINE f == Head(frames)
           s == Answered(ui, calls, f.who, f)
           tl == Tail(frames)
<1>1. /\ frames # <<>> /\ f.kind = "answer" /\ frames' = tl /\ ui' = s.ui /\ calls' = s.calls
      /\ store' = store /\ up' = up /\ disturbed' = disturbed
  BY DEF ReceiveAnswer, Take
<1>2. /\ Inv(store, TRUE, frames, ui, calls, disturbed) /\ up = TRUE /\ Believes(ui)
      /\ Sound(ui, calls, frames)
  BY <1>1 DEF HoldInv, Inv
<1>3. /\ Sound(ui, calls, tl) /\ f \in Received
      /\ f.who \in DOMAIN calls.wait /\ Unposted(calls, tl, f.who)
  BY <1>1, <1>2, TailSound
<1> HIDE DEF tl, f
<1>4. Lands(ui, calls, s, tl) /\ Learns(ui, s.ui, f.snapshot)
  BY <1>2, <1>3, AnsweredLands
<1> HIDE DEF s
<1>5. Inv(store, TRUE, tl, s.ui, s.calls, disturbed)
  BY <1>1, <1>2, <1>4, LearnsInv DEF f, tl
<1> QED
  BY <1>1, <1>2, <1>5 DEF HoldInv

LEMMA ReceiveApprovalInv ==
    ASSUME HoldInv, ReceiveApproval
    PROVE  HoldInv'
<1> DEFINE f == Head(frames)
           awaited == f.who \in DOMAIN calls.wait /\ calls.wait[f.who].stage = "approved"
           p == IF awaited THEN TakeOver(calls, f.who) ELSE calls
           s == Step(ui, p)
           tl == Tail(frames)
<1>1. /\ frames # <<>> /\ f.kind = "approved" /\ frames' = tl /\ ui' = s.ui /\ calls' = s.calls
      /\ store' = store /\ up' = up /\ disturbed' = disturbed
  BY DEF ReceiveApproval, Take
<1>2. /\ Inv(store, TRUE, frames, ui, calls, disturbed) /\ up = TRUE /\ Believes(ui)
      /\ Sound(ui, calls, frames) /\ ui \in Renderer
  BY <1>1 DEF HoldInv, Inv, Sound
<1>3. Sound(ui, calls, tl)
  BY <1>1, <1>2, TailSound
<1> HIDE DEF tl, f
<1>4. Sound(ui, p, tl) /\ Keeps(ui, calls, ui, p)
  <2>1. CASE awaited
    BY <1>3, <2>1, DecisionKeeps
  <2>2. CASE ~awaited
    BY <1>2, <1>3, <2>2, StayLeads, OnwardKeeps
  <2> QED
    BY <2>1, <2>2
<1> HIDE DEF p
<1>5. s.ui = ui /\ s.calls = p
  BY StepIs
<1> HIDE DEF s
<1>6. Lands(ui, calls, s, tl) /\ Learns(ui, s.ui, f.snapshot)
  BY <1>2, <1>4, <1>5 DEF Lands, Learns, Keeps
<1>7. Inv(store, TRUE, tl, s.ui, s.calls, disturbed)
  BY <1>1, <1>2, <1>6, LearnsInv DEF f, tl
<1> QED
  BY <1>1, <1>2, <1>7 DEF HoldInv

\* The renderer acts on its own, and believes what it did.
LEMMA OwnInv ==
    ASSUME HoldInv, UNCHANGED <<store, up, frames, disturbed>>,
           Sound(ui', calls', frames), Keeps(ui, calls, ui', calls')
    PROVE  HoldInv'
<1>1. Inv(store, up, frames, ui, calls, disturbed)
  BY DEF HoldInv
<1>2. Inv(store, up, frames, ui', calls', disturbed)
  BY <1>1, KeepsInv
<1> QED
  BY <1>2 DEF HoldInv

LEMMA HoldSound ==
    ASSUME HoldInv
    PROVE  Sound(ui, calls, frames) /\ Believes(ui) /\ ui \in Renderer /\ calls \in Requests
  BY DEF HoldInv, Inv, Sound

LEMMA ResumeInv ==
    ASSUME HoldInv, Resume
    PROVE  HoldInv'
<1>1. Leads(ui, calls, Resumed(ui, calls), frames)
  BY HoldSound, ResumeLeads DEF Resume
<1>2. ui' = Resumed(ui, calls).ui /\ calls' = Resumed(ui, calls).calls
  BY DEF Resume, Resumed, Take
<1>3. Sound(ui', calls', frames) /\ Keeps(ui, calls, ui', calls')
  BY <1>1, <1>2, OnwardKeeps, HoldSound DEF Leads
<1> QED
  BY <1>3, OwnInv DEF Resume

LEMMA DecideInv ==
    ASSUME HoldInv, NEW who \in DOMAIN calls.wait, Decide(who)
    PROVE  HoldInv'
<1> PICK proceed \in BOOLEAN :
        /\ ui.micro = <<>> /\ calls.wait[who].stage \in {"asking", "confirming"}
        /\ Take(IF proceed THEN Step(ui, TakeOver(calls, who))
                ELSE Ensured(ui, calls, who, "no", 0))
        /\ UNCHANGED <<store, up, frames, disturbed>>
  BY DEF Decide
<1>1. Sound(ui, calls, frames) /\ calls.wait[who].stage \notin {"sent", "lost"}
  BY HoldSound
<1>2. CASE proceed
  <2>1. ui' = ui /\ calls' = TakeOver(calls, who)
    BY <1>2, StepIs DEF Take
  <2>2. Sound(ui, TakeOver(calls, who), frames) /\ Keeps(ui, calls, ui, TakeOver(calls, who))
    BY <1>1, DecisionKeeps
  <2> QED
    BY <2>1, <2>2, OwnInv
<1>3. CASE ~proceed
  <2> DEFINE s == Declined(ui, calls, who)
  <2>1. ui' = s.ui /\ calls' = s.calls
    BY <1>3 DEF Take, Declined
  <2>2. Leads(ui, Forget(calls, who), s, frames) /\ Keeps(ui, calls, s.ui, s.calls)
    BY <1>1, DeclinedLeads
  <2> HIDE DEF s
  <2> QED
    BY <2>1, <2>2, OwnInv DEF Leads
<1> QED
  BY <1>2, <1>3

LEMMA AskUserInv ==
    ASSUME HoldInv, NEW who \in DOMAIN calls.wait, AskUser(who)
    PROVE  HoldInv'
<1> DEFINE p == [calls EXCEPT !.wait[who].stage = "confirming"]
<1>1. Sound(ui, calls, frames) /\ calls.wait[who].stage \notin {"sent", "lost"}
  BY HoldSound DEF AskUser
<1>2. ui' = ui /\ calls' = p
  BY DEF AskUser
<1>3. Sound(ui, p, frames) /\ Keeps(ui, calls, ui, p)
  BY <1>1, DecisionKeeps
<1> HIDE DEF p
<1> QED
  BY <1>2, <1>3, OwnInv DEF AskUser

LEMMA TimeoutInv ==
    ASSUME HoldInv, NEW who \in DOMAIN calls.wait, Timeout(who)
    PROVE  HoldInv'
<1> DEFINE s == Answered(ui, calls, who, Failure)
<1>1. Sound(ui, calls, frames) /\ Believes(ui) /\ calls.wait[who].stage = "lost"
  BY HoldSound DEF Timeout
<1>2. Unposted(calls, frames, who)
  <2>1. Posted(calls, frames)
    BY <1>1 DEF Sound
  <2> QED
    BY <1>1, <2>1 DEF Posted, Unposted, Names
<1>3. Lands(ui, calls, s, frames) /\ s.ui.view = ui.view /\ s.ui.seen = ui.seen
  BY <1>1, <1>2, FailureLands
<1>4. ui' = s.ui /\ calls' = s.calls
  BY DEF Timeout, Take
<1> HIDE DEF s
<1>5. Sound(ui', calls', frames) /\ Keeps(ui, calls, ui', calls')
  BY <1>3, <1>4 DEF Lands, Keeps
<1> QED
  BY <1>5, OwnInv DEF Timeout

\* Only callers and removals are listed.
LEMMA ListedWho ==
    ASSUME NEW u, NEW q, NEW fr, Sound(u, q, fr), NEW w, Listed(u, w)
    PROVE  w \in Callers \/ \E i \in 1 .. MaxLeases : w = Remover(i)
<1>1. u \in Renderer /\ Lined(u, q)
  BY DEF Sound
<1>2. ASSUME NEW e, Stands(u, q, e), e \in Continuation \/ e \in Waiter, e.who = w
      PROVE  w \in Callers \/ \E i \in 1 .. MaxLeases : w = Remover(i)
  <2>1. e.kind \in RetainKinds \cup LeaveKinds \cup {"remove"} /\ e.lease \in 1 .. MaxLeases
    BY <1>2 DEF Continuation, Waiter
  <2> QED
    BY <1>2, <2>1 DEF Stands
<1>3. CASE w \in Names(u.micro)
  <2> PICK e \in Range(u.micro) : e.who = w
    BY <1>3 DEF Names
  <2>1. Stands(u, q, e) /\ e \in Continuation
    BY <1>1, Parts DEF Lined
  <2> QED
    BY <2>1, <1>2
<1>4. ASSUME NEW i \in 1 .. MaxLeases,
             w \in Names(u.leases[i].waiters) \/ w \in Names(u.leases[i].leavers)
      PROVE  w \in Callers \/ \E j \in 1 .. MaxLeases : w = Remover(j)
  <2> PICK e \in Range(u.leases[i].waiters) \cup Range(u.leases[i].leavers) : e.who = w
    BY <1>4 DEF Names
  <2>1. Gathered(u, q, i)
    BY <1>1 DEF Lined
  <2>2. Stands(u, q, e) /\ e \in Waiter
    BY <1>1, <2>1, Parts DEF Gathered
  <2> QED
    BY <2>2, <1>2
<1> QED
  BY <1>3, <1>4 DEF Listed

LEMMA RenewTickInv ==
    ASSUME HoldInv, RenewTick
    PROVE  HoldInv'
<1> DEFINE r == Request(ui, "renew", FALSE, "skip", ui.current)
           p == Send(calls, Renewer, r)
<1>1. Sound(ui, calls, frames) /\ ui \in Renderer /\ calls \in Requests
  BY HoldSound
<1>2. Renewer \notin DOMAIN calls.wait /\ ui' = ui /\ calls' = p
  BY DEF RenewTick
<1>3. Free(ui, calls, Renewer) /\ Renewer \in Whos
  BY <1>1, <1>2, ListedWho, Whose DEF Free
<1>4. r \in Awaited /\ r.op = "renew" /\ r.stage = "sent"
  <2>1. ui.current \in 0 .. MaxLeases /\ "skip" \in Modes
    BY <1>1 DEF Renderer, Modes
  <2> QED
    BY <1>1, <2>1, RequestIs DEF Request
<1> HIDE DEF r
<1>5. Awaits(ui, Renewer, r)
  BY <1>4, Whose DEF Awaits
<1>6. /\ Refers(ui) /\ Heeds(ui)
      /\ \A i \in 1 .. MaxLeases : Renewer # Acquirer(i)
  BY <1>1, Whose DEF Sound
<1>7. Sound(ui, p, frames)
  <2> {} \in SUBSET Callers /\ \A c \in {} : Free(ui, calls, c)
    OBVIOUS
  <2>1. \A c \in Callers \ {} : ui.callers[c] = ui.callers[c]
    OBVIOUS
  <2> QED
    BY <1>1, <1>3, <1>4, <1>5, <1>6, Sends
<1>8. Onward(ui, calls, ui, calls)
  BY <1>1, StayLeads
<1>9. Onward(ui, calls, ui, p)
  BY <1>1, <1>2, <1>3, <1>4, <1>8, Whose, OnwardSend
<1>10. Keeps(ui, calls, ui, p)
  BY <1>1, <1>9, OnwardKeeps
<1> HIDE DEF p
<1> QED
  BY <1>2, <1>7, <1>10, OwnInv DEF RenewTick

LEMMA DeadlineInv ==
    ASSUME HoldInv, Deadline
    PROVE  HoldInv'
<1> DEFINE i == ui.current
           marked == [ui EXCEPT !.deadline = FALSE]
           eased == [marked EXCEPT !.leases[i].suspended = FALSE]
           cleared == IF i = 0 THEN marked ELSE ClearTimer(eased)
           step == IF ui.available THEN Step(marked, calls) ELSE InvalidateSessions(cleared, calls)
<1>1. Sound(ui, calls, frames) /\ ui \in Renderer /\ i \in 0 .. MaxLeases
  BY HoldSound DEF Renderer
<1>2. ui' = step.ui /\ calls' = step.calls
  BY DEF Deadline, Take
<1>3. Eased(ui, marked)
  BY <1>1 DEF Eased, Renderer, Like
<1> HIDE DEF i, marked
<1>4. marked \in Renderer
  BY <1>3 DEF Eased
<1>5. ASSUME i # 0 PROVE Eased(ui, cleared)
  <2>1. i \in 1 .. MaxLeases
    BY <1>1, <1>5
  <2>2. Eased(marked, eased)
    BY <1>4, <2>1, EasedOps
  <2>3. eased \in Renderer
    BY <2>2 DEF Eased
  <2>4. Eased(eased, ClearTimer(eased))
    BY <2>3, EasedStop
  <2> HIDE DEF eased
  <2> QED
    BY <1>3, <1>5, <2>2, <2>4, EasedTwice
<1>6. Eased(ui, cleared)
  BY <1>3, <1>5
<1> HIDE DEF eased, cleared
<1>7. /\ Sound(marked, calls, frames) /\ Onward(ui, calls, marked, calls)
      /\ Sound(cleared, calls, frames) /\ Onward(ui, calls, cleared, calls)
  BY <1>1, <1>3, <1>6, EasedLeads
<1>8. Leads(ui, calls, step, frames)
  <2>1. Leads(cleared, calls, InvalidateSessions(cleared, calls), frames)
    BY <1>7, EndsLeads
  <2>2. Leads(ui, calls, InvalidateSessions(cleared, calls), frames)
    BY <1>7, <2>1, LeadsAgain
  <2>3. Leads(ui, calls, Step(marked, calls), frames)
    BY <1>7, StepIs DEF Leads
  <2> QED
    BY <2>2, <2>3
<1> HIDE DEF step
<1>9. Sound(ui', calls', frames) /\ Keeps(ui, calls, ui', calls')
  BY <1>1, <1>2, <1>8, OnwardKeeps DEF Leads
<1> QED
  BY <1>9, OwnInv DEF Deadline

LEMMA ReleaseItInv ==
    ASSUME HoldInv, NEW c \in Callers, ReleaseIt(c)
    PROVE  HoldInv'
<1> PICK notify \in BOOLEAN :
            /\ ui.micro = <<>> /\ ui.callers[c].at = "holding"
            /\ Take(ReleaseHold(ui, calls, c, notify))
            /\ UNCHANGED <<store, up, frames, disturbed>>
  BY DEF ReleaseIt
<1> DEFINE s == ReleaseHold(ui, calls, c, notify)
<1>1. Sound(ui, calls, frames) /\ ui \in Renderer
  BY HoldSound
<1>2. Leads(ui, calls, s, frames)
  BY <1>1, HoldLeads
<1>3. ui' = s.ui /\ calls' = s.calls
  BY DEF Take
<1> HIDE DEF s
<1>4. Sound(ui', calls', frames) /\ Keeps(ui, calls, ui', calls')
  BY <1>1, <1>2, <1>3, OnwardKeeps DEF Leads
<1> QED
  BY <1>4, OwnInv

-----------------------------------------------------------------------------
(* Sessions open and close, callers retain. *)

\* A caller at rest is awaited nowhere.
LEMMA RestingFree ==
    ASSUME NEW u, NEW q, NEW fr, Sound(u, q, fr), NEW c \in Callers,
           u.callers[c].at \in {"idle", "open"}
    PROVE  Free(u, q, c)
  BY Unlisted DEF Free

LEMMA CloseSoundly ==
    ASSUME NEW u, NEW q, NEW fr, Sound(u, q, fr), NEW c \in Callers,
           u.callers[c].at \in {"idle", "open"}, NEW x \in {Closed, Resting(c)}, NEW v,
           \/ v = [u EXCEPT !.callers[c] = x, !.subscribed = TRUE]
           \/ v = CleanupIdle([u EXCEPT !.callers[c] = x]) /\ x = Closed
    PROVE  Sound(v, q, fr) /\ Keeps(u, q, v, q)
<1>1. u \in Renderer /\ Refers(u) /\ Heeds(u) /\ u.callers \in [Callers -> Caller] /\ Sessions \subseteq Callers
  BY HoldAssumption DEF Sound, Renderer
<1>2. x \in Caller /\ x.at \in {"idle", "open"} /\ x.lease = 0
  BY HoldAssumption DEF Closed, Resting, Caller, Ats, Modes
<1>3. Free(u, q, c) /\ {c} \in SUBSET Callers
  BY RestingFree
<1> DEFINE cs == [u.callers EXCEPT ![c] = x]
           e == [u EXCEPT !.callers[c] = x]
           some == u.current # 0 \/ \E s \in Sessions : cs[s] # Closed
<1>20. cs \in [Callers -> Caller]
  BY <1>1, <1>2
<1>21. e = [u EXCEPT !.callers = cs] /\ e.callers = cs /\ e.current = u.current /\ e.subscribed = u.subscribed
  BY <1>1 DEF Renderer
<1>22. PICK b \in BOOLEAN :
          /\ v = [u EXCEPT !.callers = cs, !.subscribed = b]
          /\ b = FALSE => (x = Closed /\ u.subscribed = FALSE)
                \/ (u.current = 0 /\ \A s \in Sessions : cs[s] = Closed)
  <2>1. CASE v = [u EXCEPT !.callers[c] = x, !.subscribed = TRUE]
    <3>1. v = [u EXCEPT !.callers = cs, !.subscribed = TRUE]
      BY <1>1, <2>1 DEF Renderer
    <3> QED
      BY <3>1
  <2>2. CASE v = CleanupIdle(e) /\ x = Closed
    <3> DEFINE b0 == u.subscribed /\ some
    <3>1. v = [e EXCEPT !.subscribed = b0]
      BY <1>21, <2>2 DEF CleanupIdle
    <3> HIDE DEF cs, e
    <3>2. v = [u EXCEPT !.callers = cs, !.subscribed = b0]
      BY <1>1, <1>21, <3>1 DEF Renderer
    <3>3. b0 \in BOOLEAN /\ u.subscribed \in BOOLEAN
      BY <1>1 DEF Renderer
    <3> QED
      BY <2>2, <3>2, <3>3
  <2> QED
    BY <2>1, <2>2
<1> HIDE DEF cs, e
<1>4. /\ v \in Renderer /\ v.micro = u.micro /\ v.blips = u.blips /\ v.leases = u.leases
      /\ v.view = u.view /\ v.seen = u.seen /\ v.current = u.current
      /\ v.callers = cs /\ v.subscribed = b
  BY <1>1, <1>20, <1>22 DEF Renderer
<1>5. /\ v.callers[c] = x
      /\ \A d \in Callers \ {c} : v.callers[d] = u.callers[d]
  BY <1>1, <1>4 DEF cs
<1>6. Refers(v)
  BY <1>1, <1>2, <1>5 DEF Refers
<1>7. Heeds(v)
  <2> SUFFICES ASSUME ~v.subscribed
               PROVE  v.current = 0 /\ \A s \in Sessions : v.callers[s] = Closed
    BY DEF Heeds
  <2>1. b = FALSE
    BY <1>4
  <2>2. CASE u.subscribed = FALSE /\ x = Closed
    <3>1. u.current = 0 /\ \A s \in Sessions : u.callers[s] = Closed
      BY <1>1, <2>2 DEF Heeds
    <3> QED
      BY <1>1, <1>4, <1>5, <2>2, <3>1
  <2> QED
    BY <1>4, <1>22, <2>1, <2>2
<1>8. Sound(v, q, fr)
  <2>1. \A i \in 1 .. MaxLeases : Like(u, v, i)
    BY <1>4 DEF Like
  <2> DEFINE S == {c}
  <2>2. S \in SUBSET Callers /\ \A d \in S : Free(u, q, d)
    BY <1>3
  <2>3. \A d \in Callers \ S : v.callers[d] = u.callers[d]
    BY <1>5
  <2>4. v \in Renderer /\ v.micro = u.micro /\ v.blips = u.blips
    BY <1>4
  <2> HIDE DEF S
  <2> QED
    BY <1>6, <1>7, <2>1, <2>2, <2>3, <2>4, Moves
<1>9. Calm(u, q, v, q)
  BY <1>4 DEF Calm, Marked
<1>10. Believes(u) => Believes(v)
  BY <1>1, <1>2, <1>4, <1>5 DEF Believes
<1> QED
  BY <1>4, <1>8, <1>9, <1>10 DEF Keeps

LEMMA OpenInv ==
    ASSUME HoldInv, NEW s \in Callers, Open(s)
    PROVE  HoldInv'
<1>1. Sound(ui, calls, frames) /\ ui.callers[s].at \in {"idle", "open"}
  BY HoldSound DEF Open, Closed
<1>2. ui' = [ui EXCEPT !.callers[s] = Resting(s), !.subscribed = TRUE] /\ calls' = calls
  BY DEF Open
<1>3. Sound(ui', calls, frames) /\ Keeps(ui, calls, ui', calls)
  BY <1>1, <1>2, CloseSoundly
<1> QED
  BY <1>2, <1>3, OwnInv DEF Open

LEMMA CloseInv ==
    ASSUME HoldInv, NEW s \in Callers, Close(s)
    PROVE  HoldInv'
<1>1. Sound(ui, calls, frames) /\ ui.callers[s].at \in {"idle", "open"}
  BY HoldSound DEF Close, Resting
<1>2. ui' = CleanupIdle([ui EXCEPT !.callers[s] = Closed]) /\ calls' = calls
  BY DEF Close
<1>3. Sound(ui', calls, frames) /\ Keeps(ui, calls, ui', calls)
  BY <1>1, <1>2, CloseSoundly
<1> QED
  BY <1>2, <1>3, OwnInv DEF Close

\* A local lease nobody refers to is made again.
LEMMA FreshSound ==
    ASSUME NEW u, NEW q, NEW fr, Sound(u, q, fr), NEW i \in 1 .. MaxLeases, Unused(u, q, i)
    PROVE  LET v == [u EXCEPT !.leases[i] = NewLease]
           IN  /\ Sound(v, q, fr) /\ Keeps(u, q, v, q) /\ v.callers = u.callers
               /\ v.leases[i] = NewLease
               /\ \A w : Free(u, q, w) => Free(v, q, w)
<1> DEFINE v == [u EXCEPT !.leases[i] = NewLease]
<1>1. /\ u \in Renderer /\ q \in Requests /\ Refers(u) /\ Heeds(u) /\ Lined(u, q) /\ Posted(q, fr)
      /\ fr \in Seq(Received)
  BY DEF Sound
<1>2. NewLease \in LocalLease
  BY HoldAssumption DEF NewLease, LocalLease
<1>3. /\ v \in Renderer /\ v.micro = u.micro /\ v.blips = u.blips /\ v.callers = u.callers
      /\ v.view = u.view /\ v.seen = u.seen /\ v.current = u.current /\ v.subscribed = u.subscribed
      /\ v.leases[i] = NewLease
      /\ \A j \in 1 .. MaxLeases \ {i} : v.leases[j] = u.leases[j]
  BY <1>1, <1>2 DEF Renderer
<1> HIDE DEF v
<1>4. /\ \A w \in DOMAIN q.wait : q.wait[w].lease # i
      /\ \A e \in Range(u.micro) : e.lease # i
      /\ u.current # i
  BY DEF Unused, Range
<1>5. ~u.leases[i].acquiring
  <2>1. Gathered(u, q, i)
    BY <1>1 DEF Lined
  <2> SUFFICES ASSUME u.leases[i].acquiring PROVE FALSE
    OBVIOUS
  <2>2. Acquirer(i) \in DOMAIN q.wait
    BY <2>1 DEF Gathered
  <2>3. q.wait[Acquirer(i)].lease = i
    BY <1>1, <2>2 DEF Lined, Awaits
  <2> QED
    BY <1>4, <2>2, <2>3
<1>6. u.leases[i].waiters = <<>> /\ u.leases[i].leavers = <<>>
  BY <1>1, <1>5 DEF Lined, Gathered
<1>7. NewLease.waiters = <<>> /\ NewLease.leavers = <<>> /\ ~NewLease.acquiring /\ ~NewLease.suspended
  BY DEF NewLease
<1>8. ASSUME NEW w \in DOMAIN q.wait PROVE Awaits(v, w, q.wait[w])
  <2>1. Awaits(u, w, q.wait[w]) /\ q.wait[w].lease # i
    BY <1>1, <1>4 DEF Lined
  <2>2. \A j \in 1 .. MaxLeases : w = Acquirer(j) \/ w = Remover(j) => j # i
    BY <2>1 DEF Awaits
  <2> QED
    BY <1>3, <2>1, <2>2 DEF Awaits
<1>9. ASSUME NEW e, e.lease \in 1 .. MaxLeases \ {i}, Stands(u, q, e) PROVE Stands(v, q, e)
  BY <1>3, <1>9 DEF Stands
<1>10. ASSUME NEW e \in Range(u.micro) PROVE Stands(v, q, e)
  <2>1. e.lease \in 1 .. MaxLeases \ {i} /\ Stands(u, q, e)
    BY <1>1, <1>4, Parts DEF Lined
  <2> QED
    BY <2>1, <1>9
<1>11. ASSUME NEW j \in 1 .. MaxLeases PROVE Gathered(v, q, j)
  <2>1. Gathered(u, q, j)
    BY <1>1 DEF Lined
  <2>2. CASE j = i
    <3>1. Range(v.leases[j].waiters) = {} /\ Range(v.leases[j].leavers) = {}
      BY <1>3, <1>7, <2>2 DEF Range
    <3>2. v.leases[j].waiters = u.leases[j].waiters /\ v.leases[j].leavers = u.leases[j].leavers
      BY <1>3, <1>6, <1>7, <2>2
    <3>3. ~v.leases[j].acquiring
      BY <1>3, <1>7, <2>2
    <3> QED
      BY <1>3, <1>6, <2>1, <2>2, <3>1, <3>2, <3>3 DEF Gathered
  <2>3. CASE j # i
    <3>1. v.leases[j] = u.leases[j]
      BY <1>3, <2>3
    <3>2. ASSUME NEW e \in Range(u.leases[j].waiters) \cup Range(u.leases[j].leavers)
          PROVE  Stands(v, q, e)
      BY <1>9, <2>1, <2>3 DEF Gathered
    <3> QED
      BY <1>3, <2>1, <3>1, <3>2 DEF Gathered
  <2> QED
    BY <2>2, <2>3
<1>12. Lined(v, q)
  BY <1>1, <1>3, <1>8, <1>10, <1>11 DEF Lined
<1>13. Refers(v) /\ Heeds(v)
  BY <1>1, <1>3 DEF Refers, Heeds
<1>14. Keeps(u, q, v, q)
  <2>1. u.current \in 0 .. MaxLeases
    BY <1>1 DEF Renderer
  <2>2. Marked(v) => Marked(u)
    BY <1>3, <1>4, <2>1 DEF Marked
  <2> QED
    BY <1>3, <2>2 DEF Keeps, Calm, Believes
<1>15. \A w : Listed(v, w) => Listed(u, w)
  <2>1. \A j \in 1 .. MaxLeases :
           v.leases[j].waiters = u.leases[j].waiters /\ v.leases[j].leavers = u.leases[j].leavers
    BY <1>3, <1>6, <1>7
  <2> QED
    BY <1>3, <2>1 DEF Listed
<1> QED
  BY <1>1, <1>3, <1>12, <1>13, <1>14, <1>15 DEF Sound, Free, v

\* A caller at rest retains the local lease.
LEMMA RetainOnKeeps ==
    ASSUME NEW u0, NEW q, NEW fr, Sound(u0, q, fr), NEW c \in Callers,
           u0.callers[c].at \in {"idle", "open"}, NEW i \in 1 .. MaxLeases,
           u0.leases[i].hold < MaxHolds, NEW mode \in Modes,
           u0.leases[i].suspended => u0.current = i
    PROVE  LET s == RetainOn(u0, q, c, i, mode)
           IN  Sound(s.ui, s.calls, fr) /\ Keeps(u0, q, s.ui, s.calls)
<1> DEFINE x == [at |-> "waiting", lease |-> i, mode |-> mode]
           l == [u0.leases[i] EXCEPT !.hold = @ + 1]
           u == [u0 EXCEPT !.subscribed = TRUE, !.current = i, !.leases[i].hold = @ + 1,
                           !.callers[c] = x]
           lease == u.leases[i]
           s == RetainOn(u0, q, c, i, mode)
<1>1. u0 \in Renderer /\ Refers(u0) /\ u0.leases[i] \in LocalLease /\ u0.callers \in [Callers -> Caller]
  BY DEF Sound, Renderer
<1>2. l \in LocalLease
  <2>1. u0.leases[i].hold + 1 \in 0 .. MaxHolds
    BY <1>1, HoldAssumption DEF LocalLease
  <2> QED
    BY <1>1, <2>1 DEF LocalLease
<1>3. x \in Caller /\ x.at = "waiting" /\ x.lease = i
  BY DEF Caller, Ats
<1>4. l.removed = u0.leases[i].removed /\ l.acquiring = u0.leases[i].acquiring
      /\ l.waiters = u0.leases[i].waiters /\ l.leavers = u0.leases[i].leavers
      /\ l.suspended = u0.leases[i].suspended
  BY <1>1 DEF LocalLease
<1> DEFINE ls == [u0.leases EXCEPT ![i] = l]
           cs == [u0.callers EXCEPT ![c] = x]
<1>5. u = [u0 EXCEPT !.subscribed = TRUE, !.current = i, !.leases = ls, !.callers = cs]
  BY <1>1 DEF Renderer
<1>50. ls \in [1 .. MaxLeases -> LocalLease] /\ cs \in [Callers -> Caller]
  BY <1>1, <1>2, <1>3 DEF Renderer
<1> HIDE DEF x, l, u, ls, cs
<1>6. /\ u \in Renderer /\ u.micro = u0.micro /\ u.blips = u0.blips /\ u.view = u0.view
      /\ u.seen = u0.seen /\ u.current = i /\ u.subscribed = TRUE
      /\ u.leases = ls /\ u.callers = cs
  <2>1. i \in 0 .. MaxLeases
    BY HoldAssumption
  <2> QED
    BY <1>1, <1>5, <1>50, <2>1 DEF Renderer
<1>7. /\ u.leases[i] = l /\ \A j \in 1 .. MaxLeases \ {i} : u.leases[j] = u0.leases[j]
      /\ u.callers[c] = x /\ \A d \in Callers \ {c} : u.callers[d] = u0.callers[d]
  <2>1. u0.leases \in [1 .. MaxLeases -> LocalLease]
    BY <1>1 DEF Renderer
  <2>2. ls[i] = l /\ \A j \in 1 .. MaxLeases \ {i} : ls[j] = u0.leases[j]
    BY <2>1 DEF ls
  <2>3. cs[c] = x /\ \A d \in Callers \ {c} : cs[d] = u0.callers[d]
    BY <1>1 DEF cs
  <2> QED
    BY <1>6, <2>2, <2>3
<1>8. \A j \in 1 .. MaxLeases : Like(u0, u, j)
  BY <1>4, <1>7 DEF Like
<1>9. Refers(u)
  BY <1>1, <1>3, <1>7 DEF Refers
<1>10. Heeds(u)
  BY <1>6 DEF Heeds
<1>11. Sound(u, q, fr) /\ Free(u, q, c)
  <2> DEFINE S == {c}
  <2>1. S \in SUBSET Callers /\ \A d \in S : Free(u0, q, d)
    BY RestingFree
  <2>2. (\A d \in Callers \ S : u.callers[d] = u0.callers[d]) /\ c \in S
    BY <1>7
  <2> HIDE DEF S
  <2> QED
    BY <1>6, <1>8, <1>9, <1>10, <2>1, <2>2, Moves
<1>12. Keeps(u0, q, u, q)
  <2>1. Marked(u) => Marked(u0)
    BY <1>4, <1>6, <1>7 DEF Marked
  <2>2. Believes(u0) => Believes(u)
    BY <1>3, <1>6, <1>7, HoldAssumption DEF Believes
  <2> QED
    BY <1>6, <2>1, <2>2 DEF Keeps, Calm
<1>13. u.callers[c].lease = i
  BY <1>3, <1>7
<1>14. Leads(u, q, s, fr)
  <2>1. CASE lease.timer
    <3>1. s = Refresh(u, q, c, i, "refreshing")
      BY <2>1 DEF RetainOn, u, x
    <3>2. "refreshing" \in {"refreshing", "confirming"}
      OBVIOUS
    <3>3. Leads(u, q, Refresh(u, q, c, i, "refreshing"), fr)
      BY <1>11, <1>13, <3>2, RefreshLeads
    <3> QED
      BY <3>1, <3>3
  <2>2. CASE ~lease.timer
    <3> DEFINE step == IF lease.acquiring THEN Step(u, q) ELSE StartAcquire(u, q, i, mode)
    <3>1. PICK kind \in RetainKinds : s = Step(Wait(step.ui, c, i, kind), step.calls)
      <4>1. "escalate" \in RetainKinds /\ "retain" \in RetainKinds
        BY DEF RetainKinds
      <4> QED
        BY <2>2, <4>1 DEF RetainOn, u, x
    <3>2. /\ Leads(u, q, step, fr) /\ step.ui.leases[i].acquiring
          /\ step.ui.callers = u.callers /\ Free(step.ui, step.calls, c)
      <4>1. CASE lease.acquiring
        BY <1>11, <4>1, StayLeads, StepIs
      <4>2. CASE ~lease.acquiring
        <5>1. c # Acquirer(i)
          BY Whose
        <5> QED
          BY <1>11, <4>2, <5>1, StartLeads
      <4> QED
        BY <4>1, <4>2
    <3> HIDE DEF step
    <3>3. Leads(step.ui, step.calls, Step(Wait(step.ui, c, i, kind), step.calls), fr)
      BY <1>13, <3>2, WaitLeads DEF Leads
    <3> QED
      BY <3>1, <3>2, <3>3, LeadsAgain DEF Leads
  <2> QED
    BY <2>1, <2>2
<1> HIDE DEF s
<1>15. Keeps(u, q, s.ui, s.calls)
  BY <1>6, <1>14, OnwardKeeps DEF Leads
<1> QED
  BY <1>12, <1>14, <1>15, KeepsAgain DEF Leads, s

LEMMA RetainInv ==
    ASSUME HoldInv, NEW c \in Callers, NEW mode \in Modes, Retain(c, mode)
    PROVE  HoldInv'
<1> DEFINE fresh == {k \in 1 .. MaxLeases : Unused(ui, calls, k)}
           i == CHOOSE k \in fresh : TRUE
           retired == ClearTimer(ui)
           made == [retired EXCEPT !.leases[i] = NewLease, !.orphans = @ \/ retired.leases[i].timer]
           reuses == ui.current # 0 /\ ~ui.leases[ui.current].removed
           step == IF reuses THEN RetainOn(ui, calls, c, ui.current, mode)
                   ELSE RetainOn(made, calls, c, i, mode)
<1>1. /\ Sound(ui, calls, frames) /\ ui \in Renderer /\ ui.callers[c].at \in {"idle", "open"}
  BY HoldSound DEF Retain, Resting
<1>2. ui' = step.ui /\ calls' = step.calls
  BY DEF Retain, Take
<1>3. CASE reuses
  <2>1. ui.current \in 1 .. MaxLeases /\ ui.leases[ui.current].hold < MaxHolds
    BY <1>1, <1>3 DEF Renderer, Retain
  <2>2. step = RetainOn(ui, calls, c, ui.current, mode)
    BY <1>3
  <2>3. Sound(step.ui, step.calls, frames) /\ Keeps(ui, calls, step.ui, step.calls)
    BY <1>1, <2>1, <2>2, RetainOnKeeps
  <2> HIDE DEF step
  <2> QED
    BY <1>2, <2>3, OwnInv DEF Retain
<1>4. CASE ~reuses
  <2>1. i \in 1 .. MaxLeases /\ Unused(ui, calls, i)
    <3>1. fresh # {}
      BY <1>4 DEF Retain
    <3> QED
      BY <3>1
  <2> HIDE DEF i
  <2>2. Eased(ui, retired) /\ retired \in Renderer
    BY <1>1, EasedStop DEF Eased
  <2> DEFINE b == retired.orphans \/ retired.leases[i].timer
             x == [retired EXCEPT !.orphans = b]
  <2> HIDE DEF retired
  <2>3. b \in BOOLEAN
    BY <2>1, <2>2 DEF Renderer, LocalLease
  <2>4. Eased(ui, x) /\ x \in Renderer
    <3> HIDE DEF b, x
    <3>1. Eased(ui, [retired EXCEPT !.orphans = b])
      BY <2>2, <2>3, EasedOrphans
    <3> QED
      BY <3>1 DEF Eased, x
  <2>5. made = [x EXCEPT !.leases[i] = NewLease]
    BY <2>2 DEF Renderer
  <2> HIDE DEF made, x
  <2>6. Sound(x, calls, frames) /\ Onward(ui, calls, x, calls)
    BY <1>1, <2>4, EasedLeads
  <2>7. Unused(x, calls, i)
    BY <2>1, <2>4 DEF Unused, Eased
  <2>8. /\ Sound(made, calls, frames) /\ Keeps(x, calls, made, calls) /\ made.callers = x.callers
        /\ made.leases[i] = NewLease
    BY <2>1, <2>5, <2>6, <2>7, FreshSound
  <2>9. made.callers[c].at \in {"idle", "open"}
    BY <1>1, <2>4, <2>8 DEF Eased
  <2>10. made.leases[i].hold < MaxHolds /\ ~made.leases[i].suspended
    BY <2>8, HoldAssumption DEF NewLease
  <2>11. Keeps(ui, calls, made, calls)
    BY <1>1, <2>6, <2>8, OnwardKeeps, KeepsAgain
  <2>12. step = RetainOn(made, calls, c, i, mode)
    BY <1>4
  <2>13. Sound(step.ui, step.calls, frames) /\ Keeps(made, calls, step.ui, step.calls)
    BY <2>1, <2>8, <2>9, <2>10, <2>12, RetainOnKeeps
  <2> HIDE DEF step, reuses
  <2>14. Keeps(ui, calls, step.ui, step.calls)
    BY <2>11, <2>13, KeepsAgain
  <2> QED
    BY <1>2, <2>13, <2>14, OwnInv DEF Retain
<1> QED
  BY <1>3, <1>4

-----------------------------------------------------------------------------
(* The task is removed. *)

\* The renderer forgets the controller with the task, and ends its sessions.
LEMMA ForgottenInv ==
    ASSUME NEW s, NEW connected, NEW fr, NEW u, NEW q, NEW d, Inv(s, connected, fr, u, q, d),
           NEW v, NEW p, Sound(v, p, fr), Calm(u, q, v, p), Believes(v),
           v.view = None, v.seen = -1, NEW e, Backed(s, v, e)
    PROVE  Inv(s, connected, fr, v, p, e)
<1>1. Self # None
  BY HoldAssumption, LeaseAssumption
<1>2. InOrder(fr, s, v)
  <2>1. InOrder(fr, s, u)
    BY DEF Inv
  <2>2. v.seen <= s.version /\ \A n \in 1 .. Len(fr) : v.seen <= fr[n].snapshot.version
    BY FramesTyping
  <2> QED
    BY <2>1, <2>2 DEF InOrder
<1>3. connected => Told(fr, s, v)
  BY <1>1 DEF Inv, Told
<1>4. Unclaimed(u, q) => Unclaimed(v, p)
  <2>1. u.blips \in Nat /\ v.blips = u.blips
    BY FramesTyping DEF Renderer, Calm
  <2> QED
    BY <2>1 DEF Unclaimed, Calm
<1> QED
  BY <1>2, <1>3, <1>4 DEF Inv

LEMMA ForgottenSound ==
    ASSUME NEW u, NEW q, NEW fr, Sound(u, q, fr)
    PROVE  LET i == u.current
               v == [u EXCEPT !.view = None, !.seen = -1]
               x == ClearTimer([v EXCEPT !.leases[i].removed = TRUE])
           IN  /\ Sound(v, q, fr) /\ Calm(u, q, v, q) /\ v.view = None /\ v.seen = -1
               /\ i # 0 => /\ Sound(x, q, fr) /\ Calm(u, q, x, q) /\ x.view = None /\ x.seen = -1
                           /\ x.current = i /\ x.leases[i].removed /\ x.micro = u.micro
                           /\ \A w : Free(u, q, w) => Free(x, q, w)
<1> DEFINE i == u.current
           v == [u EXCEPT !.view = None, !.seen = -1]
           y == [v EXCEPT !.leases[i].removed = TRUE]
           x == ClearTimer(y)
           S == {}
<1>1. u \in Renderer /\ Refers(u) /\ Heeds(u) /\ i \in 0 .. MaxLeases
  BY DEF Sound, Renderer
<1>2. S \in SUBSET Callers /\ \A c \in S : Free(u, q, c)
  OBVIOUS
<1>3. /\ v \in Renderer /\ v.micro = u.micro /\ v.blips = u.blips /\ v.callers = u.callers
      /\ v.leases = u.leases /\ v.current = i /\ v.subscribed = u.subscribed
      /\ v.view = None /\ v.seen = -1
  BY <1>1 DEF Renderer
<1> HIDE DEF v, i, S
<1>4. Refers(v) /\ Heeds(v) /\ (\A j \in 1 .. MaxLeases : Like(u, v, j)) /\ Calm(u, q, v, q)
  BY <1>1, <1>3 DEF Refers, Heeds, Like, Calm, Marked, i
<1>5. Sound(v, q, fr)
  BY <1>2, <1>3, <1>4, Moves
<1>6. ASSUME i # 0
      PROVE  /\ Sound(x, q, fr) /\ Calm(u, q, x, q) /\ x.view = None /\ x.seen = -1
             /\ x.current = i /\ x.leases[i].removed /\ x.micro = u.micro
             /\ \A w : Free(u, q, w) => Free(x, q, w)
  <2>1. i \in 1 .. MaxLeases
    BY <1>1, <1>6
  <2> DEFINE l == [u.leases[i] EXCEPT !.removed = TRUE]
             ls == [u.leases EXCEPT ![i] = l]
  <2>2. /\ l \in LocalLease /\ l.removed /\ l.suspended = u.leases[i].suspended
        /\ l.acquiring = u.leases[i].acquiring /\ l.waiters = u.leases[i].waiters
        /\ l.leavers = u.leases[i].leavers
    BY <1>1, <2>1 DEF Renderer, LocalLease
  <2>3. y = [v EXCEPT !.leases = ls]
    BY <1>3 DEF Renderer
  <2> HIDE DEF l, y
  <2>4. /\ ls \in [1 .. MaxLeases -> LocalLease] /\ ls[i] = l
        /\ \A j \in 1 .. MaxLeases \ {i} : ls[j] = u.leases[j]
    BY <1>1, <2>1, <2>2 DEF Renderer
  <2> HIDE DEF ls
  <2>5. /\ y \in Renderer /\ y.micro = u.micro /\ y.blips = u.blips /\ y.callers = u.callers
        /\ y.leases = ls /\ y.current = i /\ y.subscribed = u.subscribed
        /\ y.view = None /\ y.seen = -1
    BY <1>3, <2>3, <2>4 DEF Renderer
  <2>6. \A j \in 1 .. MaxLeases : Like(u, y, j) /\ (y.leases[j].suspended => u.leases[j].suspended)
    BY <2>2, <2>4, <2>5 DEF Like
  <2>7. Refers(y) /\ Heeds(y)
    BY <1>1, <1>3, <2>5 DEF Refers, Heeds, i
  <2>8. Sound(y, q, fr) /\ \A w : Free(u, q, w) => Free(y, q, w)
    BY <1>2, <2>5, <2>6, <2>7, Moves
  <2>9. Eased(y, x)
    BY <2>5, EasedStop
  <2> HIDE DEF x
  <2>10. Sound(x, q, fr) /\ \A w : Free(y, q, w) => Free(x, q, w)
    BY <2>8, <2>9, EasedLeads
  <2>11. /\ x.view = None /\ x.seen = -1 /\ x.current = i /\ x.micro = u.micro /\ x.blips = u.blips
         /\ x.leases[i].removed /\ (x.leases[i].suspended => u.leases[i].suspended)
    BY <2>1, <2>2, <2>4, <2>5, <2>9 DEF Eased, Like
  <2>12. Calm(u, q, x, q)
    BY <2>11 DEF Calm, Marked, i
  <2> QED
    BY <2>8, <2>10, <2>11, <2>12
<1> QED
  BY <1>3, <1>4, <1>5, <1>6 DEF v, i

\* The removal waits for the acquire in flight.
LEMMA WaitsSound ==
    ASSUME NEW u, NEW q, NEW fr, Sound(u, q, fr), NEW i \in 1 .. MaxLeases,
           u.leases[i].removed, u.leases[i].acquiring, Free(u, q, Remover(i))
    PROVE  LET waiter == [who |-> Remover(i), kind |-> "remove", lease |-> i]
               v == [u EXCEPT !.leases[i].leavers = Append(@, waiter)]
           IN  Sound(v, q, fr) /\ Keeps(u, q, v, q)
<1> DEFINE waiter == [who |-> Remover(i), kind |-> "remove", lease |-> i]
           l == [u.leases[i] EXCEPT !.leavers = Append(@, waiter)]
           ls == [u.leases EXCEPT ![i] = l]
           v == [u EXCEPT !.leases[i].leavers = Append(@, waiter)]
<1>1. u \in Renderer /\ Refers(u) /\ Heeds(u) /\ u.leases[i] \in LocalLease /\ u.leases[i].leavers \in Seq(Waiter)
  BY Parts DEF Sound
<1>2. waiter \in Waiter /\ waiter.who = Remover(i) /\ waiter.kind = "remove" /\ waiter.lease = i
  BY Whose DEF Waiter
<1> HIDE DEF waiter
<1>3. Append(u.leases[i].leavers, waiter) \in Seq(Waiter)
  BY <1>1, <1>2
<1>4. /\ l \in LocalLease /\ l.removed = u.leases[i].removed /\ l.acquiring = u.leases[i].acquiring
      /\ l.waiters = u.leases[i].waiters /\ l.leavers = Append(u.leases[i].leavers, waiter)
      /\ l.suspended = u.leases[i].suspended
  BY <1>1, <1>3 DEF LocalLease
<1>5. v = [u EXCEPT !.leases = ls]
  BY <1>1 DEF Renderer
<1> HIDE DEF l, v
<1>6. /\ ls \in [1 .. MaxLeases -> LocalLease] /\ ls[i] = l
      /\ \A j \in 1 .. MaxLeases \ {i} : ls[j] = u.leases[j]
  BY <1>1, <1>4 DEF Renderer
<1> HIDE DEF ls
<1>7. /\ v \in Renderer /\ v.micro = u.micro /\ v.blips = u.blips /\ v.callers = u.callers
      /\ v.leases = ls /\ v.current = u.current /\ v.subscribed = u.subscribed
      /\ v.view = u.view /\ v.seen = u.seen
  BY <1>1, <1>5, <1>6 DEF Renderer
<1>8. Refers(v) /\ Heeds(v)
  BY <1>1, <1>7 DEF Refers, Heeds
<1>9. Stands(v, q, waiter)
  BY <1>2, <1>4, <1>6, <1>7 DEF Stands, Free, RetainKinds, LeaveKinds
<1>10. \A j \in 1 .. MaxLeases :
              /\ u.leases[j].removed => v.leases[j].removed
              /\ v.leases[j].acquiring = u.leases[j].acquiring
              /\ j # i => v.leases[j].waiters = u.leases[j].waiters
                          /\ v.leases[j].leavers = u.leases[j].leavers
              /\ v.leases[j].suspended = u.leases[j].suspended
  BY <1>4, <1>6, <1>7
<1>11. /\ waiter.kind \notin RetainKinds /\ v.leases[i].waiters = u.leases[i].waiters
       /\ v.leases[i].leavers = Append(u.leases[i].leavers, waiter)
  BY <1>2, <1>4, <1>6, <1>7 DEF RetainKinds
<1>12. Sound(v, q, fr)
  BY <1>2, <1>7, <1>8, <1>9, <1>10, <1>11, Joins
<1>13. Marked(v) => Marked(u)
  <2>1. u.current \in 0 .. MaxLeases
    BY <1>1 DEF Renderer
  <2> QED
    BY <1>7, <1>10, <2>1 DEF Marked
<1>14. Keeps(u, q, v, q)
  BY <1>7, <1>13 DEF Keeps, Calm, Believes
<1> QED
  BY <1>12, <1>14 DEF v, waiter

LEMMA RemoveTaskInv ==
    ASSUME HoldInv, RemoveTask
    PROVE  HoldInv'
<1> DEFINE i == ui.current
           forgotten == [ui EXCEPT !.view = None, !.seen = -1]
           retired == ClearTimer([forgotten EXCEPT !.leases[i].removed = TRUE])
           x == IF i = 0 THEN forgotten ELSE retired
           ended == InvalidateSessions(x, calls)
           waiter == [who |-> Remover(i), kind |-> "remove", lease |-> i]
           waits == [ended.ui EXCEPT !.leases[i].leavers = Append(@, waiter)]
           step == IF i = 0 THEN ended
                   ELSE IF ended.ui.leases[i].acquiring THEN Step(waits, ended.calls)
                   ELSE Removed(ended.ui, ended.calls, i)
<1>1. /\ Sound(ui, calls, frames) /\ ui \in Renderer /\ i \in 0 .. MaxLeases
      /\ Inv(store, up, frames, ui, calls, disturbed) /\ Backed(store, ui, disturbed)
  BY HoldSound DEF HoldInv, Inv, Renderer
<1>2. /\ Disturb("removal") /\ ui.micro = <<>> /\ (i # 0 => ~ui.leases[i].removed)
      /\ i # 0 => Remover(i) \notin DOMAIN calls.wait
      /\ ui' = step.ui /\ calls' = step.calls /\ UNCHANGED <<store, up, frames>>
  BY DEF RemoveTask, Take
<1>3. /\ Sound(x, calls, frames) /\ Calm(ui, calls, x, calls) /\ x.view = None /\ x.seen = -1
      /\ i # 0 => /\ x.current = i /\ x.leases[i].removed
                  /\ \A w : Free(ui, calls, w) => Free(x, calls, w)
  BY <1>1, ForgottenSound
<1>4. i # 0 => Free(ui, calls, Remover(i))
  <2> SUFFICES ASSUME i # 0, Listed(ui, Remover(i)) PROVE FALSE
    BY <1>2 DEF Free
  <2>1. Remover(i) \notin Names(ui.micro)
    <3> HIDE DEF i, x, ended, step
    <3>1. Range(<<>>) = {}
      BY DEF Range
    <3>2. ui.micro = <<>>
      BY <1>2
    <3>3. Names(<<>>) = {}
      BY <3>1 DEF Names
    <3> QED
      BY <3>2, <3>3
  <2>2. PICK j \in 1 .. MaxLeases :
            Remover(i) \in Names(ui.leases[j].waiters) \/ Remover(i) \in Names(ui.leases[j].leavers)
    BY <2>1 DEF Listed
  <2>3. PICK e \in Range(ui.leases[j].waiters) \cup Range(ui.leases[j].leavers) : e.who = Remover(i)
    BY <2>2 DEF Names
  <2>4. Stands(ui, calls, e) /\ e \in Waiter
    <3>1. Gathered(ui, calls, j)
      BY <1>1 DEF Sound, Lined
    <3> QED
      BY <1>1, <3>1, Parts DEF Gathered
  <2>5. e.who \notin Callers
    BY <1>1, <2>3, Whose
  <2>6. e.kind = "remove"
    BY <2>4, <2>5 DEF Stands, Waiter
  <2>7. e.who = Remover(e.lease) /\ ui.leases[e.lease].removed
    BY <2>4, <2>6 DEF Stands
  <2>8. e.lease = i
    BY <2>3, <2>7, Whose
  <2> QED
    BY <1>2, <2>7, <2>8
<1> HIDE DEF i, x, forgotten, retired
<1>5. /\ Leads(x, calls, ended, frames) /\ ended.calls = calls
      /\ \A c \in Sessions : ended.ui.callers[c].at # "holding"
      /\ \A w : w \notin Sessions /\ Free(x, calls, w) => Free(ended.ui, calls, w)
      /\ Retired(x) => ended.ui.leases = x.leases /\ ended.ui.current = x.current
  BY <1>3, EndsLeads
<1> HIDE DEF ended
<1>6. /\ Sound(ended.ui, calls, frames) /\ Believes(ended.ui) /\ Keeps(x, calls, ended.ui, calls)
  BY <1>3, <1>5, OnwardKeeps DEF Leads, Believes, Sound
<1>7. Sound(step.ui, step.calls, frames) /\ Keeps(ended.ui, calls, step.ui, step.calls)
  <2>1. CASE i = 0
    <3>1. Onward(ended.ui, calls, ended.ui, calls)
      BY <1>6, StayLeads
    <3> QED
      BY <1>5, <1>6, <2>1, <3>1, OnwardKeeps DEF Sound
  <2>2. CASE i # 0
    <3>1. i \in 1 .. MaxLeases /\ Sessions \subseteq Callers
      BY <1>1, <2>2, HoldAssumption
    <3>2. ended.ui.leases[i].removed /\ Free(ended.ui, calls, Remover(i))
      BY <1>3, <1>4, <1>5, <2>2, <3>1, Whose DEF Retired
    <3>3. CASE ended.ui.leases[i].acquiring
      <4>1. step.ui = waits /\ step.calls = calls
        BY <1>5, <2>2, <3>3, StepIs
      <4> HIDE DEF step
      <4> QED
        BY <1>6, <3>1, <3>2, <3>3, <4>1, WaitsSound
    <3>4. CASE ~ended.ui.leases[i].acquiring
      <4>1. step = Removed(ended.ui, calls, i)
        BY <1>5, <2>2, <3>4
      <4> HIDE DEF step
      <4>2. Leads(ended.ui, calls, step, frames)
        BY <1>6, <3>1, <3>2, <4>1, RemovedLeads
      <4> QED
        BY <1>6, <4>2, OnwardKeeps DEF Leads, Sound
    <3> QED
      BY <3>3, <3>4
  <2> QED
    BY <2>1, <2>2
<1> HIDE DEF step
<1>8. /\ Calm(ui, calls, step.ui, step.calls) /\ Believes(step.ui)
      /\ step.ui.view = None /\ step.ui.seen = -1
  BY <1>3, <1>6, <1>7, CalmAgain DEF Keeps
<1>9. Backed(store, step.ui, disturbed')
  <2>1. Backed(store, ui, disturbed')
    BY <1>1, <1>2, DisturbBacked
  <2> QED
    BY <1>8, <2>1 DEF Backed, Calm
<1>10. Inv(store, up, frames, step.ui, step.calls, disturbed')
  BY <1>1, <1>7, <1>8, <1>9, ForgottenInv
<1> QED
  BY <1>2, <1>10 DEF HoldInv

-----------------------------------------------------------------------------
(* The socket. *)

\* A connection is lost: what was said of earlier ones stands.
LEMMA BlipSound ==
    ASSUME NEW u, NEW q, NEW fr, Sound(u, q, fr)
    PROVE  Sound([u EXCEPT !.blips = @ + 1], q, fr)
<1> DEFINE v == [u EXCEPT !.blips = @ + 1]
<1>1. u \in Renderer /\ Lined(u, q) /\ u.blips \in Nat
  BY DEF Sound, Renderer
<1>2. /\ v \in Renderer /\ v.micro = u.micro /\ v.callers = u.callers /\ v.leases = u.leases
      /\ v.current = u.current /\ v.subscribed = u.subscribed /\ v.blips = u.blips + 1
  BY <1>1 DEF Renderer
<1> HIDE DEF v
<1>3. \A b \in Nat : b <= u.blips => b <= v.blips
  BY <1>1, <1>2
<1>4. \A w \in DOMAIN q.wait : Awaits(u, w, q.wait[w]) => Awaits(v, w, q.wait[w])
  BY <1>2, <1>3 DEF Awaits
<1>5. \A e : Stands(u, q, e) => Stands(v, q, e)
  BY <1>2 DEF Stands
<1>6. Lined(v, q)
  <2>1. \A w \in DOMAIN q.wait : Awaits(v, w, q.wait[w])
    BY <1>1, <1>4 DEF Lined
  <2>2. \A k \in 1 .. MaxLeases : Gathered(v, q, k)
    BY <1>1, <1>2, <1>5 DEF Lined, Gathered
  <2>3. (\A e \in Range(v.micro) : Stands(v, q, e)) /\ Once(v.micro)
    BY <1>1, <1>2, <1>5 DEF Lined
  <2> QED
    BY <2>1, <2>2, <2>3 DEF Lined
<1>7. Refers(v) /\ Heeds(v)
  BY <1>2 DEF Sound, Refers, Heeds
<1> QED
  BY <1>2, <1>6, <1>7 DEF Sound, v

\* What was sent and not answered is lost.
Unanswered(q) ==
    [w \in DOMAIN q.wait |->
        IF q.wait[w].stage = "sent" THEN [q.wait[w] EXCEPT !.stage = "lost"] ELSE q.wait[w]]

LEMMA LostSound ==
    ASSUME NEW u, NEW q, NEW fr, Sound(u, q, fr)
    PROVE  LET p == [wait |-> Unanswered(q), line |-> <<>>]
           IN  Sound(u, p, <<>>) /\ DOMAIN p.wait = DOMAIN q.wait
<1> DEFINE W == Unanswered(q)
           p == [wait |-> W, line |-> <<>>]
<1>1. q \in Requests /\ DOMAIN q.wait \subseteq Whos /\ \A w \in DOMAIN q.wait : q.wait[w] \in Awaited
  BY TableTyping DEF Sound
<1>2. ASSUME NEW w \in DOMAIN q.wait
      PROVE  /\ W[w] \in Awaited /\ W[w].op = q.wait[w].op /\ W[w].lease = q.wait[w].lease
             /\ W[w].mode = q.wait[w].mode
             /\ W[w].stage \notin {"sent", "lost"} => q.wait[w].stage \notin {"sent", "lost"}
  <2> DEFINE r == q.wait[w]
             lost == "lost"
  <2>1. r \in Awaited /\ lost \in {"sent", "lost", "asking", "approved", "confirming"}
    BY <1>1
  <2> HIDE DEF r, lost
  <2>2. LET x == [r EXCEPT !.stage = lost]
        IN  x \in Awaited /\ x.op = r.op /\ x.lease = r.lease /\ x.mode = r.mode /\ x.stage = lost
    BY <2>1, StageTyping DEF Awaited
  <2>3. W[w] = IF r.stage = "sent" THEN [r EXCEPT !.stage = lost] ELSE r
    BY DEF Unanswered, r, lost
  <2> HIDE DEF W
  <2>4. /\ W[w] \in Awaited /\ W[w].op = r.op /\ W[w].lease = r.lease
        /\ W[w].mode = r.mode
        /\ W[w].stage \notin {"sent", "lost"} => r.stage \notin {"sent", "lost"}
    BY <2>1, <2>2, <2>3 DEF lost
  <2> QED
    BY <2>4 DEF r
<1>3. DOMAIN W = DOMAIN q.wait /\ W = [w \in DOMAIN q.wait |-> W[w]]
  BY DEF Unanswered
<1> HIDE DEF W
<1>4. p \in Requests /\ p.wait = W /\ p.line = <<>>
  <2>1. W \in [DOMAIN q.wait -> Awaited]
    BY <1>2, <1>3
  <2>2. W \in Tables
    BY <1>1, <2>1 DEF Tables
  <2>3. <<>> \in Seq(Posting)
    OBVIOUS
  <2> QED
    BY <2>2, <2>3 DEF Requests
<1> HIDE DEF p
<1>5. ASSUME NEW w \in DOMAIN q.wait, Awaits(u, w, q.wait[w]) PROVE Awaits(u, w, p.wait[w])
  BY <1>2, <1>4, <1>5 DEF Awaits
<1>6. Posted(p, <<>>)
  <2>1. Names(<<>>) = {} /\ Answering(<<>>) = {} /\ Range(<<>>) = {}
    BY DEF Names, Range, Answering, Answers
  <2>2. Once(<<>>) /\ AnsweredOnce(<<>>)
    BY DEF Once, AnsweredOnce
  <2> QED
    BY <1>4, <2>1, <2>2 DEF Posted
<1>7. <<>> \in Seq(Received)
  OBVIOUS
<1>8. Sound(u, p, <<>>)
  BY <1>3, <1>4, <1>5, <1>6, <1>7, Repost
<1>9. DOMAIN p.wait = DOMAIN q.wait
  BY <1>3, <1>4
<1>10. p = [wait |-> Unanswered(q), line |-> <<>>]
  BY DEF p, W
<1> QED
  BY <1>8, <1>9, <1>10

\* What the renderer does when its connection is lost, but for the pending decisions.
Suspended(u) ==
    LET lost == CleanupIdle([u EXCEPT !.available = FALSE, !.blips = @ + 1, !.deadline = TRUE])
        suspends == lost.current # 0 /\ ~lost.leases[lost.current].removed
    IN  IF suspends THEN ClearTimer([lost EXCEPT !.leases[lost.current].suspended = TRUE])
        ELSE lost

LEMMA SuspendedSound ==
    ASSUME NEW u, NEW q, NEW fr, Sound(u, q, fr)
    PROVE  LET v == Suspended(u)
           IN  /\ Sound(v, q, fr) /\ v.blips = u.blips + 1 /\ v.view = u.view /\ v.seen = u.seen
               /\ v.callers = u.callers
<1> DEFINE b == [u EXCEPT !.blips = @ + 1]
           some == u.current # 0 \/ \E s \in Sessions : u.callers[s] # Closed
           subscribed == u.subscribed /\ some
           a == [u EXCEPT !.available = FALSE, !.blips = @ + 1, !.deadline = TRUE]
           lost == CleanupIdle(a)
           S == {}
<1>1. u \in Renderer /\ Refers(u) /\ Heeds(u) /\ Sound(b, q, fr) /\ subscribed \in BOOLEAN
      /\ u.current \in 0 .. MaxLeases /\ u.blips + 1 \in Nat
  BY BlipSound DEF Sound, Renderer
<1>2. /\ b \in Renderer /\ b.micro = u.micro /\ b.callers = u.callers /\ b.leases = u.leases
      /\ b.blips = u.blips + 1
  BY <1>1 DEF Renderer
<1>3. /\ lost \in Renderer /\ lost.micro = u.micro /\ lost.callers = u.callers
      /\ lost.leases = u.leases /\ lost.current = u.current /\ lost.blips = u.blips + 1
      /\ lost.view = u.view /\ lost.seen = u.seen /\ lost.subscribed = subscribed
  <2> DEFINE k == u.blips + 1
             no == FALSE
             yes == TRUE
  <2>1. /\ a = [u EXCEPT !.available = no, !.blips = k, !.deadline = yes]
        /\ k \in Nat /\ no \in BOOLEAN /\ yes \in BOOLEAN
    BY <1>1 DEF Renderer
  <2>2. lost = [a EXCEPT !.subscribed = a.subscribed /\ (a.current # 0 \/ \E s \in Sessions : a.callers[s] # Closed)]
    BY DEF CleanupIdle
  <2> HIDE DEF k, no, yes, lost, a
  <2>3. a.current = u.current /\ a.callers = u.callers /\ a.subscribed = u.subscribed
    BY <1>1, <2>1 DEF Renderer
  <2>4. lost = [a EXCEPT !.subscribed = subscribed]
    BY <2>2, <2>3
  <2> HIDE DEF subscribed
  <2>5. /\ a \in Renderer /\ a.micro = u.micro /\ a.callers = u.callers
        /\ a.leases = u.leases /\ a.current = u.current /\ a.blips = k
        /\ a.view = u.view /\ a.seen = u.seen
    BY <1>1, <2>1 DEF Renderer
  <2>6. /\ lost \in Renderer /\ lost.micro = a.micro /\ lost.callers = a.callers
        /\ lost.leases = a.leases /\ lost.current = a.current /\ lost.blips = a.blips
        /\ lost.view = a.view /\ lost.seen = a.seen /\ lost.subscribed = subscribed
    BY <1>1, <2>4, <2>5 DEF Renderer
  <2> QED
    BY <2>5, <2>6 DEF k
<1>4. Heeds(lost) /\ Refers(lost)
  BY <1>1, <1>3 DEF Heeds, Refers
<1>5. S \in SUBSET Callers /\ \A c \in S : Free(b, q, c)
  OBVIOUS
<1> HIDE DEF a, b, lost, S, subscribed
<1>6. Sound(lost, q, fr)
  <2>1. \A j \in 1 .. MaxLeases : Like(b, lost, j)
    BY <1>2, <1>3 DEF Like
  <2> QED
    BY <1>1, <1>2, <1>3, <1>4, <1>5, <2>1, Moves
<1>7. CASE ~(lost.current # 0 /\ ~lost.leases[lost.current].removed)
  BY <1>3, <1>6, <1>7 DEF Suspended, lost, a
<1>8. CASE lost.current # 0 /\ ~lost.leases[lost.current].removed
  <2>0. lost.current \in 1 .. MaxLeases
    BY <1>1, <1>3, <1>8
  <2> DEFINE i == lost.current
             l == [lost.leases[i] EXCEPT !.suspended = TRUE]
             ls == [lost.leases EXCEPT ![i] = l]
             y == [lost EXCEPT !.leases[i].suspended = TRUE]
             v == ClearTimer(y)
  <2>1. i \in 1 .. MaxLeases /\ lost.leases[i] \in LocalLease
    <3> HIDE DEF i, v
    <3>1. i \in 1 .. MaxLeases
      BY <2>0 DEF i
    <3> QED
      BY <1>3, <3>1 DEF Renderer
  <2>2. Suspended(u) = v
    BY <1>8 DEF Suspended, lost, a
  <2> HIDE DEF i
  <2>3. /\ l \in LocalLease /\ l.removed = lost.leases[i].removed
        /\ l.acquiring = lost.leases[i].acquiring /\ l.waiters = lost.leases[i].waiters
        /\ l.leavers = lost.leases[i].leavers
    BY <2>1 DEF LocalLease
  <2>4. y = [lost EXCEPT !.leases = ls]
    BY <1>3 DEF Renderer
  <2> HIDE DEF l, y
  <2>5. /\ ls \in [1 .. MaxLeases -> LocalLease] /\ ls[i] = l
        /\ \A j \in 1 .. MaxLeases \ {i} : ls[j] = lost.leases[j]
    BY <1>3, <2>1, <2>3 DEF Renderer
  <2> HIDE DEF ls
  <2>6. /\ y \in Renderer /\ y.micro = lost.micro /\ y.blips = lost.blips /\ y.callers = lost.callers
        /\ y.leases = ls /\ y.current = lost.current /\ y.subscribed = lost.subscribed
        /\ y.view = lost.view /\ y.seen = lost.seen
    BY <1>3, <2>4, <2>5 DEF Renderer
  <2>7. Refers(y) /\ Heeds(y) /\ \A j \in 1 .. MaxLeases : Like(lost, y, j)
    BY <1>4, <2>3, <2>5, <2>6 DEF Refers, Heeds, Like
  <2>8. Sound(y, q, fr)
    <3>1. \A c \in S : Free(lost, q, c)
      BY DEF S
    <3> QED
      BY <1>5, <1>6, <2>6, <2>7, <3>1, Moves
  <2>9. Eased(y, v)
    BY <2>6, EasedStop
  <2> HIDE DEF v
  <2>10. Sound(v, q, fr)
    BY <2>8, <2>9, EasedLeads
  <2>11. v.blips = y.blips /\ v.view = y.view /\ v.seen = y.seen /\ v.callers = y.callers
    BY <2>9 DEF Eased
  <2> QED
    BY <1>3, <2>2, <2>6, <2>10, <2>11
<1> QED
  BY <1>7, <1>8

LEMMA SocketLostInv ==
    ASSUME HoldInv, SocketLost
    PROVE  HoldInv'
<1> DEFINE v == Suspended(ui)
           sent == [wait |-> Unanswered(calls), line |-> <<>>]
           step == IF ui.subscribed THEN EndDecisions(v, sent) ELSE Step(ui, sent)
           none == <<>>
<1>1. /\ Inv(store, up, frames, ui, calls, disturbed) /\ Backed(store, ui, disturbed)
      /\ Sound(ui, calls, frames) /\ Believes(ui) /\ InOrder(frames, store, ui)
      /\ ui \in Renderer /\ ui.blips \in Nat /\ calls \in Requests
  BY DEF HoldInv, Inv, Sound, Renderer
<1>2. /\ Disturb("blip") /\ store' = store /\ up' = FALSE /\ frames' = none
      /\ ui' = step.ui /\ calls' = step.calls
  BY DEF SocketLost, Suspended, Unanswered, Take
<1>3. Sound(ui, sent, none) /\ DOMAIN sent.wait = DOMAIN calls.wait
  BY <1>1, LostSound
<1>4. Backed(store, ui, disturbed') /\ disturbed' = disturbed + 1
  BY <1>1, <1>2, DisturbBacked
<1> HIDE DEF sent
<1>5. Len(none) = 0
  OBVIOUS
<1> HIDE DEF none
<1>6. CASE ~ui.subscribed
  <2>1. step.ui = ui /\ step.calls = sent
    BY <1>6, StepIs
  <2>2. Unclaimed(ui, sent)
    BY <1>1, <1>6 DEF Sound, Heeds, Unclaimed, Marked
  <2>3. InOrder(none, store, ui)
    BY <1>1, <1>5 DEF InOrder
  <2>4. Inv(store, FALSE, none, ui, sent, disturbed')
    BY <1>1, <1>3, <1>4, <2>2, <2>3 DEF Inv, none
  <2> HIDE DEF step
  <2> QED
    BY <1>2, <2>1, <2>4 DEF HoldInv
<1>7. CASE ui.subscribed
  <2>1. /\ Sound(v, sent, none) /\ v.blips = ui.blips + 1 /\ v.view = ui.view /\ v.seen = ui.seen
        /\ v.callers = ui.callers
    BY <1>3, SuspendedSound
  <2> HIDE DEF v
  <2>2. Unclaimed(v, sent)
    <3> SUFFICES ASSUME Reclaimer(v.blips) \in DOMAIN calls.wait PROVE FALSE
      BY <1>3 DEF Unclaimed
    <3>1. Awaits(ui, Reclaimer(v.blips), calls.wait[Reclaimer(v.blips)])
      BY <1>1 DEF Sound, Lined
    <3>2. v.blips \in Nat
      BY <1>1, <2>1
    <3>3. v.blips <= ui.blips
      BY <3>1, <3>2 DEF Awaits
    <3> QED
      BY <1>1, <2>1, <3>3
  <2>3. InOrder(none, store, v)
    BY <1>1, <1>5, <2>1 DEF InOrder
  <2>4. Backed(store, v, disturbed')
    <3>1. v.blips <= disturbed'
      BY <1>1, <1>4, <2>1, HoldAssumption DEF Backed
    <3> QED
      BY <1>4, <3>1 DEF Backed
  <2>5. Believes(v)
    BY <1>1, <2>1 DEF Believes
  <2>6. Inv(store, FALSE, none, v, sent, disturbed')
    BY <2>1, <2>2, <2>3, <2>4, <2>5 DEF Inv, none
  <2>7. step = EndDecisions(v, sent)
    BY <1>7
  <2> HIDE DEF step
  <2>8. Sound(step.ui, step.calls, none) /\ Keeps(v, sent, step.ui, step.calls)
    BY <2>1, <2>7, DecisionsKeep
  <2>9. Inv(store, FALSE, none, step.ui, step.calls, disturbed')
    BY <2>6, <2>8, KeepsInv
  <2> QED
    BY <1>2, <2>9 DEF HoldInv
<1> QED
  BY <1>6, <1>7

\* A connection starts with a snapshot.
LEMMA GreetedInv ==
    ASSUME NEW s, NEW u, NEW q, NEW d, Inv(s, FALSE, <<>>, u, q, d),
           NEW v, NEW p, Sound(v, p, <<>>), Believes(v),
           v.view = u.view, v.seen = u.seen, v.blips = u.blips
    PROVE  Inv(s, TRUE, <<Frame("snapshot", None, FALSE, 0, Snapshot(s, Task))>>, v, p, d)
<1> DEFINE f == Frame("snapshot", None, FALSE, 0, Snapshot(s, Task))
           gr == <<f>>
<1>1. s \in Store /\ s.version \in Nat /\ u.seen \in Int /\ Backed(s, u, d) /\ u.seen <= s.version
  BY FramesTyping DEF Inv, InOrder
<1>2. f \in Received /\ f.kind = "snapshot" /\ f.snapshot = Snapshot(s, Task)
  BY <1>1, SnapshotIs DEF Frame
<1> HIDE DEF f
<1>3. /\ f.snapshot.version = s.version
      /\ f.snapshot.controllerId = IF s.lease[Task] = None THEN None ELSE s.lease[Task].clientId
  BY <1>2 DEF Snapshot, SnapshotAt
<1>4. Len(gr) = 1 /\ gr[1] = f /\ gr = Append(<<>>, f)
  OBVIOUS
<1>5. Sound(v, p, gr)
  BY <1>2, <1>4, AppendSound
<1> HIDE DEF gr
<1>6. InOrder(gr, s, v)
  <2>1. \A n \in 1 .. Len(gr) : n = 1 /\ gr[n] = f
    BY <1>4
  <2> QED
    BY <1>1, <1>3, <2>1 DEF InOrder
<1>7. Told(gr, s, v)
  <2> SUFFICES ASSUME PeerControls(s)
               PROVE  \E n \in 1 .. Len(gr) :
                          gr[n].kind = "snapshot" /\ \A m \in n .. Len(gr) : AgainstSelf(gr[m])
    BY DEF Told
  <2>1. AgainstSelf(f)
    BY <1>3 DEF PeerControls, AgainstSelf
  <2>2. 1 \in 1 .. Len(gr) /\ \A m \in 1 .. Len(gr) : m = 1
    BY <1>4
  <2> QED
    BY <1>2, <1>4, <2>1, <2>2
<1>8. Backed(s, v, d)
  BY <1>1 DEF Backed
<1>9. Inv(s, TRUE, gr, v, p, d)
  BY <1>5, <1>6, <1>7, <1>8 DEF Inv
<1> QED
  BY <1>9 DEF gr, f

\* A request is sent after those on their way, or before them.
LEMMA EitherSound ==
    ASSUME NEW u, NEW q, NEW fr, Sound(u, q, fr), NEW w \in Whos, Free(u, q, w),
           \A i \in 1 .. MaxLeases : w # Acquirer(i),
           NEW r \in Awaited, r.stage = "sent", Awaits(u, w, r)
    PROVE  LET last == Send(q, w, r)
               first == [last EXCEPT !.line = <<Message(w, r)>> \o q.line]
           IN  Sound(u, last, fr) /\ Sound(u, first, fr)
<1> DEFINE last == Send(q, w, r)
           m == Message(w, r)
           one == <<m>>
           line == one \o q.line
           first == [last EXCEPT !.line = line]
           S == {}
<1>1. /\ u \in Renderer /\ q \in Requests /\ fr \in Seq(Received) /\ Refers(u) /\ Heeds(u)
      /\ Posted(q, fr) /\ q.line \in Seq(Posting)
  BY TableTyping DEF Sound
<1>2. /\ m \in Posting /\ m.who = w /\ last \in Requests /\ last.line = Append(q.line, m)
  BY <1>1, SendIs
<1>3. S \in SUBSET Callers /\ \A c \in S : Free(u, q, c)
  OBVIOUS
<1> HIDE DEF last, m, S, line
<1>4. Sound(u, last, fr)
  BY <1>1, <1>3, Sends DEF last
<1>5. one \in Seq(Posting) /\ Range(one) = {m} /\ Names(one) = {w} /\ Once(one)
  <2>1. one \in Seq(Posting) /\ Len(one) = 1 /\ one[1] = m
    BY <1>2
  <2>2. Range(one) = {m}
    <3>1. DOMAIN one = 1 .. 1
      BY <2>1
    <3> QED
      BY <2>1, <3>1 DEF Range
  <2> HIDE DEF one
  <2>3. Names(one) = {w} /\ Once(one)
    BY <1>2, <2>1, <2>2 DEF Names, Once
  <2> QED
    BY <2>1, <2>2, <2>3
<1> HIDE DEF one
<1>6. w \notin Names(q.line) /\ Once(q.line)
  BY <1>1 DEF Posted, Free, Names
<1>7. /\ line \in Seq(Posting) /\ Range(line) = {m} \cup Range(q.line)
      /\ Names(line) = {w} \cup Names(q.line) /\ Once(line)
  BY <1>1, <1>5, <1>6, NamesJoined DEF line
<1>8. Range(last.line) = Range(q.line) \cup {m} /\ Names(last.line) = Names(q.line) \cup {w}
  BY <1>1, <1>2, NamesAppend
<1>9. first \in Requests /\ first.line = line /\ first.wait = last.wait
  BY <1>2, <1>7 DEF Requests
<1> HIDE DEF first
<1>10. Range(first.line) = Range(last.line) /\ Names(first.line) = Names(last.line)
  BY <1>7, <1>8, <1>9
<1>11. Posted(first, fr)
  <2>1. Posted(last, fr)
    BY <1>4 DEF Sound
  <2> QED
    BY <1>7, <1>9, <1>10, <2>1 DEF Posted
<1>12. Sound(u, first, fr)
  BY <1>1, <1>4, <1>9, <1>11, Repost
<1> QED
  BY <1>4, <1>12 DEF first, last, line, one, m

LEMMA SocketBackInv ==
    ASSUME HoldInv, SocketBack
    PROVE  HoldInv'
<1> DEFINE i == ui.current
           yes == TRUE
           no == FALSE
           back == [ui EXCEPT !.available = yes, !.deadline = no]
           unmarked == [back EXCEPT !.leases[i].suspended = FALSE]
           request == Request(back, "acquire", FALSE, "skip", i)
           w == Reclaimer(ui.blips)
           last == Send(calls, w, request)
           first == [last EXCEPT !.line = <<Message(w, request)>> \o calls.line]
           gr == <<Frame("snapshot", None, FALSE, 0, Snapshot(store, Task))>>
<1>1. /\ ~up /\ up' = TRUE /\ frames' = gr /\ UNCHANGED <<store, disturbed>>
      /\ \/ ui' = ui /\ calls' = calls
         \/ ui' = back /\ calls' = calls
         \/ i # 0 /\ ui' = unmarked /\ calls' = calls
         \/ i # 0 /\ ui.leases[i].suspended /\ ui' = back /\ calls' \in {first, last}
  BY DEF SocketBack, Take, Step
<1>2. /\ Inv(store, FALSE, <<>>, ui, calls, disturbed) /\ Unclaimed(ui, calls)
      /\ Sound(ui, calls, <<>>) /\ Believes(ui) /\ ui \in Renderer /\ i \in 0 .. MaxLeases
      /\ ui.blips \in Nat
  <2>1. up = FALSE
    BY <1>1 DEF HoldInv, Inv
  <2>2. Inv(store, FALSE, <<>>, ui, calls, disturbed) /\ Unclaimed(ui, calls)
    BY <2>1 DEF HoldInv, Inv
  <2> QED
    BY <2>2 DEF Inv, Sound, Renderer
<1> HIDE DEF gr, first
<1>3. Eased(ui, back)
  <2> yes \in BOOLEAN /\ no \in BOOLEAN
    OBVIOUS
  <2> HIDE DEF yes, no, i, request, last
  <2> QED
    BY <1>2 DEF Eased, Renderer, Like
<1> HIDE DEF back, last, request
<1>4. back \in Renderer /\ Sound(back, calls, <<>>)
  BY <1>2, <1>3, EasedLeads DEF Eased
<1>5. ASSUME NEW v, Eased(ui, v), NEW p, Sound(v, p, <<>>)
      PROVE  Inv(store, TRUE, gr, v, p, disturbed)
  <2>1. v.callers = ui.callers /\ v.view = ui.view /\ v.seen = ui.seen /\ v.blips = ui.blips
    BY <1>5 DEF Eased
  <2>2. Believes(v)
    BY <1>2, <2>1 DEF Believes
  <2> QED
    BY <1>2, <1>5, <2>1, <2>2, GreetedInv DEF gr
<1>6. CASE ui' = ui /\ calls' = calls
  <2>1. Eased(ui, ui)
    BY <1>2, EasedStop
  <2> QED
    BY <1>1, <1>2, <1>5, <1>6, <2>1 DEF HoldInv
<1>7. CASE ui' = back /\ calls' = calls
  BY <1>1, <1>3, <1>4, <1>5, <1>7 DEF HoldInv
<1>8. CASE i # 0 /\ ui' = unmarked /\ calls' = calls
  <2>1. i \in 1 .. MaxLeases
    BY <1>2, <1>8
  <2>2. Eased(back, unmarked)
    BY <1>4, <2>1, EasedOps
  <2> HIDE DEF unmarked
  <2>3. Eased(ui, unmarked) /\ Sound(unmarked, calls, <<>>)
    BY <1>3, <1>4, <2>2, EasedTwice, EasedLeads
  <2> QED
    BY <1>1, <1>5, <1>8, <2>3 DEF HoldInv
<1>9. CASE i # 0 /\ ui.leases[i].suspended /\ ui' = back /\ calls' \in {first, last}
  <2>1. w \notin DOMAIN calls.wait /\ w \in Whos /\ w \notin Callers
    BY <1>2, <1>9, Whose DEF Unclaimed, Marked
  <2>2. (\A j \in 1 .. MaxLeases : w # Acquirer(j) /\ w # Remover(j)) /\ w # Renewer
    BY Whose
  <2>3. Free(back, calls, w)
    BY <1>4, <2>1, <2>2, ListedWho DEF Free
  <2>4. /\ request \in Awaited /\ request.op = "acquire" /\ request.stage = "sent"
        /\ request.mode = "skip" /\ request.lease = i
    <3>1. "skip" \in Modes
      BY DEF Modes
    <3>2. request \in Awaited
      BY <1>2, <1>4, <3>1, RequestIs DEF request
    <3> QED
      BY <3>2 DEF request, Request
  <2>5. back.blips = ui.blips
    BY <1>3 DEF Eased
  <2> HIDE DEF i
  <2>6. \A b \in Nat : w = Reclaimer(b) => b = ui.blips
    BY Whose
  <2> HIDE DEF w
  <2>7. Awaits(back, w, request)
    BY <1>2, <1>9, <2>1, <2>2, <2>4, <2>5, <2>6 DEF Awaits
  <2>8. Sound(back, last, <<>>) /\ Sound(back, first, <<>>)
    BY <1>4, <2>1, <2>2, <2>3, <2>4, <2>7, EitherSound DEF last, first
  <2> QED
    BY <1>1, <1>3, <1>5, <1>9, <2>8 DEF HoldInv
<1> QED
  BY <1>1, <1>6, <1>7, <1>8, <1>9

-----------------------------------------------------------------------------
(* The invariant holds at the start, and every step keeps it. *)

LEMMA InitInv ==
    ASSUME Init
    PROVE  HoldInv
<1> DEFINE none == <<>>
           nobody == {}
           W == [w \in nobody |-> None]
<1>1. /\ store = EmptyStore /\ up = TRUE /\ frames = none /\ disturbed = 0
      /\ calls = [wait |-> W, line |-> none]
      /\ ui.leases = [i \in 1 .. MaxLeases |-> NewLease] /\ ui.current = 0
      /\ ui.callers = [c \in Callers |-> Closed] /\ ui.micro = none /\ ui.view = None
      /\ ui.seen = -1 /\ ui.subscribed = FALSE /\ ui.blips = 0
  BY DEF Init
<1>2. none \in Seq(Received) /\ none \in Seq(Posting) /\ none \in Seq(Continuation) /\ Len(none) = 0
      /\ none \in Seq(Waiter)
  OBVIOUS
<1>3. Names(none) = {} /\ Answering(none) = {} /\ Range(none) = {} /\ Once(none) /\ AnsweredOnce(none)
  BY DEF Names, Range, Answering, Answers, Once, AnsweredOnce
<1>4. Self # None /\ MaxGeneration \in Nat /\ MaxFaults \in Nat /\ MaxHolds \in Nat /\ MaxLeases \in Nat
  BY HoldAssumption, LeaseAssumption
<1>5. NewLease \in LocalLease /\ NewLease.waiters = none /\ NewLease.leavers = none
      /\ NewLease.acquiring = FALSE
  BY <1>2, <1>4 DEF NewLease, LocalLease
<1>6. Closed \in Caller /\ Closed.at = "idle" /\ Closed.lease = 0
  BY <1>4 DEF Closed, Caller, Ats, Modes
<1>7. ui \in Renderer
  BY <1>2, <1>4, <1>5, <1>6 DEF Init, Renderer
<1>8. calls \in Requests /\ calls.wait = W /\ calls.line = none /\ DOMAIN W = {}
  <2>1. W \in [nobody -> Awaited] /\ nobody \in SUBSET Whos
    OBVIOUS
  <2>2. DOMAIN W = {}
    OBVIOUS
  <2> HIDE DEF W, nobody, none
  <2>3. W \in Tables
    BY <2>1 DEF Tables
  <2> QED
    BY <1>1, <1>2, <2>2, <2>3 DEF Requests
<1> HIDE DEF none, nobody, W
<1>9. Refers(ui) /\ Heeds(ui)
  BY <1>1, <1>6, HoldAssumption DEF Refers, Heeds
<1>10. Lined(ui, calls)
  <2>1. ASSUME NEW i \in 1 .. MaxLeases PROVE Gathered(ui, calls, i)
    <3>1. ui.leases[i] = NewLease
      BY <1>1
    <3>2. /\ ui.leases[i].waiters = none /\ ui.leases[i].leavers = none
          /\ ~ui.leases[i].acquiring
      BY <1>5, <3>1
    <3>3. ui.leases[i].waiters = <<>> /\ ui.leases[i].leavers = <<>>
      BY <3>2 DEF none
    <3> QED
      BY <1>3, <3>2, <3>3 DEF Gathered
  <2> QED
    BY <1>1, <1>3, <1>8, <2>1 DEF Lined
<1>11. Posted(calls, frames)
  BY <1>1, <1>3, <1>8 DEF Posted
<1>12. Sound(ui, calls, frames)
  BY <1>1, <1>2, <1>7, <1>8, <1>9, <1>10, <1>11 DEF Sound
<1>13. Believes(ui)
  BY <1>1, <1>6, HoldAssumption DEF Believes
<1>14. Backed(store, ui, disturbed)
  <2>1. store \in Store /\ Current(store) /\ \A t \in Tasks : store.generation[t] = 0
    BY <1>1 DEF EmptyStore, Store, Current
  <2> QED
    BY <1>1, <1>4, <2>1 DEF Backed
<1>15. InOrder(frames, store, ui)
  BY <1>1, <1>2 DEF InOrder, EmptyStore
<1>16. Told(frames, store, ui)
  BY <1>1, <1>2, <1>4 DEF Told
<1> QED
  BY <1>1, <1>12, <1>13, <1>14, <1>15, <1>16 DEF HoldInv, Inv

LEMMA NextInv ==
    ASSUME HoldInv, [Next]_vars
    PROVE  HoldInv'
<1>1. CASE UNCHANGED vars
  BY <1>1 DEF vars, HoldInv
<1>2. CASE Resume
  BY <1>2, ResumeInv
<1>3. CASE ServeAcquire
  BY <1>3, ServeAcquireInv
<1>4. CASE ServeRenew
  BY <1>4, ServeRenewInv
<1>5. CASE ServeRelease
  BY <1>5, ServeReleaseInv
<1>6. CASE PeerAcquires
  BY <1>6, PeerAcquiresInv
<1>7. CASE LeaseEnds
  BY <1>7, LeaseEndsInv
<1>8. ASSUME NEW who \in DOMAIN calls.wait, Approve(who) PROVE HoldInv'
  BY <1>8, ApproveInv
<1>9. ASSUME NEW who \in DOMAIN calls.wait, Decide(who) PROVE HoldInv'
  BY <1>9, DecideInv
<1>10. ASSUME NEW who \in DOMAIN calls.wait, AskUser(who) PROVE HoldInv'
  BY <1>10, AskUserInv
<1>11. ASSUME NEW who \in DOMAIN calls.wait, Timeout(who) PROVE HoldInv'
  BY <1>11, TimeoutInv
<1>12. CASE ReceiveSnapshot
  BY <1>12, ReceiveSnapshotInv
<1>13. CASE ReceiveAnswer
  BY <1>13, ReceiveAnswerInv
<1>14. CASE ReceiveApproval
  BY <1>14, ReceiveApprovalInv
<1>15. CASE RenewTick
  BY <1>15, RenewTickInv
<1>16. CASE SocketLost
  BY <1>16, SocketLostInv
<1>17. CASE SocketBack
  BY <1>17, SocketBackInv
<1>18. CASE Deadline
  BY <1>18, DeadlineInv
<1>19. ASSUME NEW c \in Callers, Open(c) PROVE HoldInv'
  BY <1>19, OpenInv
<1>20. ASSUME NEW c \in Callers, Close(c) PROVE HoldInv'
  BY <1>20, CloseInv
<1>21. ASSUME NEW c \in Callers, ReleaseIt(c) PROVE HoldInv'
  BY <1>21, ReleaseItInv
<1>22. ASSUME NEW c \in Callers, NEW mode \in Modes, Retain(c, mode) PROVE HoldInv'
  BY <1>22, RetainInv
<1>23. CASE RemoveTask
  BY <1>23, RemoveTaskInv
<1> QED
  BY <1>1, <1>2, <1>3, <1>4, <1>5, <1>6, <1>7, <1>8, <1>9, <1>10, <1>11, <1>12, <1>13, <1>14,
     <1>15, <1>16, <1>17, <1>18, <1>19, <1>20, <1>21, <1>22, <1>23 DEF Next

LEMMA InvTypes ==
    ASSUME HoldInv
    PROVE  TypeOK
<1>1. /\ ui \in Renderer /\ Refers(ui) /\ Lined(ui, calls) /\ Backed(store, ui, disturbed)
      /\ up \in BOOLEAN
  BY DEF HoldInv, Inv, Sound
<1>2. store \in [lease : [Tasks -> Lease \cup {None}], generation : [Tasks -> 0 .. MaxGeneration],
                 version : Nat]
  <2>1. /\ store \in [lease : [Tasks -> Lease \cup {None}], generation : [Tasks -> Nat], version : Nat]
        /\ \A t \in Tasks : store.generation[t] <= MaxGeneration
    BY <1>1 DEF Backed, Store
  <2>2. store.generation \in [Tasks -> 0 .. MaxGeneration]
    BY <2>1, HoldAssumption
  <2> QED
    BY <2>1, <2>2
<1>3. disturbed \in 0 .. MaxFaults /\ ui.current \in 0 .. MaxLeases /\ ui.blips \in 0 .. MaxFaults
  BY <1>1, HoldAssumption DEF Backed, Renderer
<1>4. \A c \in Callers : ui.callers[c].at \in Ats
  <2>1. \A c \in Callers : ui.callers[c] \in Caller
    BY <1>1 DEF Renderer
  <2> QED
    BY <2>1 DEF Caller
<1>5. ASSUME NEW i \in 1 .. MaxLeases
      PROVE  /\ ui.leases[i].hold \in 0 .. MaxHolds
             /\ ui.leases[i].generation \in 0 .. MaxGeneration
             /\ ui.leases[i].acquiring = (Acquirer(i) \in DOMAIN calls.wait)
             /\ ui.leases[i].waiters \o ui.leases[i].leavers # <<>> => ui.leases[i].acquiring
  <2>1. /\ ui.leases[i] \in LocalLease
        /\ ui.leases[i].waiters \in Seq(Waiter) /\ ui.leases[i].leavers \in Seq(Waiter)
    BY <1>1, Parts
  <2>2. /\ ui.leases[i].hold \in 0 .. MaxHolds /\ ui.leases[i].generation \in 0 .. MaxGeneration
        /\ ui.leases[i].acquiring \in BOOLEAN
    BY <2>1 DEF LocalLease
  <2>3. Gathered(ui, calls, i)
    BY <1>1 DEF Lined
  <2>4. ui.leases[i].acquiring => Acquirer(i) \in DOMAIN calls.wait
    BY <2>3 DEF Gathered
  <2>5. Acquirer(i) \in DOMAIN calls.wait => ui.leases[i].acquiring
    BY <1>1 DEF Lined, Awaits
  <2>6. ASSUME ui.leases[i].waiters \o ui.leases[i].leavers # <<>> PROVE ui.leases[i].acquiring
    <3>1. \A s, t : s = <<>> /\ t = <<>> => s \o t = <<>>
      OBVIOUS
    <3>2. ui.leases[i].waiters # <<>> \/ ui.leases[i].leavers # <<>>
      BY <2>6, <3>1
    <3> QED
      BY <2>3, <3>2 DEF Gathered
  <2> QED
    BY <2>2, <2>4, <2>5, <2>6
<1> QED
  BY <1>1, <1>2, <1>3, <1>4, <1>5 DEF TypeOK, Refers

\* When every frame has arrived the renderer knows that a peer has control, and believes
\* no session of its own.
LEMMA InvNoSession ==
    ASSUME HoldInv
    PROVE  NoSessionAgainstPeer
<1> SUFFICES ASSUME Quiet, up, PeerControls(store)
             PROVE  \A s \in Sessions : ui.callers[s].at # "holding"
  BY DEF NoSessionAgainstPeer, PeerControls
<1>1. Told(frames, store, ui) /\ Believes(ui)
  BY DEF HoldInv, Inv
<1>2. frames = <<>>
  BY DEF Quiet
<1>3. \A n : n \notin 1 .. Len(frames)
  BY <1>2
<1>4. ui.view # Self
  BY <1>1, <1>3 DEF Told
<1> QED
  BY <1>1, <1>4 DEF Believes

\* What the requests of one renderer, their answers and the frames on their way have in
\* common, in every state it reaches.
THEOREM Invariance == Spec => []HoldInv
<1>1. Init => HoldInv
  BY InitInv
<1>2. HoldInv /\ [Next]_vars => HoldInv'
  BY NextInv
<1> QED
  BY <1>1, <1>2, PTL DEF Spec

\* The renderer's state is well formed, whatever it awaits when it is disturbed: the
\* acquire promise of a local lease is one request in flight (acquirePromise in
\* task-command-lease-runtime.ts), and only while it is pending does anybody wait for it.
THEOREM TypeCorrect == Spec => []TypeOK
<1>1. HoldInv => TypeOK
  BY InvTypes
<1> QED
  BY <1>1, Invariance, PTL

\* No session retains a lease against a peer once the renderer has received what was sent
\* to it, however often the socket was lost and the lease re-claimed (docs/ARCHITECTURE.md:905).
THEOREM SessionsYield == Spec => []NoSessionAgainstPeer
<1>1. HoldInv => NoSessionAgainstPeer
  BY InvNoSession
<1> QED
  BY <1>1, Invariance, PTL

==============================================================================
