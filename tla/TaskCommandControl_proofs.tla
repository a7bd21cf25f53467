---------------------- MODULE TaskCommandControl_proofs ----------------------
(***************************************************************************)
(* Proofs about the control plane around the lease table, for any tasks,   *)
(* clients, requests and bounds.                                           *)
(*                                                                         *)
(* A turn is followed call by call: what has to hold between two of them,  *)
(* while announcements are nested and requests are half resolved, is Good. *)
(* It says for what is not in order yet which call will put it in order.   *)
(***************************************************************************)
EXTENDS TaskCommandControl, TaskCommandLeaseStore_proofs, SequenceTheorems

-----------------------------------------------------------------------------
(* What holds in the middle of a turn. *)

Call ==
    [name : {"reconcile"}, request : Request, taskId : Tasks] \cup
    [name : {"broadcast"}, snapshot : ControllerSnapshot] \cup
    [name : {"answer"}, request : Request, decision : Decision] \cup
    [name : {"clean up"}, request : Request, client : Clients] \cup
    [name : {"announce"}, snapshots : SUBSET ControllerSnapshot] \cup
    [name : {"release"}, client : Clients, order : KeyOrders] \cup
    [name : {"release each"}, clients : SUBSET Clients, order : KeyOrders,
     clientOrder : ClientOrders] \cup
    [name : {"sweep"}, order : KeyOrders, clientOrder : ClientOrders]

TurnState ==
    [store : Store, pending : Seq(Request), answers : [RequestIds -> Seq(Decision)],
     announced : [Tasks -> ControllerSnapshot], todo : Seq(Call)]

Elements(s) == {s[i] : i \in DOMAIN s}

Asked(st) == Elements(st.pending)

Calls(st) == Elements(st.todo)

AboutRequest == {"reconcile", "answer", "clean up"}

\* The calls that are made before or between announcements.
Outer == {"clean up", "announce", "release", "release each", "sweep"}

\* The clients whose leases the prune timer may release.
Leavers == {c \in Clients : ~InGrace(c)}

\* What holds of the requests that are pending together.
WellAsked(R) ==
    /\ R \subseteq Request
    /\ \A q \in R : q.requesterClientId # q.targetControllerId
    /\ \A p, q \in R : p.requestId = q.requestId => p = q
    /\ \A p, q \in R : p.taskId = q.taskId => p.targetControllerId = q.targetControllerId

\* R are the requests of a turn: what was pending when it began.
Rightful(R) == WellAsked(R) /\ \A q \in R : q.requesterClientId \notin Leavers

Known(st, R) ==
    /\ Asked(st) \subseteq R
    /\ \A call \in Calls(st) : call.name \in AboutRequest => call.request \in R

Distinct(p) == \A i, j \in DOMAIN p : p[i].requestId = p[j].requestId => i = j

Answers(call, r) == call.name = "answer" /\ call.request.requestId = r

OneAnswer(todo) ==
    \A i, j \in DOMAIN todo : \A r \in RequestIds :
        (Answers(todo[i], r) /\ Answers(todo[j], r)) => i = j

\* A request is pending, has an answer under way, has its answer, or none of these.
Once(st) ==
    /\ Distinct(st.pending)
    /\ \A q \in Asked(st) : st.answers[q.requestId] = <<>>
    /\ \A call \in Calls(st) : call.name = "answer" =>
          /\ st.answers[call.request.requestId] = <<>>
          /\ \A q \in Asked(st) : q.requestId # call.request.requestId
    /\ OneAnswer(st.todo)
    /\ \A r \in RequestIds : Len(st.answers[r]) <= 1

\* Nothing has decided or is about to decide request r, which is not pending.
Open(st, r) ==
    /\ st.answers[r] = <<>>
    /\ \A q \in Asked(st) : q.requestId # r
    /\ \A call \in Calls(st) : ~Answers(call, r)

\* A request that asks somebody who is not the controller will be reconciled, unless
\* it is one of X.
Asks(st, X) ==
    \A q \in Asked(st) \ X :
        (Held(st.store, q.taskId) /\ st.store.lease[q.taskId].clientId # q.targetControllerId)
            => Reconcile(q, q.taskId) \in Calls(st)

\* A request of the client that is gone will be cleaned up, unless it is one of Y.
Cleans(st, gone, Y) ==
    \A q \in Asked(st) \ Y : q.requesterClientId = gone => CleanUp(q, gone) \in Calls(st)

Says(call, snapshot) ==
    \/ call.name = "broadcast" /\ call.snapshot = snapshot
    \/ call.name = "announce" /\ snapshot \in call.snapshots

\* What has been or will be broadcast for task t, with the snapshots E.
Said(st, E, t) ==
    {st.announced[t]} \cup
    {s \in ControllerSnapshot :
        s.taskId = t /\ (s \in E \/ \E call \in Calls(st) : Says(call, s))}

Agrees(s, t, p) == p.controllerId = s.lease[t].clientId /\ p.action = s.lease[t].action

\* The newest of the snapshots S of task t tells the truth while its lease lives.
NewestIsTrue(s, t, S) ==
    /\ \A p \in S : p.version <= s.version
    /\ Held(s, t) =>
          \E p \in S : /\ Agrees(s, t, p)
                       /\ \A q \in S : /\ q.version <= p.version
                                       /\ q.version = p.version => Agrees(s, t, q)

Truth(st, E) == \A t \in Tasks : NewestIsTrue(st.store, t, Said(st, E, t))

WasGranted(st, q) == st.answers[q.requestId] \in {<<"approved">>, <<"owner-missing">>}

Controls(st, t, c) == Held(st.store, t) /\ st.store.lease[t].clientId = c

Granted(st, R) ==
    \A q \in R : WasGranted(st, q) => Controls(st, q.taskId, q.requesterClientId)

\* Nothing is left to reconcile under an outer call.
Layered(todo) ==
    \A i, j \in DOMAIN todo : (i < j /\ todo[i].name \in Outer) => todo[j].name # "reconcile"

Leaving(st) ==
    \A call \in Calls(st) :
        /\ call.name = "release" => call.client \in Leavers
        /\ call.name = "release each" => call.clients \subseteq Leavers

\* Each pair of K is a task and a client: it, or one that asked for the task, has it.
May(R, t, c) == {c} \cup {q.requesterClientId : q \in {p \in R : p.taskId = t}}

Kept(st, R, K) ==
    \A k \in K : Held(st.store, k[1]) /\ st.store.lease[k[1]].clientId \in May(R, k[1], k[2])

\* R are the requests of the turn, K the leases it has to keep, gone a client that
\* disconnects in it; X, Y and E are what the call being made has to take care of.
Good(st, R, K, gone, X, Y, E) ==
    /\ st \in TurnState
    /\ Current(st.store)
    /\ Known(st, R)
    /\ Once(st)
    /\ Asks(st, X)
    /\ Cleans(st, gone, Y)
    /\ E \subseteq ControllerSnapshot
    /\ Truth(st, E)
    /\ Granted(st, R)
    /\ Layered(st.todo)
    /\ Leaving(st)
    /\ Kept(st, R, K)

Premises(R, K) ==
    /\ Rightful(R)
    /\ K \subseteq Tasks \X (Clients \ Leavers)

\* What holds between two turns.
Settled(st) ==
    /\ st \in TurnState
    /\ st.todo = <<>>
    /\ Current(st.store)
    /\ WellAsked(Asked(st))
    /\ Once(st)
    /\ Asks(st, {})
    /\ Truth(st, {})

IInv ==
    /\ Settled(Turn)
    /\ \A q \in Asked(Turn) : q.requesterClientId \in connected
    /\ connected \subseteq Clients
    /\ grace \in [Clients -> {None} \cup 0..GraceMs]
    /\ away \subseteq connected

-----------------------------------------------------------------------------
(* Sequences. *)

\* A sequence and its elements.
LEMMA SequenceIs ==
    ASSUME NEW S, NEW s \in Seq(S)
    PROVE  /\ Len(s) \in Nat /\ DOMAIN s = 1..Len(s)
           /\ Elements(s) \subseteq S
           /\ \A i \in DOMAIN s : s[i] \in Elements(s) /\ s[i] \in S
           /\ s = <<>> => Elements(s) = {}
           /\ s # <<>> => Elements(s) # {}
  <1>1. Len(s) \in Nat /\ DOMAIN s = 1..Len(s) /\ \A i \in DOMAIN s : s[i] \in S
    BY LenProperties, ElementOfSeq
  <1>2. s = <<>> => DOMAIN s = {}
    BY EmptySeq, <1>1
  <1>3. s # <<>> => 1 \in DOMAIN s
    BY EmptySeq, <1>1
  <1> QED
    BY <1>1, <1>2, <1>3 DEF Elements

\* A sequence is its first element and the others.
LEMMA FirstAndRest ==
    ASSUME NEW S, NEW s \in Seq(S), s # <<>>
    PROVE  /\ Head(s) \in S /\ Tail(s) \in Seq(S)
           /\ 1 \in DOMAIN s /\ s[1] = Head(s)
           /\ \A i \in DOMAIN Tail(s) :
                 i \in Int /\ i + 1 \in DOMAIN s /\ 1 < i + 1 /\ Tail(s)[i] = s[i + 1]
           /\ Elements(s) = {Head(s)} \cup Elements(Tail(s))
  <1>1. /\ Head(s) \in S /\ Tail(s) \in Seq(S) /\ Len(Tail(s)) = Len(s) - 1
        /\ \A i \in 1..Len(Tail(s)) : Tail(s)[i] = s[i + 1]
    BY HeadTailProperties
  <1>2. /\ Len(s) \in Nat \ {0} /\ DOMAIN s = 1..Len(s) /\ Head(s) = s[1]
        /\ DOMAIN Tail(s) = 1..Len(Tail(s))
    BY <1>1, EmptySeq, LenProperties
  <1>3. /\ 1 \in DOMAIN s
        /\ \A i \in DOMAIN Tail(s) :
              i \in Int /\ i + 1 \in DOMAIN s /\ 1 < i + 1 /\ Tail(s)[i] = s[i + 1]
    BY <1>1, <1>2
  <1>4. \A j \in DOMAIN s : j = 1 \/ (j - 1 \in DOMAIN Tail(s) /\ Tail(s)[j - 1] = s[j])
    <2>1. ASSUME NEW j \in DOMAIN s, j # 1
          PROVE  j - 1 \in DOMAIN Tail(s) /\ j - 1 + 1 = j
      BY <1>1, <1>2, <2>1
    <2> QED
      BY <2>1, <1>3
  <1>5. Elements(s) = {Head(s)} \cup Elements(Tail(s))
    <2>1. Head(s) \in Elements(s) /\ Elements(Tail(s)) \subseteq Elements(s)
      BY <1>2, <1>3 DEF Elements
    <2>2. \A j \in DOMAIN s : s[j] \in {Head(s)} \cup Elements(Tail(s))
      BY <1>2, <1>4 DEF Elements
    <2>3. Elements(s) \subseteq {Head(s)} \cup Elements(Tail(s))
      BY <2>2 DEF Elements
    <2> QED
      BY <2>1, <2>3
  <1> QED
    BY <1>1, <1>2, <1>3, <1>5

\* Two sequences, one after the other.
LEMMA Joined ==
    ASSUME NEW S, NEW a \in Seq(S), NEW b \in Seq(S)
    PROVE  /\ a \o b \in Seq(S)
           /\ \A i \in DOMAIN (a \o b) :
                 \/ i \in DOMAIN a /\ (a \o b)[i] = a[i]
                 \/ i - Len(a) \in DOMAIN b /\ (a \o b)[i] = b[i - Len(a)]
           /\ \A i, j \in DOMAIN (a \o b) :
                 (i - Len(a) \in DOMAIN b /\ j \in DOMAIN a) => j < i
           /\ Elements(a \o b) = Elements(a) \cup Elements(b)
  <1>1. /\ a \o b \in Seq(S) /\ Len(a \o b) = Len(a) + Len(b)
        /\ \A i \in 1..Len(a) + Len(b) :
              (a \o b)[i] = IF i <= Len(a) THEN a[i] ELSE b[i - Len(a)]
    BY ConcatProperties
  <1>2. /\ Len(a) \in Nat /\ DOMAIN a = 1..Len(a) /\ Len(b) \in Nat /\ DOMAIN b = 1..Len(b)
        /\ DOMAIN (a \o b) = 1..Len(a \o b)
    BY <1>1, LenProperties
  <1>3. \A i \in DOMAIN (a \o b) :
            \/ i \in DOMAIN a /\ (a \o b)[i] = a[i]
            \/ i - Len(a) \in DOMAIN b /\ (a \o b)[i] = b[i - Len(a)]
    BY <1>1, <1>2
  <1>4. \A i, j \in DOMAIN (a \o b) : (i - Len(a) \in DOMAIN b /\ j \in DOMAIN a) => j < i
    BY <1>1, <1>2
  <1>5. \A i \in DOMAIN a : i \in DOMAIN (a \o b) /\ (a \o b)[i] = a[i]
    BY <1>1, <1>2
  <1>6. ASSUME NEW i \in DOMAIN b
        PROVE  Len(a) + i \in DOMAIN (a \o b) /\ (a \o b)[Len(a) + i] = b[i]
    <2>1. Len(a) + i \in 1..Len(a) + Len(b) /\ ~(Len(a) + i <= Len(a)) /\ Len(a) + i - Len(a) = i
      BY <1>2
    <2> QED
      BY <2>1, <1>1, <1>2
  <1>7. Elements(a \o b) = Elements(a) \cup Elements(b)
    <2>1. Elements(a) \subseteq Elements(a \o b)
      BY <1>5 DEF Elements
    <2>2. Elements(b) \subseteq Elements(a \o b)
      BY <1>6 DEF Elements
    <2>3. \A i \in DOMAIN (a \o b) : (a \o b)[i] \in Elements(a) \cup Elements(b)
      BY <1>3 DEF Elements
    <2>4. Elements(a \o b) \subseteq Elements(a) \cup Elements(b)
      BY <2>3 DEF Elements
    <2> QED
      BY <2>1, <2>2, <2>4
  <1> QED
    BY <1>1, <1>3, <1>4, <1>7

\* A sequence of one.
LEMMA OnlyOne ==
    ASSUME NEW S, NEW a \in S
    PROVE  /\ <<a>> \in Seq(S) /\ Elements(<<a>>) = {a}
           /\ DOMAIN <<a>> = {1} /\ <<a>>[1] = a
  BY DEF Elements

\* A sequence of three.
LEMMA OnlyThree ==
    ASSUME NEW S, NEW a \in S, NEW b \in S, NEW c \in S, NEW s, s = <<a, b, c>>
    PROVE  s \in Seq(S) /\ Elements(s) = {a, b, c}
  <1>1. s \in Seq(S)
    OBVIOUS
  <1>2. DOMAIN s = {1, 2, 3} /\ s[1] = a /\ s[2] = b /\ s[3] = c
    OBVIOUS
  <1>3. Elements(s) = {s[1], s[2], s[3]}
    BY <1>2, SMT DEF Elements
  <1> QED
    BY <1>1, <1>2, <1>3

\* What is left of a sequence when one element is taken out.
LEMMA TakenOut ==
    ASSUME NEW S, NEW s \in Seq(S), NEW k \in DOMAIN s
    PROVE  LET r == RemoveAt(s, k) IN
           /\ r \in Seq(S)
           /\ \A i \in DOMAIN r : r[i] = s[IF i < k THEN i ELSE i + 1]
           /\ \A i \in DOMAIN r : i \in Int /\ (IF i < k THEN i ELSE i + 1) \in DOMAIN s \ {k}
           /\ \A i \in DOMAIN s \ {k} :
                 (IF i < k THEN i ELSE i - 1) \in DOMAIN r
                 /\ r[IF i < k THEN i ELSE i - 1] = s[i]
  <1> DEFINE a == SubSeq(s, 1, k - 1)
             b == SubSeq(s, k + 1, Len(s))
             r == a \o b
  <1>1. Len(s) \in Nat /\ DOMAIN s = 1..Len(s) /\ k \in 1..Len(s) /\ \A i \in DOMAIN s : s[i] \in S
    BY SequenceIs
  <1>2. a \in Seq(S) /\ Len(a) = k - 1 /\ \A i \in 1..k - 1 : a[i] = s[i]
    <2>1. \A i \in 1..k - 1 : s[i] \in S
      BY <1>1
    <2>2. k - 1 \in Int
      BY <1>1
    <2>3. /\ a \in Seq(S) /\ Len(a) = IF 1 <= k - 1 THEN k - 1 - 1 + 1 ELSE 0
          /\ \A i \in 1..k - 1 - 1 + 1 : a[i] = s[1 + i - 1]
      BY <2>1, <2>2, SubSeqProperties
    <2> HIDE DEF a
    <2> QED
      BY <1>1, <2>3
  <1>3. b \in Seq(S) /\ Len(b) = Len(s) - k /\ \A i \in 1..Len(s) - k : b[i] = s[k + i]
    <2>1. \A i \in k + 1..Len(s) : s[i] \in S
      BY <1>1
    <2>2. k + 1 \in Int /\ Len(s) \in Int
      BY <1>1
    <2>3. /\ b \in Seq(S) /\ Len(b) = IF k + 1 <= Len(s) THEN Len(s) - (k + 1) + 1 ELSE 0
          /\ \A i \in 1..Len(s) - (k + 1) + 1 : b[i] = s[k + 1 + i - 1]
      BY <2>1, <2>2, SubSeqProperties
    <2> HIDE DEF b
    <2>4. Len(b) = Len(s) - k
      BY <1>1, <2>3
    <2>5. ASSUME NEW i \in 1..Len(s) - k PROVE b[i] = s[k + i]
      <3>1. i \in 1..Len(s) - (k + 1) + 1 /\ k + 1 + i - 1 = k + i
        BY <1>1
      <3> QED
        BY <3>1, <2>3
    <2> QED
      BY <2>3, <2>4, <2>5
  <1> HIDE DEF a, b
  <1>4. /\ r \in Seq(S) /\ Len(r) = Len(a) + Len(b)
        /\ \A i \in 1..Len(a) + Len(b) : r[i] = IF i <= Len(a) THEN a[i] ELSE b[i - Len(a)]
    BY <1>2, <1>3, ConcatProperties
  <1>5. Len(r) = Len(s) - 1 /\ DOMAIN r = 1..Len(s) - 1
    <2>1. DOMAIN r = 1..Len(r)
      BY <1>4, LenProperties
    <2>2. Len(r) = Len(s) - 1
      BY <1>1, <1>2, <1>3, <1>4
    <2> QED
      BY <2>1, <2>2
  <1> HIDE DEF r
  <1>6. \A i \in DOMAIN r : i \in Int /\ (IF i < k THEN i ELSE i + 1) \in DOMAIN s \ {k}
    BY <1>1, <1>5
  <1>7. ASSUME NEW i \in DOMAIN r PROVE r[i] = s[IF i < k THEN i ELSE i + 1]
    <2>1. CASE i < k
      BY <1>1, <1>2, <1>3, <1>4, <1>5, <2>1
    <2>2. CASE ~(i < k)
      <3>1. i \in 1..Len(s) - 1 /\ Len(s) \in Nat /\ k \in 1..Len(s)
            /\ Len(a) + Len(b) = Len(s) - 1
        BY <1>1, <1>2, <1>3, <1>5
      <3>2. i - (k - 1) \in 1..Len(s) - k /\ k + (i - (k - 1)) = i + 1 /\ ~(i <= k - 1)
        BY <3>1, <2>2
      <3>3. r[i] = b[i - (k - 1)]
        BY <3>1, <3>2, <1>2, <1>4
      <3> QED
        BY <3>2, <3>3, <1>3, <2>2
    <2> QED
      BY <2>1, <2>2
  <1>8. ASSUME NEW i \in DOMAIN s \ {k}
        PROVE  /\ (IF i < k THEN i ELSE i - 1) \in DOMAIN r
               /\ r[IF i < k THEN i ELSE i - 1] = s[i]
    <2> DEFINE j == IF i < k THEN i ELSE i - 1
    <2>1. j \in DOMAIN r /\ (IF j < k THEN j ELSE j + 1) = i
      BY <1>1, <1>5
    <2> QED
      BY <2>1, <1>7
  <1>9. RemoveAt(s, k) = r
    BY DEF RemoveAt, r, a, b
  <1> QED
    BY <1>4, <1>6, <1>7, <1>8, <1>9

-----------------------------------------------------------------------------
(* The calls and the state of a turn. *)

\* The fields of a turn have their types.
LEMMA TurnTyping ==
    ASSUME NEW st \in TurnState
    PROVE  /\ st.store \in Store /\ st.pending \in Seq(Request)
           /\ st.answers \in [RequestIds -> Seq(Decision)]
           /\ st.announced \in [Tasks -> ControllerSnapshot] /\ st.todo \in Seq(Call)
           /\ Asked(st) \subseteq Request /\ Calls(st) \subseteq Call
  <1>1. /\ st.store \in Store /\ st.pending \in Seq(Request)
        /\ st.answers \in [RequestIds -> Seq(Decision)]
        /\ st.announced \in [Tasks -> ControllerSnapshot] /\ st.todo \in Seq(Call)
    BY DEF TurnState
  <1>2. Elements(st.pending) \subseteq Request /\ Elements(st.todo) \subseteq Call
    BY <1>1, SequenceIs
  <1> QED
    BY <1>1, <1>2 DEF Asked, Calls

\* The fields of a request have their types.
LEMMA RequestTyping ==
    ASSUME NEW q \in Request
    PROVE  /\ q.requestId \in RequestIds /\ q.requesterClientId \in Clients
           /\ q.requesterOwnerId \in Owners /\ q.action \in Actions
           /\ q.targetControllerId \in Clients /\ q.taskId \in Tasks /\ q.ttl \in 0..TimeoutMs
           /\ q.requesterClientId # None /\ q.targetControllerId # None
  BY LeaseAssumption DEF Request

\* What a call carries, according to its name.
LEMMA CallTyping ==
    ASSUME NEW call \in Call
    PROVE  /\ call.name \in AboutRequest \cup Outer \cup {"broadcast"}
           /\ call.name = "reconcile" => call.request \in Request /\ call.taskId \in Tasks
           /\ call.name = "broadcast" => call.snapshot \in ControllerSnapshot
           /\ call.name = "answer" => call.request \in Request /\ call.decision \in Decision
           /\ call.name = "clean up" => call.request \in Request /\ call.client \in Clients
           /\ call.name = "announce" => call.snapshots \subseteq ControllerSnapshot
           /\ call.name = "release" => call.client \in Clients /\ call.order \in KeyOrders
           /\ call.name = "release each" =>
                 /\ call.clients \subseteq Clients /\ call.order \in KeyOrders
                 /\ call.clientOrder \in ClientOrders
           /\ call.name = "sweep" => call.order \in KeyOrders /\ call.clientOrder \in ClientOrders
  <1>1. CASE call \in [name : {"reconcile"}, request : Request, taskId : Tasks]
    BY <1>1 DEF AboutRequest, Outer
  <1>2. CASE call \in [name : {"broadcast"}, snapshot : ControllerSnapshot]
    BY <1>2 DEF AboutRequest, Outer
  <1>3. CASE call \in [name : {"answer"}, request : Request, decision : Decision]
    BY <1>3 DEF AboutRequest, Outer
  <1>4. CASE call \in [name : {"clean up"}, request : Request, client : Clients]
    BY <1>4 DEF AboutRequest, Outer
  <1>5. CASE call \in [name : {"announce"}, snapshots : SUBSET ControllerSnapshot]
    BY <1>5 DEF AboutRequest, Outer
  <1>6. CASE call \in [name : {"release"}, client : Clients, order : KeyOrders]
    BY <1>6 DEF AboutRequest, Outer
  <1>7. CASE call \in [name : {"release each"}, clients : SUBSET Clients, order : KeyOrders,
                       clientOrder : ClientOrders]
    BY <1>7 DEF AboutRequest, Outer
  <1>8. CASE call \in [name : {"sweep"}, order : KeyOrders, clientOrder : ClientOrders]
    BY <1>8 DEF AboutRequest, Outer
  <1> QED
    BY <1>1, <1>2, <1>3, <1>4, <1>5, <1>6, <1>7, <1>8 DEF Call

\* The calls about a request.
LEMMA RequestCalls ==
    ASSUME NEW q \in Request
    PROVE  /\ \A t \in Tasks : /\ Reconcile(q, t) \in Call /\ Reconcile(q, t).name = "reconcile"
                               /\ Reconcile(q, t).request = q /\ Reconcile(q, t).taskId = t
           /\ \A d \in Decision : /\ AnswerIt(q, d) \in Call /\ AnswerIt(q, d).name = "answer"
                                  /\ AnswerIt(q, d).request = q /\ AnswerIt(q, d).decision = d
           /\ \A c \in Clients : /\ CleanUp(q, c) \in Call /\ CleanUp(q, c).name = "clean up"
                                 /\ CleanUp(q, c).request = q /\ CleanUp(q, c).client = c
  BY DEF Call, Reconcile, AnswerIt, CleanUp

\* Another table changes nothing else of a turn.
LEMMA StoreField ==
    ASSUME NEW st \in TurnState, NEW r \in Store
    PROVE  LET nx == WithStore(st, r) IN
           /\ nx \in TurnState /\ nx.store = r /\ nx.pending = st.pending
           /\ nx.answers = st.answers /\ nx.announced = st.announced /\ nx.todo = st.todo
           /\ Asked(nx) = Asked(st) /\ Calls(nx) = Calls(st)
  BY DEF TurnState, WithStore, Asked, Calls

\* Other pending requests change nothing else.
LEMMA PendingField ==
    ASSUME NEW st \in TurnState, NEW p \in Seq(Request)
    PROVE  LET nx == [st EXCEPT !.pending = p] IN
           /\ nx \in TurnState /\ nx.store = st.store /\ nx.pending = p
           /\ nx.answers = st.answers /\ nx.announced = st.announced /\ nx.todo = st.todo
           /\ Calls(nx) = Calls(st)
  BY DEF TurnState, Calls

\* An answer changes nothing else.
LEMMA AnswersField ==
    ASSUME NEW st \in TurnState, NEW r \in RequestIds, NEW d \in Decision
    PROVE  LET nx == Answer(st, r, d) IN
           /\ nx \in TurnState /\ nx.store = st.store /\ nx.pending = st.pending
           /\ nx.announced = st.announced /\ nx.todo = st.todo
           /\ \A u \in RequestIds : nx.answers[u] =
                 IF u = r THEN Append(st.answers[r], d) ELSE st.answers[u]
           /\ Asked(nx) = Asked(st) /\ Calls(nx) = Calls(st)
  <1> DEFINE an == [st.answers EXCEPT ![r] = Append(@, d)]
             nx == [st EXCEPT !.answers = an]
  <1>1. st.answers \in [RequestIds -> Seq(Decision)] /\ Append(st.answers[r], d) \in Seq(Decision)
    BY TurnTyping
  <1>2. /\ an \in [RequestIds -> Seq(Decision)]
        /\ \A u \in RequestIds : an[u] = IF u = r THEN Append(st.answers[r], d) ELSE st.answers[u]
    BY <1>1
  <1> HIDE DEF an
  <1>3. /\ nx \in TurnState /\ nx.store = st.store /\ nx.pending = st.pending
        /\ nx.announced = st.announced /\ nx.todo = st.todo /\ nx.answers = an
    BY <1>2 DEF TurnState
  <1>4. Answer(st, r, d) = nx
    BY DEF Answer, an
  <1> QED
    BY <1>2, <1>3, <1>4 DEF Asked, Calls

\* A broadcast snapshot changes nothing else.
LEMMA AnnouncedField ==
    ASSUME NEW st \in TurnState, NEW p \in ControllerSnapshot
    PROVE  LET nx == [st EXCEPT !.announced[p.taskId] = p] IN
           /\ nx \in TurnState /\ nx.store = st.store /\ nx.pending = st.pending
           /\ nx.answers = st.answers /\ nx.todo = st.todo
           /\ \A t \in Tasks : nx.announced[t] = IF t = p.taskId THEN p ELSE st.announced[t]
           /\ Asked(nx) = Asked(st) /\ Calls(nx) = Calls(st)
  <1> DEFINE an == [st.announced EXCEPT ![p.taskId] = p]
             nx == [st EXCEPT !.announced = an]
  <1>1. st.announced \in [Tasks -> ControllerSnapshot] /\ p.taskId \in Tasks
    BY TurnTyping DEF ControllerSnapshot
  <1>2. /\ an \in [Tasks -> ControllerSnapshot]
        /\ \A t \in Tasks : an[t] = IF t = p.taskId THEN p ELSE st.announced[t]
    BY <1>1
  <1> HIDE DEF an
  <1>3. /\ nx \in TurnState /\ nx.store = st.store /\ nx.pending = st.pending
        /\ nx.answers = st.answers /\ nx.todo = st.todo /\ nx.announced = an
    BY <1>2 DEF TurnState
  <1>4. [st EXCEPT !.announced[p.taskId] = p] = nx
    BY DEF an
  <1> QED
    BY <1>2, <1>3, <1>4 DEF Asked, Calls

\* Other calls that are to do change nothing else.
LEMMA TodoField ==
    ASSUME NEW st \in TurnState, NEW todo \in Seq(Call)
    PROVE  LET nx == [st EXCEPT !.todo = todo] IN
           /\ nx \in TurnState /\ nx.store = st.store /\ nx.pending = st.pending
           /\ nx.answers = st.answers /\ nx.announced = st.announced /\ nx.todo = todo
           /\ Asked(nx) = Asked(st)
  BY DEF TurnState, Asked

-----------------------------------------------------------------------------
(* Taking the next call. *)

\* What the call being made has to take care of.
ToReconcile(call) == {q \in Request : call = Reconcile(q, q.taskId)}

ToCleanUp(call, gone) == {q \in Request : call = CleanUp(q, gone)}

ToAnnounce(call) == {s \in ControllerSnapshot : Says(call, s)}

NoReconcile(st) == \A call \in Calls(st) : call.name # "reconcile"

\* The next call is of the requests and clients of the turn, and what it has to take
\* care of is all that is not in order any more.
LEMMA Popped ==
    ASSUME NEW R, NEW K, NEW gone, NEW st, Good(st, R, K, gone, {}, {}, {}), st.todo # <<>>
    PROVE  LET call == Head(st.todo)
               nx == [st EXCEPT !.todo = Tail(@)]
           IN  /\ call \in Call
               /\ call.name \in AboutRequest => call.request \in R
               /\ call.name = "answer" => Open(nx, call.request.requestId)
               /\ call.name \in Outer => NoReconcile(nx)
               /\ call.name = "release" => call.client \in Leavers
               /\ call.name = "release each" => call.clients \subseteq Leavers
               /\ Good(nx, R, K, gone, ToReconcile(call), ToCleanUp(call, gone), ToAnnounce(call))
  <1> DEFINE call == Head(st.todo)
             rest == Tail(st.todo)
             nx == [st EXCEPT !.todo = Tail(@)]
  <1>1. st \in TurnState /\ st.todo \in Seq(Call)
    BY TurnTyping DEF Good
  <1>2. /\ call \in Call /\ rest \in Seq(Call)
        /\ 1 \in DOMAIN st.todo /\ st.todo[1] = call
        /\ \A i \in DOMAIN rest :
              i \in Int /\ i + 1 \in DOMAIN st.todo /\ 1 < i + 1 /\ rest[i] = st.todo[i + 1]
        /\ Elements(st.todo) = {call} \cup Elements(rest)
    BY <1>1, FirstAndRest
  <1>3. /\ nx \in TurnState /\ nx.store = st.store /\ nx.pending = st.pending
        /\ nx.answers = st.answers /\ nx.announced = st.announced /\ nx.todo = rest
        /\ Asked(nx) = Asked(st)
    BY <1>1, <1>2, TodoField
  <1>4. Calls(st) = {call} \cup Calls(nx) /\ call \in Calls(st)
    BY <1>2, <1>3 DEF Calls
  <1> HIDE DEF call, rest, nx
  <1>5. Known(nx, R) /\ (call.name \in AboutRequest => call.request \in R)
    BY <1>3, <1>4 DEF Good, Known
  <1>6. OneAnswer(rest)
    <2>1. OneAnswer(st.todo)
      BY DEF Good, Once
    <2>2. ASSUME NEW i \in DOMAIN rest, NEW j \in DOMAIN rest, NEW r \in RequestIds,
                 Answers(rest[i], r), Answers(rest[j], r)
          PROVE  i = j
      <3>1. i + 1 = j + 1
        BY <1>2, <2>1, <2>2 DEF OneAnswer
      <3> QED
        BY <3>1, <1>2
    <2> QED
      BY <2>2 DEF OneAnswer
  <1>7. Once(nx)
    <2>1. Once(st)
      BY DEF Good
    <2> QED
      BY <2>1, <1>3, <1>4, <1>6 DEF Once
  <1>8. ASSUME call.name = "answer"
        PROVE  Open(nx, call.request.requestId)
    <2>1. Once(st)
      BY DEF Good
    <2>2. \A d \in Calls(nx) : ~Answers(d, call.request.requestId)
      <3> SUFFICES ASSUME NEW i \in DOMAIN rest, Answers(rest[i], call.request.requestId)
                   PROVE  FALSE
        BY <1>3 DEF Calls, Elements
      <3>1. call.request.requestId \in RequestIds
        BY <1>2, <1>8, CallTyping, RequestTyping
      <3>2. Answers(call, call.request.requestId)
        BY <1>8 DEF Answers
      <3>3. 1 = i + 1
        BY <3>1, <3>2, <1>2, <2>1 DEF Once, OneAnswer
      <3> QED
        BY <3>3, <1>2
    <2> QED
      BY <2>1, <2>2, <1>3, <1>4, <1>8 DEF Once, Open
  <1>9. /\ call.name = "release" => call.client \in Leavers
        /\ call.name = "release each" => call.clients \subseteq Leavers
        /\ Leaving(nx)
    BY <1>4 DEF Good, Leaving
  <1>10. Layered(rest) /\ (call.name \in Outer => NoReconcile(nx))
    <2>1. Layered(st.todo)
      BY DEF Good
    <2>2. Layered(rest)
      <3> SUFFICES ASSUME NEW i \in DOMAIN rest, NEW j \in DOMAIN rest, i < j,
                          rest[i].name \in Outer
                   PROVE  rest[j].name # "reconcile"
        BY DEF Layered
      <3>1. i + 1 < j + 1
        BY <1>2
      <3> QED
        BY <3>1, <2>1, <1>2 DEF Layered
    <2>3. ASSUME call.name \in Outer, NEW j \in DOMAIN rest PROVE rest[j].name # "reconcile"
      BY <2>1, <2>3, <1>2 DEF Layered
    <2> QED
      BY <2>2, <2>3, <1>3 DEF NoReconcile, Calls, Elements
  <1>11. Asks(nx, ToReconcile(call))
    <2> SUFFICES ASSUME NEW q \in Asked(nx) \ ToReconcile(call), Held(nx.store, q.taskId),
                        nx.store.lease[q.taskId].clientId # q.targetControllerId
                 PROVE  Reconcile(q, q.taskId) \in Calls(nx)
      BY DEF Asks
    <2>1. q \in Request
      BY <1>3, TurnTyping
    <2>2. Reconcile(q, q.taskId) \in Calls(st)
      BY <1>3 DEF Good, Asks
    <2> QED
      BY <2>1, <2>2, <1>4 DEF ToReconcile
  <1>12. Cleans(nx, gone, ToCleanUp(call, gone))
    <2> SUFFICES ASSUME NEW q \in Asked(nx) \ ToCleanUp(call, gone), q.requesterClientId = gone
                 PROVE  CleanUp(q, gone) \in Calls(nx)
      BY DEF Cleans
    <2>1. q \in Request
      BY <1>3, TurnTyping
    <2>2. CleanUp(q, gone) \in Calls(st)
      BY <1>3 DEF Good, Cleans
    <2> QED
      BY <2>1, <2>2, <1>4 DEF ToCleanUp
  <1>13. ToAnnounce(call) \subseteq ControllerSnapshot
    BY DEF ToAnnounce
  <1>14. Truth(nx, ToAnnounce(call))
    <2>1. \A t \in Tasks : Said(nx, ToAnnounce(call), t) = Said(st, {}, t)
      BY <1>3, <1>4 DEF Said, ToAnnounce
    <2> QED
      BY <2>1, <1>3 DEF Good, Truth
  <1>15. Granted(nx, R) /\ Kept(nx, R, K) /\ Current(nx.store)
    BY <1>3 DEF Good, Granted, WasGranted, Controls, Kept
  <1>16. Good(nx, R, K, gone, ToReconcile(call), ToCleanUp(call, gone), ToAnnounce(call))
    BY <1>3, <1>5, <1>7, <1>9, <1>10, <1>11, <1>12, <1>13, <1>14, <1>15 DEF Good
  <1> QED
    BY <1>2, <1>5, <1>8, <1>9, <1>10, <1>16 DEF call, nx

-----------------------------------------------------------------------------
(* Calls put before those that are to do. *)

\* What is to reconcile stays before the outer calls.
LEMMA JoinedLayers ==
    ASSUME NEW a \in Seq(Call), NEW b \in Seq(Call), Layered(a), Layered(b),
           \/ \A call \in Elements(b) : call.name # "reconcile"
           \/ \A call \in Elements(a) : call.name \notin Outer
    PROVE  Layered(a \o b)
  <1> DEFINE s == a \o b
             n == Len(a)
  <1>1. /\ s \in Seq(Call)
        /\ \A i \in DOMAIN s : \/ i \in DOMAIN a /\ s[i] = a[i]
                               \/ i - n \in DOMAIN b /\ s[i] = b[i - n]
        /\ \A i, j \in DOMAIN s : (i - n \in DOMAIN b /\ j \in DOMAIN a) => j < i
    BY Joined
  <1>2. /\ DOMAIN s = 1..Len(s) /\ Len(s) \in Nat /\ n \in Nat
        /\ \A i \in DOMAIN a : a[i] \in Elements(a)
        /\ \A i \in DOMAIN b : b[i] \in Elements(b)
    BY <1>1, SequenceIs
  <1> HIDE DEF s, n
  <1> SUFFICES ASSUME NEW i \in DOMAIN s, NEW j \in DOMAIN s, i < j, s[i].name \in Outer
               PROVE  s[j].name # "reconcile"
    BY DEF Layered, s
  <1>3. i - n < j - n /\ ~(j < i)
    BY <1>2
  <1>4. CASE j \in DOMAIN a /\ s[j] = a[j]
    <2>1. i \in DOMAIN a /\ s[i] = a[i]
      BY <1>1, <1>3, <1>4
    <2> QED
      BY <1>4, <2>1 DEF Layered
  <1>5. CASE j - n \in DOMAIN b /\ s[j] = b[j - n]
    <2>1. CASE i \in DOMAIN a /\ s[i] = a[i]
      BY <2>1, <1>2, <1>5
    <2>2. CASE i - n \in DOMAIN b /\ s[i] = b[i - n]
      BY <1>3, <1>5, <2>2 DEF Layered
    <2> QED
      BY <2>1, <2>2, <1>1
  <1> QED
    BY <1>1, <1>4, <1>5

\* No two answers for one request are under way.
LEMMA JoinedAnswers ==
    ASSUME NEW a \in Seq(Call), NEW b \in Seq(Call), OneAnswer(a), OneAnswer(b),
           \A r \in RequestIds, x \in Elements(a), y \in Elements(b) :
               ~(Answers(x, r) /\ Answers(y, r))
    PROVE  OneAnswer(a \o b)
  <1> DEFINE s == a \o b
             n == Len(a)
  <1>1. /\ s \in Seq(Call)
        /\ \A i \in DOMAIN s : \/ i \in DOMAIN a /\ s[i] = a[i]
                               \/ i - n \in DOMAIN b /\ s[i] = b[i - n]
    BY Joined
  <1>2. /\ DOMAIN s = 1..Len(s) /\ Len(s) \in Nat /\ n \in Nat
        /\ \A i \in DOMAIN a : a[i] \in Elements(a)
        /\ \A i \in DOMAIN b : b[i] \in Elements(b)
    BY <1>1, SequenceIs
  <1> HIDE DEF s, n
  <1> SUFFICES ASSUME NEW i \in DOMAIN s, NEW j \in DOMAIN s, NEW r \in RequestIds,
                      Answers(s[i], r), Answers(s[j], r)
               PROVE  i = j
    BY DEF OneAnswer, s
  <1>3. CASE /\ i \in DOMAIN a /\ s[i] = a[i]
             /\ j \in DOMAIN a /\ s[j] = a[j]
    BY <1>3 DEF OneAnswer
  <1>4. CASE /\ i - n \in DOMAIN b /\ s[i] = b[i - n]
             /\ j - n \in DOMAIN b /\ s[j] = b[j - n]
    <2>1. i - n = j - n
      BY <1>4 DEF OneAnswer
    <2> QED
      BY <1>2, <2>1
  <1> QED
    BY <1>1, <1>2, <1>3, <1>4

-----------------------------------------------------------------------------
(* The elementary changes of a turn. *)

\* A table operation that starts no term: who holds a lease after it held it before.
Lessens(s, r) ==
    /\ StoreStep(s, r)
    /\ \A t \in Tasks : Held(r, t) => /\ Held(s, t)
                                      /\ r.lease[t].clientId = s.lease[t].clientId
                                      /\ r.lease[t].action = s.lease[t].action

\* No request of the turn is granted yet, and it has no lease to keep.
Free(st, R, K) == K = {} /\ \A q \in R : ~WasGranted(st, q)

\* Such an operation may take the leases of leavers, and of anybody in a turn that has
\* granted nothing.  The snapshots D that it makes are of tasks it leaves unheld.
LEMMA StoreLessened ==
    ASSUME NEW R, NEW K, Premises(R, K), NEW gone, NEW X, NEW Y, NEW E, NEW st,
           Good(st, R, K, gone, X, Y, E),
           NEW r, Lessens(st.store, r),
           \A t \in Tasks : (Held(st.store, t) /\ ~Held(r, t)) =>
               Free(st, R, K) \/ st.store.lease[t].clientId \in Leavers,
           NEW D \in SUBSET ControllerSnapshot,
           \A p \in D : p.version <= r.version /\ ~Held(r, p.taskId)
    PROVE  Good(WithStore(st, r), R, K, gone, X, Y, E \cup D)
  <1> DEFINE s == st.store
             nx == WithStore(st, r)
  <1>1. st \in TurnState /\ s \in Store /\ r \in Store /\ Current(r) /\ s.version <= r.version
    BY TurnTyping DEF Good, Lessens, StoreStep
  <1>2. /\ nx \in TurnState /\ nx.store = r /\ nx.pending = st.pending
        /\ nx.answers = st.answers /\ nx.announced = st.announced /\ nx.todo = st.todo
        /\ Asked(nx) = Asked(st) /\ Calls(nx) = Calls(st)
    BY <1>1, StoreField
  <1>3. \A t \in Tasks : Held(r, t) => /\ Held(s, t)
                                       /\ r.lease[t].clientId = s.lease[t].clientId
                                       /\ r.lease[t].action = s.lease[t].action
    BY DEF Lessens
  <1>4. Asked(st) \subseteq R /\ R \subseteq Request
    BY DEF Good, Known, Premises, Rightful, WellAsked
  <1> HIDE DEF s, nx
  <1>5. Known(nx, R) /\ Once(nx) /\ Cleans(nx, gone, Y) /\ Layered(nx.todo) /\ Leaving(nx)
    BY <1>2 DEF Good, Known, Once, Cleans, Leaving
  <1>6. Asks(nx, X)
    <2>1. Asks(st, X)
      BY DEF Good
    <2> QED
      BY <2>1, <1>2, <1>3, <1>4, RequestTyping DEF Asks, s
  <1>7. Truth(nx, E \cup D)
    <2> SUFFICES ASSUME NEW t \in Tasks
                 PROVE  NewestIsTrue(r, t, Said(nx, E \cup D, t))
      BY <1>2 DEF Truth
    <2>1. NewestIsTrue(s, t, Said(st, E, t))
      BY DEF Good, Truth, s
    <2>2. \A p \in Said(nx, E \cup D, t) : p \in Said(st, E, t) \/ (p \in D /\ p.taskId = t)
      BY <1>2 DEF Said
    <2>3. Said(st, E, t) \subseteq Said(nx, E \cup D, t)
      BY <1>2 DEF Said
    <2>4. \A p \in Said(st, E, t) : p \in ControllerSnapshot
      BY <1>1, TurnTyping DEF Said
    <2>5. \A p \in Said(nx, E \cup D, t) : p.version <= r.version
      <3>1. \A p \in ControllerSnapshot : p.version \in Nat
        BY DEF ControllerSnapshot
      <3>2. s.version \in Nat /\ r.version \in Nat
        BY <1>1 DEF Store
      <3> QED
        BY <3>1, <3>2, <2>1, <2>2, <2>4, <1>1 DEF NewestIsTrue
    <2>6. CASE ~Held(r, t)
      BY <2>5, <2>6 DEF NewestIsTrue
    <2>7. CASE Held(r, t)
      <3>1. Said(nx, E \cup D, t) = Said(st, E, t)
        BY <2>2, <2>3, <2>7
      <3>2. Held(s, t) /\ \A p : Agrees(s, t, p) <=> Agrees(r, t, p)
        BY <2>7, <1>3 DEF Agrees
      <3> QED
        BY <3>1, <3>2, <2>1, <2>5 DEF NewestIsTrue
    <2> QED
      BY <2>6, <2>7
  <1>8. Granted(nx, R)
    <2> SUFFICES ASSUME NEW q \in R, WasGranted(nx, q)
                 PROVE  Held(r, q.taskId) /\ r.lease[q.taskId].clientId = q.requesterClientId
      BY <1>2 DEF Granted, Controls
    <2>1. WasGranted(st, q)
      BY <1>2 DEF WasGranted
    <2>2. Held(s, q.taskId) /\ s.lease[q.taskId].clientId = q.requesterClientId
      BY <2>1 DEF Good, Granted, Controls, s
    <2>3. q.taskId \in Tasks /\ q.requesterClientId \notin Leavers
      BY <1>4, RequestTyping DEF Premises, Rightful
    <2>4. Held(r, q.taskId)
      BY <2>1, <2>2, <2>3 DEF Free, s
    <2> QED
      BY <2>2, <2>3, <2>4, <1>3
  <1>9. Kept(nx, R, K)
    <2> SUFFICES ASSUME NEW k \in K
                 PROVE  Held(r, k[1]) /\ r.lease[k[1]].clientId \in May(R, k[1], k[2])
      BY <1>2 DEF Kept
    <2>1. Held(s, k[1]) /\ s.lease[k[1]].clientId \in May(R, k[1], k[2])
      BY DEF Good, Kept, s
    <2>2. k[1] \in Tasks /\ k[2] \notin Leavers
      BY DEF Premises
    <2>3. s.lease[k[1]].clientId \notin Leavers
      BY <2>1, <2>2 DEF May, Premises, Rightful
    <2>4. Held(r, k[1])
      BY <2>1, <2>2, <2>3 DEF Free, s
    <2> QED
      BY <2>1, <2>2, <2>4, <1>3
  <1>10. E \cup D \subseteq ControllerSnapshot
    BY DEF Good
  <1>11. Good(nx, R, K, gone, X, Y, E \cup D)
    BY <1>1, <1>2, <1>5, <1>6, <1>7, <1>8, <1>9, <1>10 DEF Good
  <1> QED
    BY <1>11 DEF nx

\* A table operation that gives task t to client c under a new version.
Gives(s, r, t, c, a) ==
    /\ StoreStep(s, r)
    /\ s.version < r.version
    /\ Held(r, t) /\ r.lease[t].clientId = c /\ r.lease[t].action = a
    /\ \A u \in Tasks \ {t} : r.lease[u] = s.lease[u]

\* It may happen when every request for the task that was granted in this turn is the
\* client's; then the requests for the task are to be reconciled, and the new
\* controller is to be announced.
LEMMA StoreGiven ==
    ASSUME NEW R, NEW K, Premises(R, K), NEW gone, NEW X, NEW Y, NEW E, NEW st,
           Good(st, R, K, gone, X, Y, E),
           NEW t \in Tasks, NEW c, NEW a, NEW r, Gives(st.store, r, t, c, a),
           \A q \in R : (WasGranted(st, q) /\ q.taskId = t) => q.requesterClientId = c,
           \A k \in K : k[1] = t => c \in May(R, t, k[2])
    PROVE  Good(WithStore(st, r), R, K, gone, X \cup {q \in R : q.taskId = t}, Y,
                E \cup {Snapshot(r, t)})
  <1> DEFINE s == st.store
             nx == WithStore(st, r)
             p == Snapshot(r, t)
             V == X \cup {q \in R : q.taskId = t}
  <1>1. st \in TurnState /\ s \in Store /\ r \in Store /\ Current(r) /\ s.version < r.version
    BY TurnTyping DEF Good, Gives, StoreStep
  <1>2. /\ nx \in TurnState /\ nx.store = r /\ nx.pending = st.pending
        /\ nx.answers = st.answers /\ nx.announced = st.announced /\ nx.todo = st.todo
        /\ Asked(nx) = Asked(st) /\ Calls(nx) = Calls(st)
    BY <1>1, StoreField
  <1>3. \A u \in Tasks \ {t} : Held(r, u) <=> Held(s, u)
    BY DEF Gives, Held
  <1>4. Asked(st) \subseteq R /\ R \subseteq Request
    BY DEF Good, Known, Premises, Rightful, WellAsked
  <1>5. p \in ControllerSnapshot /\ p.taskId = t /\ p.version = r.version /\ Agrees(r, t, p)
    <2>1. r.version \in Nat
      BY <1>1 DEF Store
    <2>2. p \in ControllerSnapshot /\ p.taskId = t /\ p.version = r.version
      BY <2>1, <1>1, SnapshotTyping DEF Snapshot
    <2>3. r.lease[t] # None
      BY DEF Gives, Held
    <2>4. p.controllerId = r.lease[t].clientId /\ p.action = r.lease[t].action
      BY <2>3 DEF Snapshot, SnapshotAt
    <2> QED
      BY <2>2, <2>4 DEF Agrees
  <1> HIDE DEF s, nx, p, V
  <1>6. Known(nx, R) /\ Once(nx) /\ Cleans(nx, gone, Y) /\ Layered(nx.todo) /\ Leaving(nx)
    BY <1>2 DEF Good, Known, Once, Cleans, Leaving
  <1>7. Asks(nx, V)
    <2> SUFFICES ASSUME NEW q \in Asked(nx) \ V, Held(r, q.taskId),
                        r.lease[q.taskId].clientId # q.targetControllerId
                 PROVE  Reconcile(q, q.taskId) \in Calls(nx)
      BY <1>2 DEF Asks
    <2>1. q \in Asked(st) \ X /\ q.taskId \in Tasks \ {t}
      BY <1>2, <1>4, RequestTyping DEF V
    <2>2. Held(s, q.taskId) /\ s.lease[q.taskId].clientId # q.targetControllerId
      BY <2>1, <1>3 DEF Gives, s
    <2> QED
      BY <2>1, <2>2, <1>2 DEF Good, Asks, s
  <1>8. Truth(nx, E \cup {p})
    <2> SUFFICES ASSUME NEW u \in Tasks
                 PROVE  NewestIsTrue(r, u, Said(nx, E \cup {p}, u))
      BY <1>2 DEF Truth
    <2>1. NewestIsTrue(s, u, Said(st, E, u))
      BY DEF Good, Truth, s
    <2>2. Said(nx, E \cup {p}, u) = IF u = t THEN Said(st, E, u) \cup {p} ELSE Said(st, E, u)
      <3>1. \A x : x \in Said(nx, E \cup {p}, u) <=> (x \in Said(st, E, u) \/ (x = p /\ u = t))
        BY <1>2, <1>5 DEF Said
      <3> QED
        BY <3>1
    <2>3. \A x \in Said(st, E, u) : x.version \in Nat
      BY <1>1, TurnTyping DEF Said, ControllerSnapshot
    <2>4. s.version \in Nat /\ r.version \in Nat
      BY <1>1 DEF Store
    <2>5. \A x \in Said(st, E, u) : x.version < r.version
      BY <2>1, <2>3, <2>4, <1>1 DEF NewestIsTrue
    <2>6. CASE u = t
      <3>1. \A x \in Said(nx, E \cup {p}, u) :
                x.version <= r.version /\ (x.version = r.version => x = p)
        BY <2>2, <2>3, <2>4, <2>5, <2>6, <1>5
      <3>2. p \in Said(nx, E \cup {p}, u)
        BY <2>2, <2>6
      <3> QED
        BY <3>1, <3>2, <2>6, <1>5 DEF NewestIsTrue
    <2>7. CASE u # t
      <3>1. \A x \in Said(st, E, u) : x.version <= r.version
        BY <2>3, <2>4, <2>5
      <3>2. r.lease[u] = s.lease[u] /\ (Held(r, u) <=> Held(s, u))
        BY <2>7, <1>3 DEF Gives, s
      <3>3. \A x : Agrees(r, u, x) <=> Agrees(s, u, x)
        BY <3>2 DEF Agrees
      <3> QED
        BY <3>1, <3>2, <3>3, <2>1, <2>2, <2>7 DEF NewestIsTrue
    <2> QED
      BY <2>6, <2>7
  <1>9. Granted(nx, R)
    <2> SUFFICES ASSUME NEW q \in R, WasGranted(nx, q)
                 PROVE  Held(r, q.taskId) /\ r.lease[q.taskId].clientId = q.requesterClientId
      BY <1>2 DEF Granted, Controls
    <2>1. WasGranted(st, q) /\ q.taskId \in Tasks
      BY <1>2, <1>4, RequestTyping DEF WasGranted
    <2>2. Held(s, q.taskId) /\ s.lease[q.taskId].clientId = q.requesterClientId
      BY <2>1 DEF Good, Granted, Controls, s
    <2> QED
      BY <2>1, <2>2, <1>3 DEF Gives, s
  <1>10. Kept(nx, R, K)
    <2> SUFFICES ASSUME NEW k \in K
                 PROVE  Held(r, k[1]) /\ r.lease[k[1]].clientId \in May(R, k[1], k[2])
      BY <1>2 DEF Kept
    <2>1. Held(s, k[1]) /\ s.lease[k[1]].clientId \in May(R, k[1], k[2]) /\ k[1] \in Tasks
      BY DEF Good, Kept, s, Premises
    <2> QED
      BY <2>1, <1>3 DEF Gives, s
  <1>11. E \cup {p} \subseteq ControllerSnapshot
    BY <1>5 DEF Good
  <1>12. Good(nx, R, K, gone, V, Y, E \cup {p})
    BY <1>1, <1>2, <1>6, <1>7, <1>8, <1>9, <1>10, <1>11 DEF Good
  <1> QED
    BY <1>12 DEF nx, V, p

\* Calls that may be added to what is to do: they are of the requests and clients of
\* the turn, and bring nothing to reconcile under an outer call.
Pushable(st, R, calls) ==
    /\ calls \in Seq(Call)
    /\ \A call \in Elements(calls) :
          /\ call.name # "answer"
          /\ call.name \in AboutRequest => call.request \in R
          /\ call.name = "release" => call.client \in Leavers
          /\ call.name = "release each" => call.clients \subseteq Leavers
    /\ Layered(calls)
    /\ NoReconcile(st) \/ \A call \in Elements(calls) : call.name \notin Outer

\* They take care of X but for V, of Y but for W, and of E but for F.
Relieves(st, calls, gone, X, V, Y, W, E, F) ==
    /\ \A q \in (Asked(st) \cap X) \ V : Reconcile(q, q.taskId) \in Elements(calls)
    /\ \A q \in (Asked(st) \cap Y) \ W :
          q.requesterClientId = gone => CleanUp(q, gone) \in Elements(calls)
    /\ F \subseteq E
    /\ \A p \in ControllerSnapshot :
          p \in E <=> (p \in F \/ \E call \in Elements(calls) : Says(call, p))

\* The calls added to what is to do take care of what was excused before.
LEMMA Pushed ==
    ASSUME NEW R, NEW K, NEW gone, NEW X, NEW Y, NEW E, NEW st, Good(st, R, K, gone, X, Y, E),
           NEW calls, NEW V, NEW W, NEW F, Pushable(st, R, calls),
           Relieves(st, calls, gone, X, V, Y, W, E, F)
    PROVE  /\ Good(ToDo(st, calls), R, K, gone, V, W, F)
           /\ Calls(ToDo(st, calls)) = Elements(calls) \cup Calls(st)
           /\ Asked(ToDo(st, calls)) = Asked(st)
  <1> DEFINE nx == ToDo(st, calls)
             todo == calls \o st.todo
  <1>1. st \in TurnState /\ st.todo \in Seq(Call) /\ st.pending \in Seq(Request)
        /\ calls \in Seq(Call) /\ Layered(calls)
    BY TurnTyping DEF Good, Pushable
  <1>2. todo \in Seq(Call) /\ Elements(todo) = Elements(calls) \cup Elements(st.todo)
    BY <1>1, Joined
  <1>3. /\ \A i \in DOMAIN calls : calls[i] \in Elements(calls)
        /\ Layered(todo)
    <2>1. Layered(st.todo)
      BY DEF Good
    <2>2. \/ \A call \in Elements(st.todo) : call.name # "reconcile"
          \/ \A call \in Elements(calls) : call.name \notin Outer
      BY DEF NoReconcile, Calls, Pushable
    <2> QED
      BY <2>1, <2>2, <1>1, JoinedLayers, SequenceIs
  <1> HIDE DEF todo
  <1>4. /\ nx \in TurnState /\ nx.store = st.store /\ nx.pending = st.pending
        /\ nx.answers = st.answers /\ nx.announced = st.announced /\ nx.todo = todo
        /\ Asked(nx) = Asked(st)
    <2>1. nx = [st EXCEPT !.todo = todo]
      BY DEF ToDo, todo
    <2> HIDE DEF nx
    <2> QED
      BY <1>1, <1>2, <2>1, TodoField
  <1>5. Calls(nx) = Elements(calls) \cup Calls(st)
    BY <1>2, <1>4 DEF Calls
  <1> HIDE DEF nx
  <1>6. Known(nx, R) /\ Leaving(nx)
    BY <1>4, <1>5 DEF Good, Known, Leaving, Pushable
  <1>7. Once(nx)
    <2>1. Once(st)
      BY DEF Good
    <2>2. OneAnswer(todo)
      <3>1. \A call \in Elements(calls), r \in RequestIds : ~Answers(call, r)
        BY DEF Answers, Pushable
      <3>2. OneAnswer(calls)
        BY <3>1, <1>3 DEF OneAnswer
      <3>3. OneAnswer(st.todo)
        BY <2>1 DEF Once
      <3>4. \A r \in RequestIds, x \in Elements(calls), y \in Elements(st.todo) :
                ~(Answers(x, r) /\ Answers(y, r))
        BY <3>1
      <3>5. OneAnswer(calls \o st.todo)
        BY <3>2, <3>3, <3>4, <1>1, JoinedAnswers
      <3> QED
        BY <3>5 DEF todo
    <2>3. \A call \in Elements(calls) : call.name # "answer"
      BY DEF Pushable
    <2> QED
      BY <2>1, <2>2, <2>3, <1>4, <1>5 DEF Once
  <1>8. Asks(nx, V)
    BY <1>4, <1>5 DEF Good, Asks, Relieves
  <1>9. Cleans(nx, gone, W)
    BY <1>4, <1>5 DEF Good, Cleans, Relieves
  <1>10. Truth(nx, F)
    <2>1. \A t \in Tasks : \A p : p \in Said(nx, F, t) <=> p \in Said(st, E, t)
      BY <1>4, <1>5 DEF Said, Relieves
    <2>2. \A t \in Tasks : Said(nx, F, t) = Said(st, E, t)
      BY <2>1
    <2> QED
      BY <2>2, <1>4 DEF Good, Truth
  <1>11. Granted(nx, R) /\ Kept(nx, R, K) /\ Current(nx.store)
    BY <1>4 DEF Good, Granted, WasGranted, Controls, Kept
  <1>12. F \subseteq ControllerSnapshot
    BY DEF Good, Relieves
  <1>13. Good(nx, R, K, gone, V, W, F)
    BY <1>3, <1>4, <1>6, <1>7, <1>8, <1>9, <1>10, <1>11, <1>12 DEF Good
  <1> QED
    BY <1>4, <1>5, <1>13 DEF nx

\* An answer may be put off for a request that is open.
LEMMA AnswerPushed ==
    ASSUME NEW R, NEW K, NEW gone, NEW X, NEW Y, NEW E, NEW st, Good(st, R, K, gone, X, Y, E),
           NEW q \in Request, q \in R, NEW d \in Decision, Open(st, q.requestId)
    PROVE  LET nx == ToDo(st, <<AnswerIt(q, d)>>) IN
           /\ Good(nx, R, K, gone, X, Y, E)
           /\ nx.store = st.store /\ nx.answers = st.answers /\ Asked(nx) = Asked(st)
  <1> DEFINE call == AnswerIt(q, d)
             nx == ToDo(st, <<call>>)
             todo == <<call>> \o st.todo
  <1>1. st \in TurnState /\ st.todo \in Seq(Call) /\ st.pending \in Seq(Request)
    BY TurnTyping DEF Good
  <1>2. call \in Call /\ call.name = "answer" /\ call.request = q
    BY DEF AnswerIt, Call
  <1> HIDE DEF call
  <1>3. <<call>> \in Seq(Call) /\ Elements(<<call>>) = {call} /\ DOMAIN <<call>> = {1}
        /\ <<call>>[1] = call
    BY <1>2, OnlyOne
  <1>4. todo \in Seq(Call) /\ Elements(todo) = {call} \cup Elements(st.todo)
    <2>1. Elements(todo) = Elements(<<call>>) \cup Elements(st.todo) /\ todo \in Seq(Call)
      BY <1>1, <1>3, Joined
    <2> QED
      BY <1>3, <2>1, Zenon
  <1> HIDE DEF todo
  <1>5. /\ nx \in TurnState /\ nx.store = st.store /\ nx.pending = st.pending
        /\ nx.answers = st.answers /\ nx.announced = st.announced /\ nx.todo = todo
        /\ Asked(nx) = Asked(st)
    <2>1. nx = [st EXCEPT !.todo = todo]
      BY DEF ToDo, todo
    <2> HIDE DEF nx
    <2> QED
      BY <1>1, <1>4, <2>1, TodoField
  <1>6. Calls(nx) = {call} \cup Calls(st) /\ \A i \in DOMAIN st.todo : st.todo[i] \in Calls(st)
    BY <1>1, <1>4, <1>5, SequenceIs DEF Calls
  <1> HIDE DEF nx
  <1>7. Known(nx, R) /\ Leaving(nx)
    BY <1>2, <1>5, <1>6 DEF Good, Known, Leaving
  <1>8. Once(nx)
    <2>1. Once(st)
      BY DEF Good
    <2>2. OneAnswer(todo)
      <3>1. OneAnswer(<<call>>)
        BY <1>3 DEF OneAnswer
      <3>2. \A r \in RequestIds, y \in Elements(st.todo) : ~(Answers(call, r) /\ Answers(y, r))
        BY <1>2 DEF Open, Answers, Calls
      <3> QED
        BY <2>1, <3>1, <3>2, <1>1, <1>3, JoinedAnswers DEF Once, todo
    <2>3. /\ st.answers[q.requestId] = <<>>
          /\ \A p \in Asked(st) : p.requestId # q.requestId
      BY DEF Open
    <2> QED
      BY <2>1, <2>2, <2>3, <1>2, <1>5, <1>6 DEF Once
  <1>9. Asks(nx, X) /\ Cleans(nx, gone, Y)
    BY <1>5, <1>6 DEF Good, Asks, Cleans
  <1>10. Truth(nx, E)
    <2>1. \A t \in Tasks : Said(nx, E, t) = Said(st, E, t)
      BY <1>2, <1>5, <1>6 DEF Said, Says
    <2> QED
      BY <2>1, <1>5 DEF Good, Truth
  <1>11. Layered(todo)
    <2>1. Layered(<<call>>)
      BY <1>3 DEF Layered
    <2>2. \A x \in Elements(<<call>>) : x.name \notin Outer
      BY <1>2, <1>3 DEF Outer
    <2>3. Layered(st.todo)
      BY DEF Good
    <2> QED
      BY <2>1, <2>2, <2>3, <1>1, <1>3, JoinedLayers DEF todo
  <1>12. Granted(nx, R) /\ Kept(nx, R, K) /\ Current(nx.store)
    BY <1>5 DEF Good, Granted, WasGranted, Controls, Kept
  <1>13. Good(nx, R, K, gone, X, Y, E)
    BY <1>5, <1>7, <1>8, <1>9, <1>10, <1>11, <1>12 DEF Good
  <1> QED
    BY <1>5, <1>13 DEF nx, call

\* A pending request is taken out: it is open then.
LEMMA Cleared ==
    ASSUME NEW R, NEW K, NEW gone, NEW X, NEW Y, NEW E, NEW st, Good(st, R, K, gone, X, Y, E),
           WellAsked(R), NEW q \in Asked(st)
    PROVE  LET nx == Clear(st, q.requestId) IN
           /\ Good(nx, R, K, gone, X \ {q}, Y \ {q}, E)
           /\ Open(nx, q.requestId)
           /\ nx.store = st.store /\ nx.answers = st.answers /\ nx.todo = st.todo
  <1> DEFINE p == st.pending
             k == CHOOSE i \in DOMAIN p : p[i].requestId = q.requestId
             left == RemoveAt(p, k)
             nx == [st EXCEPT !.pending = left]
  <1>1. st \in TurnState /\ p \in Seq(Request) /\ Asked(st) \subseteq R /\ R \subseteq Request
    BY TurnTyping DEF Good, Known, WellAsked
  <1>2. k \in DOMAIN p /\ p[k] = q
    <2>1. PICK i \in DOMAIN p : p[i] = q
      BY DEF Asked, Elements
    <2>2. k \in DOMAIN p /\ p[k].requestId = q.requestId
      BY <2>1
    <2>3. p[k] \in Asked(st)
      BY <2>2 DEF Asked, Elements
    <2> QED
      BY <2>2, <2>3, <1>1 DEF WellAsked
  <1> HIDE DEF k
  <1>3. /\ left \in Seq(Request)
        /\ \A i \in DOMAIN left : left[i] = p[IF i < k THEN i ELSE i + 1]
        /\ \A i \in DOMAIN left : i \in Int /\ (IF i < k THEN i ELSE i + 1) \in DOMAIN p \ {k}
    BY <1>1, <1>2, TakenOut
  <1>4. Distinct(p)
    BY DEF Good, Once
  <1>5. DOMAIN p = 1..Len(p) /\ Len(p) \in Nat
    BY <1>1, SequenceIs
  <1> HIDE DEF left, p
  <1>6. /\ nx \in TurnState /\ nx.store = st.store /\ nx.pending = left
        /\ nx.answers = st.answers /\ nx.announced = st.announced /\ nx.todo = st.todo
        /\ Calls(nx) = Calls(st)
    BY <1>1, <1>3, PendingField
  <1>7. Clear(st, q.requestId) = nx
    BY DEF Clear, left, k, p
  <1> HIDE DEF nx
  <1>8. Asked(nx) \subseteq Asked(st) \ {q}
    <2>1. ASSUME NEW i \in DOMAIN left
          PROVE  left[i] \in Asked(st) \ {q}
      <3> DEFINE j == IF i < k THEN i ELSE i + 1
      <3>1. left[i] = p[j] /\ j \in DOMAIN p /\ j # k
        BY <1>3
      <3>2. p[j] # q
        BY <3>1, <1>2, <1>4 DEF Distinct
      <3> QED
        BY <3>1, <3>2 DEF Asked, Elements, p
    <2> QED
      BY <2>1, <1>6 DEF Asked, Elements
  <1>9. Distinct(left)
    <2> SUFFICES ASSUME NEW i \in DOMAIN left, NEW j \in DOMAIN left,
                        left[i].requestId = left[j].requestId
                 PROVE  i = j
      BY DEF Distinct
    <2>1. (IF i < k THEN i ELSE i + 1) = (IF j < k THEN j ELSE j + 1)
      BY <1>3, <1>4 DEF Distinct
    <2>2. i \in Int /\ j \in Int /\ k \in Int
      BY <1>2, <1>3, <1>5
    <2> QED
      BY <2>1, <2>2
  <1>10. Known(nx, R) /\ Leaving(nx) /\ Layered(nx.todo)
    BY <1>6, <1>8 DEF Good, Known, Leaving
  <1>11. Once(nx)
    BY <1>6, <1>8, <1>9 DEF Good, Once
  <1>12. Asks(nx, X \ {q}) /\ Cleans(nx, gone, Y \ {q})
    BY <1>6, <1>8 DEF Good, Asks, Cleans
  <1>13. Truth(nx, E)
    <2>1. \A t \in Tasks : Said(nx, E, t) = Said(st, E, t)
      BY <1>6 DEF Said
    <2> QED
      BY <2>1, <1>6 DEF Good, Truth
  <1>14. Granted(nx, R) /\ Kept(nx, R, K) /\ Current(nx.store)
    BY <1>6 DEF Good, Granted, WasGranted, Controls, Kept
  <1>15. Good(nx, R, K, gone, X \ {q}, Y \ {q}, E)
    BY <1>6, <1>10, <1>11, <1>12, <1>13, <1>14 DEF Good
  <1>16. Open(nx, q.requestId)
    <2>1. \A u \in Asked(nx) : u.requestId # q.requestId
      BY <1>1, <1>8 DEF WellAsked
    <2>2. ASSUME NEW call \in Calls(nx) PROVE ~Answers(call, q.requestId)
      BY <2>2, <1>6 DEF Good, Once, Answers
    <2> QED
      BY <2>1, <2>2, <1>6 DEF Open, Good, Once
  <1> QED
    BY <1>6, <1>7, <1>15, <1>16

\* An open request gets its answer: one that grants it, if its client has control.
LEMMA Answered ==
    ASSUME NEW R, NEW K, NEW gone, NEW X, NEW Y, NEW E, NEW st, Good(st, R, K, gone, X, Y, E),
           WellAsked(R), NEW r \in RequestIds, NEW d \in Decision, Open(st, r),
           \A q \in R : (q.requestId = r /\ Grants(d)) =>
               Controls(st, q.taskId, q.requesterClientId)
    PROVE  LET nx == Answer(st, r, d) IN
           /\ Good(nx, R, K, gone, X, Y, E)
           /\ nx.store = st.store /\ Asked(nx) = Asked(st) /\ Calls(nx) = Calls(st)
  <1> DEFINE nx == Answer(st, r, d)
  <1>1. st \in TurnState
    BY DEF Good
  <1>2. /\ nx \in TurnState /\ nx.store = st.store /\ nx.pending = st.pending
        /\ nx.announced = st.announced /\ nx.todo = st.todo
        /\ \A u \in RequestIds : nx.answers[u] =
              IF u = r THEN Append(st.answers[r], d) ELSE st.answers[u]
        /\ Asked(nx) = Asked(st) /\ Calls(nx) = Calls(st)
    BY <1>1, AnswersField
  <1> HIDE DEF nx
  <1>3. st.answers[r] = <<>>
    BY DEF Open
  <1>4. nx.answers[r] = <<d>>
    BY <1>2, <1>3
  <1>5. Known(nx, R) /\ Leaving(nx) /\ Layered(nx.todo) /\ Asks(nx, X) /\ Cleans(nx, gone, Y)
        /\ Kept(nx, R, K) /\ Current(nx.store)
    BY <1>2 DEF Good, Known, Leaving, Asks, Cleans, Kept
  <1>6. Once(nx)
    <2>1. Once(st)
      BY DEF Good
    <2>2. \A q \in Asked(nx) : nx.answers[q.requestId] = <<>>
      <3> SUFFICES ASSUME NEW q \in Asked(nx) PROVE nx.answers[q.requestId] = <<>>
        OBVIOUS
      <3>1. q.requestId \in RequestIds /\ q.requestId # r
        BY <1>1, <1>2, TurnTyping, RequestTyping DEF Open
      <3> QED
        BY <3>1, <2>1, <1>2 DEF Once
    <2>3. ASSUME NEW call \in Calls(nx), call.name = "answer"
          PROVE  /\ nx.answers[call.request.requestId] = <<>>
                 /\ \A q \in Asked(nx) : q.requestId # call.request.requestId
      <3>1. call \in Call
        BY <1>1, <1>2, TurnTyping
      <3>2. call.request.requestId \in RequestIds
        BY <2>3, <3>1, CallTyping, RequestTyping
      <3>3. call.request.requestId # r
        BY <2>3, <1>2 DEF Open, Answers
      <3> QED
        BY <3>2, <3>3, <2>1, <2>3, <1>2 DEF Once
    <2>4. \A u \in RequestIds : Len(nx.answers[u]) <= 1
      <3>1. \A u \in RequestIds : Len(st.answers[u]) <= 1
        BY <2>1 DEF Once
      <3>2. \A u \in RequestIds : u # r => Len(nx.answers[u]) <= 1
        BY <3>1, <1>2
      <3>3. Len(<<d>>) <= 1
        OBVIOUS
      <3>4. Len(nx.answers[r]) <= 1
        BY <3>3, <1>4, Zenon
      <3> QED
        BY <3>2, <3>4
    <2> QED
      BY <2>1, <2>2, <2>3, <2>4, <1>2 DEF Once
  <1>7. Truth(nx, E)
    <2>1. \A t \in Tasks : Said(nx, E, t) = Said(st, E, t)
      BY <1>2 DEF Said
    <2> QED
      BY <2>1, <1>2 DEF Good, Truth
  <1>8. Granted(nx, R)
    <2> SUFFICES ASSUME NEW q \in R, WasGranted(nx, q)
                 PROVE  Controls(nx, q.taskId, q.requesterClientId)
      BY DEF Granted
    <2>1. CASE q.requestId = r
      <3>1. <<d>> = <<"approved">> \/ <<d>> = <<"owner-missing">>
        BY <2>1, <1>4 DEF WasGranted
      <3>2. Grants(d)
        BY <3>1 DEF Grants
      <3> QED
        BY <3>2, <2>1, <1>2 DEF Controls
    <2>2. CASE q.requestId # r
      <3>1. q.requestId \in RequestIds
        BY RequestTyping DEF WellAsked
      <3>2. WasGranted(st, q)
        BY <3>1, <2>2, <1>2 DEF WasGranted
      <3> QED
        BY <3>2, <1>2 DEF Good, Granted, Controls
    <2> QED
      BY <2>1, <2>2
  <1>9. Good(nx, R, K, gone, X, Y, E)
    BY <1>2, <1>5, <1>6, <1>7, <1>8 DEF Good
  <1> QED
    BY <1>2, <1>9 DEF nx

\* A snapshot is broadcast.
LEMMA Broadcasted ==
    ASSUME NEW R, NEW K, NEW gone, NEW X, NEW Y, NEW st, NEW p \in ControllerSnapshot,
           Good(st, R, K, gone, X, Y, {p})
    PROVE  Good(Broadcast(st, p), R, K, gone, X, Y, {})
  <1> DEFINE nx == Broadcast(st, p)
             newer == p.version >= st.announced[p.taskId].version
  <1>1. st \in TurnState /\ st.announced \in [Tasks -> ControllerSnapshot] /\ p.taskId \in Tasks
    BY TurnTyping DEF Good, ControllerSnapshot
  <1>2. /\ nx \in TurnState /\ nx.store = st.store /\ nx.pending = st.pending
        /\ nx.answers = st.answers /\ nx.todo = st.todo
        /\ \A t \in Tasks : nx.announced[t] =
              IF newer /\ t = p.taskId THEN p ELSE st.announced[t]
        /\ Asked(nx) = Asked(st) /\ Calls(nx) = Calls(st)
    BY <1>1, AnnouncedField DEF Broadcast
  <1> HIDE DEF nx
  <1>3. Known(nx, R) /\ Once(nx) /\ Leaving(nx) /\ Layered(nx.todo) /\ Asks(nx, X)
        /\ Cleans(nx, gone, Y) /\ Granted(nx, R) /\ Kept(nx, R, K) /\ Current(nx.store)
    BY <1>2 DEF Good, Known, Once, Leaving, Asks, Cleans, Granted, WasGranted, Controls, Kept
  <1>4. Truth(nx, {})
    <2> SUFFICES ASSUME NEW t \in Tasks
                 PROVE  NewestIsTrue(st.store, t, Said(nx, {}, t))
      BY <1>2 DEF Truth
    <2> DEFINE old == Said(st, {p}, t)
               new == Said(nx, {}, t)
               a == st.announced[t]
    <2>1. NewestIsTrue(st.store, t, old)
      BY DEF Good, Truth
    <2>2. /\ a \in old
          /\ \A x \in old : x.version \in Nat
      BY <1>1, TurnTyping DEF Said, ControllerSnapshot
    <2>3. CASE t # p.taskId
      <3>1. \A x : x \in new <=> x \in old
        BY <2>3, <1>2 DEF Said
      <3>2. new = old
        BY <3>1
      <3> QED
        BY <2>1, <3>2
    <2>4. CASE t = p.taskId /\ newer
      <3>1. /\ p \in old /\ p \in new
            /\ \A x : x \in new => x \in old
            /\ \A x : x \in old => x \in new \/ x = a
        BY <2>4, <1>2 DEF Said
      <3>2. a.version <= p.version
        BY <2>2, <2>4, <3>1
      <3> HIDE DEF old, new, a
      <3>3. ASSUME Held(st.store, t)
            PROVE  \E x \in new : /\ Agrees(st.store, t, x)
                                  /\ \A y \in new : /\ y.version <= x.version
                                                    /\ y.version = x.version =>
                                                           Agrees(st.store, t, y)
        <4>1. PICK x \in old : /\ Agrees(st.store, t, x)
                               /\ \A y \in old : /\ y.version <= x.version
                                                 /\ y.version = x.version =>
                                                        Agrees(st.store, t, y)
          BY <2>1, <3>3 DEF NewestIsTrue
        <4>2. CASE x \in new
          BY <3>1, <4>1, <4>2
        <4>3. CASE x = a
          <5>1. p.version = x.version
            BY <2>2, <3>1, <3>2, <4>1, <4>3
          <5> QED
            BY <3>1, <4>1, <5>1
        <4> QED
          BY <3>1, <4>1, <4>2, <4>3
      <3>4. NewestIsTrue(st.store, t, new)
        BY <2>1, <3>1, <3>3 DEF NewestIsTrue
      <3> QED
        BY <3>4 DEF new
    <2>5. CASE t = p.taskId /\ ~newer
      <3>1. /\ p \in old /\ a \in new
            /\ \A x : x \in new => x \in old
            /\ \A x : x \in old => x \in new \/ x = p
        BY <2>5, <1>2 DEF Said
      <3>2. ~(a.version <= p.version)
        BY <2>2, <2>5, <3>1
      <3> HIDE DEF old, new, a
      <3>3. ASSUME Held(st.store, t)
            PROVE  \E x \in new : /\ Agrees(st.store, t, x)
                                  /\ \A y \in new : /\ y.version <= x.version
                                                    /\ y.version = x.version =>
                                                           Agrees(st.store, t, y)
        <4>1. PICK x \in old : /\ Agrees(st.store, t, x)
                               /\ \A y \in old : /\ y.version <= x.version
                                                 /\ y.version = x.version =>
                                                        Agrees(st.store, t, y)
          BY <2>1, <3>3 DEF NewestIsTrue
        <4>2. x # p
          BY <2>2, <3>2, <4>1
        <4> QED
          BY <3>1, <4>1, <4>2
      <3>4. NewestIsTrue(st.store, t, new)
        BY <2>1, <3>1, <3>3 DEF NewestIsTrue
      <3> QED
        BY <3>4 DEF new
    <2> QED
      BY <2>3, <2>4, <2>5
  <1>5. Good(nx, R, K, gone, X, Y, {})
    BY <1>2, <1>3, <1>4 DEF Good
  <1> QED
    BY <1>5 DEF nx

-----------------------------------------------------------------------------
(* The table operations, as a turn makes them. *)

\* A read takes no lease from its holder.
LEMMA ActiveLessens ==
    ASSUME NEW s \in Store, Current(s), NEW t \in Tasks
    PROVE  /\ Lessens(s, Active(s, t))
           /\ \A u \in Tasks : Held(s, u) => Held(Active(s, t), u)
  <1>1. /\ StoreStep(s, Active(s, t))
        /\ \A u \in Tasks : Active(s, t).lease[u] =
              IF u = t /\ Expired(s, t) THEN None ELSE s.lease[u]
    BY ActiveStep
  <1>2. \A u \in Tasks : Held(s, u) => Active(s, t).lease[u] = s.lease[u]
    BY <1>1, LeaseTyping DEF Held, Expired, Lease
  <1>3. \A u \in Tasks : Held(Active(s, t), u) => Active(s, t).lease[u] = s.lease[u] /\ Held(s, u)
    BY <1>1 DEF Held
  <1>4. \A u \in Tasks : Held(s, u) => Held(Active(s, t), u)
    BY <1>2 DEF Held
  <1> QED
    BY <1>1, <1>3, <1>4 DEF Lessens

\* A walk over the table takes only the leases that it deletes.
LEMMA DeleteAllLessens ==
    ASSUME NEW s \in Store, Current(s), NEW removed \in SUBSET Tasks,
           \A t \in removed : s.lease[t] # None
    PROVE  /\ Lessens(s, DeleteAll(s, removed))
           /\ \A t \in Tasks :
                 Held(DeleteAll(s, removed), t) <=> (Held(s, t) /\ t \notin removed)
  <1>1. /\ StoreStep(s, DeleteAll(s, removed))
        /\ \A t \in Tasks : DeleteAll(s, removed).lease[t] =
              IF t \in removed THEN None ELSE s.lease[t]
    BY DeleteAllStep
  <1>2. \A t \in Tasks : Held(DeleteAll(s, removed), t) <=> (Held(s, t) /\ t \notin removed)
    BY <1>1 DEF Held
  <1>3. \A t \in Tasks : Held(DeleteAll(s, removed), t) =>
            DeleteAll(s, removed).lease[t] = s.lease[t]
    BY <1>1 DEF Held
  <1> QED
    BY <1>1, <1>2, <1>3 DEF Lessens

\* The snapshots of a walk are of tasks without a holder, and not newer than its table.
LEMMA WalkSnapshots ==
    ASSUME NEW s \in Store, Current(s), NEW order \in KeyOrders, NEW removed \in SUBSET Tasks,
           \A t \in removed : s.lease[t] # None
    PROVE  LET r == DeleteAll(s, removed)
               snapshots == ReleasedSnapshots(s, removed, order)
           IN  /\ snapshots \subseteq ControllerSnapshot
               /\ \A p \in snapshots : p.version <= r.version /\ ~Held(r, p.taskId)
  <1> DEFINE r == DeleteAll(s, removed)
             snapshots == ReleasedSnapshots(s, removed, order)
  <1>1. Fresh(s, r, snapshots)
    BY SweptSnapshots
  <1>2. \A p \in snapshots : p.taskId \in removed
    BY DEF ReleasedSnapshots, SnapshotAt
  <1>3. \A t \in removed : ~Held(r, t)
    BY DeleteAllLessens
  <1> HIDE DEF r, snapshots
  <1>4. snapshots \subseteq ControllerSnapshot /\ \A p \in snapshots : p.version <= r.version
    BY <1>1 DEF Fresh
  <1> QED
    BY <1>2, <1>3, <1>4 DEF r, snapshots

\* Renewing starts no term.
LEMMA RenewLessens ==
    ASSUME NEW s \in Store, Current(s), NEW t \in Tasks, NEW c, NEW o, NEW g
    PROVE  Lessens(s, Renew(s, t, c, o, g).store)
  <1> DEFINE q == Active(s, t)
             r == Renew(s, t, c, o, g).store
  <1>1. StoreStep(s, r)
    BY RenewStep
  <1>2. CASE Matches(q.lease[t], c, o, g)
    <2>1. q = s /\ s.lease[t] # None /\ Held(s, t)
      BY <1>2, ActiveStep DEF Matches
    <2>2. r = Extend(s, t)
      BY <1>2, <2>1 DEF Renew
    <2>3. \A u \in Tasks : r.lease[u] =
              IF u = t THEN [s.lease[t] EXCEPT !.ttl = LeaseMs] ELSE s.lease[u]
      BY <2>2 DEF Extend, Store
    <2>4. s.lease[t] \in Lease
      BY <2>1, LeaseTyping
    <2>5. r.lease[t].clientId = s.lease[t].clientId /\ r.lease[t].action = s.lease[t].action
      BY <2>3, <2>4 DEF Lease
    <2>6. \A u \in Tasks \ {t} : Held(r, u) => Held(s, u) /\ r.lease[u] = s.lease[u]
      BY <2>3 DEF Held
    <2> QED
      BY <1>1, <2>1, <2>5, <2>6 DEF Lessens
  <1>3. CASE ~Matches(q.lease[t], c, o, g)
    <2>1. r = q
      BY <1>3 DEF Renew
    <2> QED
      BY <2>1, ActiveLessens
  <1> QED
    BY <1>2, <1>3

\* Releasing starts no term either, and its snapshot is of a task without a holder.
LEMMA ReleaseLessens ==
    ASSUME NEW s \in Store, Current(s), NEW t \in Tasks, NEW c, NEW o, NEW g
    PROVE  LET result == Release(s, t, c, o, g)
           IN  /\ Lessens(s, result.store)
               /\ result.snapshot \in ControllerSnapshot
               /\ result.snapshot.version = result.store.version /\ result.snapshot.taskId = t
               /\ result.changed => ~Held(result.store, t)
  <1> DEFINE q == Active(s, t)
             result == Release(s, t, c, o, g)
  <1>1. StoreStep(s, result.store) /\ result.snapshot = Snapshot(result.store, t)
    BY ReleaseStep
  <1>2. /\ result.snapshot \in ControllerSnapshot
        /\ result.snapshot.version = result.store.version /\ result.snapshot.taskId = t
    <2>1. result.store \in Store /\ result.store.version \in Nat
      BY <1>1 DEF StoreStep, Store
    <2> HIDE DEF result
    <2> QED
      BY <1>1, <2>1, SnapshotTyping DEF Snapshot
  <1>3. Lessens(s, q) /\ q \in Store /\ Current(q)
    BY ActiveLessens DEF Lessens, StoreStep
  <1>4. result.store = IF Matches(q.lease[t], c, o, g) THEN Delete(q, t) ELSE q
    BY DEF Release
  <1>5. result.changed => result.store = Delete(q, t)
    BY DEF Release
  <1>6. \A u \in Tasks : Delete(q, t).lease[u] = IF u = t THEN None ELSE q.lease[u]
    <2>1. Delete(q, t).lease = [q.lease EXCEPT ![t] = None]
      BY <1>3, DeleteStep
    <2>2. q.lease \in [Tasks -> Lease \cup {None}]
      BY <1>3 DEF Store
    <2> HIDE DEF q
    <2> QED
      BY <2>1, <2>2
  <1>7. /\ ~Held(Delete(q, t), t)
        /\ \A u \in Tasks : Held(Delete(q, t), u) =>
              Held(q, u) /\ Delete(q, t).lease[u] = q.lease[u]
    BY <1>6 DEF Held
  <1> HIDE DEF result
  <1>8. Lessens(s, result.store)
    BY <1>1, <1>3, <1>4, <1>7 DEF Lessens
  <1> QED
    BY <1>2, <1>5, <1>7, <1>8 DEF result

\* So it is with the clearing of a task.
LEMMA ClearLessens ==
    ASSUME NEW s \in Store, Current(s), NEW t \in Tasks
    PROVE  LET result == ClearForTask(s, t)
           IN  /\ Lessens(s, result.store)
               /\ result.snapshot \in ControllerSnapshot
               /\ result.snapshot.version = result.store.version /\ result.snapshot.taskId = t
               /\ result.changed => ~Held(result.store, t)
  <1> DEFINE result == ClearForTask(s, t)
  <1>1. StoreStep(s, result.store) /\ result.snapshot = Snapshot(result.store, t)
    BY ClearStep
  <1>2. /\ result.snapshot \in ControllerSnapshot
        /\ result.snapshot.version = result.store.version /\ result.snapshot.taskId = t
    <2>1. result.store \in Store /\ result.store.version \in Nat
      BY <1>1 DEF StoreStep, Store
    <2> HIDE DEF result
    <2> QED
      BY <1>1, <2>1, SnapshotTyping DEF Snapshot
  <1>3. \A u \in Tasks : result.store.lease[u] = IF u = t THEN None ELSE s.lease[u]
    <2>1. CASE s.lease[t] = None
      BY <2>1 DEF ClearForTask
    <2>2. CASE s.lease[t] # None
      <3>1. result.store = Delete(s, t)
        BY <2>2 DEF ClearForTask
      <3>2. Delete(s, t).lease = [s.lease EXCEPT ![t] = None]
        BY DeleteStep
      <3> HIDE DEF result
      <3> QED
        BY <3>1, <3>2 DEF Store
    <2> QED
      BY <2>1, <2>2
  <1>4. /\ ~Held(result.store, t)
        /\ \A u \in Tasks : Held(result.store, u) =>
              Held(s, u) /\ result.store.lease[u] = s.lease[u]
    BY <1>3 DEF Held
  <1> HIDE DEF result
  <1>5. Lessens(s, result.store)
    BY <1>1, <1>4 DEF Lessens
  <1> QED
    BY <1>2, <1>4, <1>5 DEF result

\* Acquiring gives the task to the client under a new version, or leaves who holds what.
LEMMA AcquireOutcome ==
    ASSUME NEW s \in Store, Current(s), NEW t \in Tasks, NEW c \in Clients, NEW o \in Owners,
           NEW a \in Actions, NEW takeover
    PROVE  LET result == Acquire(s, t, c, o, a, takeover)
           IN  /\ result.snapshot = Snapshot(result.store, t)
               /\ result.changed => Gives(s, result.store, t, c, a)
               /\ ~result.changed =>
                     /\ Lessens(s, result.store)
                     /\ \A u \in Tasks : Held(s, u) => Held(result.store, u)
  <1> DEFINE q == Active(s, t)
             result == Acquire(s, t, c, o, a, takeover)
             new == [action |-> a, clientId |-> c, ttl |-> LeaseMs,
                     leaseGeneration |-> s.generation[t] + 1, ownerId |-> o]
  <1>1. StoreStep(s, result.store) /\ result.snapshot = Snapshot(result.store, t)
    BY AcquireStep
  <1>2. CASE Refused(q.lease[t], c, takeover)
    <2>1. result.store = q /\ result.changed = FALSE
      BY <1>2 DEF Acquire
    <2> QED
      BY <1>1, <2>1, ActiveLessens
  <1>3. CASE ~Refused(q.lease[t], c, takeover)
    <2>1. /\ result.store.lease = [q.lease EXCEPT ![t] = new]
          /\ result.changed = ControllerChanged(q.lease[t], c, a)
          /\ result.store.version = IF ControllerChanged(q.lease[t], c, a)
                                    THEN q.version + 1 ELSE q.version
      <3>1. q.generation = s.generation
        BY ActiveStep
      <3> QED
        BY <1>3, <3>1 DEF Acquire, NextGeneration
    <2>2. \A u \in Tasks : result.store.lease[u] = IF u = t THEN new ELSE s.lease[u]
      <3>1. q.lease \in [Tasks -> Lease \cup {None}]
        BY ActiveStep DEF StoreStep, Store
      <3>2. \A u \in Tasks \ {t} : q.lease[u] = s.lease[u]
        BY ActiveStep
      <3> HIDE DEF new, result, q
      <3> QED
        BY <2>1, <3>1, <3>2
    <2>3. new # None /\ new.ttl > 0 /\ new.clientId = c /\ new.action = a
      <3>1. s.generation[t] + 1 \in Nat /\ LeaseMs \in 0..LeaseMs /\ LeaseMs > 0
        BY LeaseAssumption, LeaseTyping
      <3>2. new \in Lease
        BY <3>1 DEF Lease
      <3>3. new # None
        BY <3>2, LeaseTyping
      <3>4. new.ttl = LeaseMs /\ new.clientId = c /\ new.action = a
        OBVIOUS
      <3> HIDE DEF new
      <3> QED
        BY <3>1, <3>3, <3>4
    <2> HIDE DEF new, result, q
    <2>4. \A u \in Tasks : Held(result.store, u) <=> (u = t \/ Held(s, u))
      BY <2>2, <2>3 DEF Held
    <2>5. CASE result.changed
      <3>1. s.version < result.store.version
        <4>1. StoreStep(s, q)
          BY ActiveStep DEF q
        <4>2. s.version \in Nat /\ q.version \in Nat /\ s.version <= q.version
          BY <4>1 DEF StoreStep, Store
        <4> QED
          BY <4>2, <2>1, <2>5
      <3>2. Gives(s, result.store, t, c, a)
        BY <1>1, <2>2, <2>3, <2>4, <3>1 DEF Gives
      <3> QED
        BY <1>1, <2>5, <3>2 DEF result
    <2>6. CASE ~result.changed
      <3>1. q.lease[t] # None /\ q.lease[t].clientId = c /\ q.lease[t].action = a
        BY <2>1, <2>6 DEF ControllerChanged
      <3>2. Held(s, t) /\ s.lease[t].clientId = c /\ s.lease[t].action = a
        BY <3>1, ActiveStep DEF q
      <3>3. Lessens(s, result.store)
        BY <1>1, <2>2, <2>3, <2>4, <3>2 DEF Lessens
      <3> QED
        BY <1>1, <2>4, <2>6, <3>3 DEF result
    <2> QED
      BY <2>5, <2>6 DEF result
  <1> QED
    BY <1>2, <1>3

-----------------------------------------------------------------------------
(* What the calls do: announcing, acquiring, resolving. *)

\* The reconciliation of a task goes through all pending requests.
LEMMA ReconcilesAll ==
    ASSUME NEW st \in TurnState, NEW t \in Tasks
    PROVE  /\ ReconcileTask(st, t) \in Seq(Call)
           /\ Elements(ReconcileTask(st, t)) = {Reconcile(q, t) : q \in Asked(st)}
  <1> DEFINE p == st.pending
             f == ReconcileTask(st, t)
  <1>1. p \in Seq(Request) /\ DOMAIN p = 1..Len(p) /\ Len(p) \in Nat
        /\ \A i \in DOMAIN p : p[i] \in Request
    BY TurnTyping, SequenceIs
  <1>2. \A i \in DOMAIN p : Reconcile(p[i], t) \in Call
    BY <1>1, RequestCalls
  <1>3. f = [i \in 1..Len(p) |-> Reconcile(p[i], t)]
    BY <1>1 DEF ReconcileTask
  <1> HIDE DEF p, f
  <1>4. f \in Seq(Call)
    BY <1>1, <1>2, <1>3
  <1>5. DOMAIN f = DOMAIN p /\ \A i \in DOMAIN p : f[i] = Reconcile(p[i], t)
    BY <1>1, <1>3
  <1>6. Elements(f) = {Reconcile(q, t) : q \in Elements(p)}
    BY <1>5 DEF Elements
  <1> QED
    BY <1>4, <1>6 DEF f, p, Asked

\* A client's requests are cleaned up by going through all pending ones.
LEMMA CleansAll ==
    ASSUME NEW st \in TurnState, NEW c \in Clients
    PROVE  LET calls == [i \in DOMAIN st.pending |-> CleanUp(st.pending[i], c)] IN
           /\ calls \in Seq(Call)
           /\ Elements(calls) = {CleanUp(q, c) : q \in Asked(st)}
  <1> DEFINE p == st.pending
             f == [i \in DOMAIN p |-> CleanUp(p[i], c)]
  <1>1. p \in Seq(Request) /\ DOMAIN p = 1..Len(p) /\ Len(p) \in Nat
        /\ \A i \in DOMAIN p : p[i] \in Request
    BY TurnTyping, SequenceIs
  <1>2. \A i \in DOMAIN p : CleanUp(p[i], c) \in Call
    BY <1>1, RequestCalls
  <1>3. f = [i \in 1..Len(p) |-> CleanUp(p[i], c)]
    BY <1>1
  <1>4. f \in Seq(Call)
    <2> HIDE DEF p, f
    <2> QED
      BY <1>1, <1>2, <1>3
  <1>5. DOMAIN f = DOMAIN p /\ \A i \in DOMAIN p : f[i] = CleanUp(p[i], c)
    OBVIOUS
  <1>6. Elements(f) = {CleanUp(q, c) : q \in Elements(p)}
    <2> HIDE DEF p, f
    <2> QED
      BY <1>5 DEF Elements
  <1> QED
    BY <1>4, <1>6 DEF Asked

\* Calls of none of the outer kinds are layered.
LEMMA InnerLayered ==
    ASSUME NEW calls \in Seq(Call), \A call \in Elements(calls) : call.name \notin Outer
    PROVE  Layered(calls)
  BY SequenceIs DEF Layered

\* So are calls that reconcile nothing.
LEMMA OuterLayered ==
    ASSUME NEW calls \in Seq(Call), \A call \in Elements(calls) : call.name # "reconcile"
    PROVE  Layered(calls)
  BY SequenceIs DEF Layered

\* Emitting a controller change reconciles the requests for its task.
LEMMA Emitted ==
    ASSUME NEW R, NEW K, NEW gone, NEW X, NEW Y, NEW st, NEW p \in ControllerSnapshot,
           Good(st, R, K, gone, X, Y, {p}), WellAsked(R),
           \A q \in X : q \in R => q.taskId = p.taskId
    PROVE  Good(Emit(st, p), R, K, gone, {}, Y, {})
  <1> DEFINE t == p.taskId
             calls == ReconcileTask(st, t) \o <<BroadcastIt(p)>>
  <1>1. st \in TurnState /\ t \in Tasks /\ Asked(st) \subseteq R /\ R \subseteq Request
    BY DEF Good, ControllerSnapshot, Known, WellAsked
  <1>2. BroadcastIt(p) \in Call /\ BroadcastIt(p).name = "broadcast" /\ BroadcastIt(p).snapshot = p
    BY DEF BroadcastIt, Call
  <1>3. calls \in Seq(Call)
        /\ Elements(calls) = {Reconcile(q, t) : q \in Asked(st)} \cup {BroadcastIt(p)}
    <2>1. /\ ReconcileTask(st, t) \in Seq(Call)
          /\ Elements(ReconcileTask(st, t)) = {Reconcile(q, t) : q \in Asked(st)}
      BY <1>1, ReconcilesAll
    <2> DEFINE one == <<BroadcastIt(p)>>
    <2>2. one \in Seq(Call) /\ Elements(one) = {BroadcastIt(p)}
      BY <1>2, OnlyOne
    <2> HIDE DEF one
    <2>3. /\ ReconcileTask(st, t) \o one \in Seq(Call)
          /\ Elements(ReconcileTask(st, t) \o one) =
                Elements(ReconcileTask(st, t)) \cup Elements(one)
      BY <2>1, <2>2, Joined
    <2> QED
      BY <2>1, <2>2, <2>3 DEF one
  <1>4. \A call \in Elements(calls) :
            \/ call = BroadcastIt(p)
            \/ \E q \in Asked(st) : call = Reconcile(q, t)
    BY <1>3
  <1>5. \A q \in Asked(st) : Reconcile(q, t) \in Elements(calls)
    BY <1>3
  <1>6. BroadcastIt(p) \in Elements(calls)
    BY <1>3
  <1>7. Emit(st, p) = ToDo(st, calls)
    BY DEF Emit
  <1> HIDE DEF calls
  <1>8. \A call \in Elements(calls) :
            /\ call.name \in {"reconcile", "broadcast"}
            /\ call.name = "reconcile" => call.request \in Asked(st)
            /\ call.name = "broadcast" => call = BroadcastIt(p)
    <2>1. \A q \in Asked(st) : Reconcile(q, t).name = "reconcile" /\ Reconcile(q, t).request = q
      BY DEF Reconcile
    <2> QED
      BY <2>1, <1>2, <1>4
  <1>9. Pushable(st, R, calls)
    <2>1. \A call \in Elements(calls) :
              /\ call.name # "answer" /\ call.name \notin Outer
              /\ call.name \in AboutRequest => call.request \in R
              /\ call.name = "release" => call.client \in Leavers
              /\ call.name = "release each" => call.clients \subseteq Leavers
      BY <1>1, <1>8 DEF AboutRequest, Outer
    <2>2. Layered(calls)
      BY <1>3, <2>1, InnerLayered
    <2> QED
      BY <1>3, <2>1, <2>2 DEF Pushable
  <1>10. Relieves(st, calls, gone, X, {}, Y, Y, {p}, {})
    <2>1. Says(BroadcastIt(p), p)
      BY <1>2 DEF Says
    <2>2. ASSUME NEW call \in Elements(calls), NEW s, Says(call, s) PROVE s = p
      BY <2>2, <1>2, <1>8 DEF Says
    <2>3. \A s \in ControllerSnapshot :
              s \in {p} <=> (s \in {} \/ \E call \in Elements(calls) : Says(call, s))
      BY <2>1, <2>2, <1>6
    <2>4. \A q \in (Asked(st) \cap X) \ {} : Reconcile(q, q.taskId) \in Elements(calls)
      BY <1>1, <1>5
    <2> QED
      BY <2>3, <2>4 DEF Relieves
  <1>11. Good(ToDo(st, calls), R, K, gone, {}, Y, {})
    BY <1>9, <1>10, Pushed
  <1> QED
    BY <1>7, <1>11

\* A read between two changes.
LEMMA Looked ==
    ASSUME NEW R, NEW K, Premises(R, K), NEW gone, NEW X, NEW Y, NEW E, NEW st,
           Good(st, R, K, gone, X, Y, E), NEW t \in Tasks
    PROVE  /\ Good(Look(st, t), R, K, gone, X, Y, E)
           /\ Look(st, t).store = Active(st.store, t) /\ Look(st, t).answers = st.answers
           /\ Look(st, t).todo = st.todo
           /\ Asked(Look(st, t)) = Asked(st) /\ Calls(Look(st, t)) = Calls(st)
  <1> DEFINE r == Active(st.store, t)
  <1>1. st \in TurnState /\ st.store \in Store /\ Current(st.store)
    BY TurnTyping DEF Good
  <1>2. Lessens(st.store, r) /\ \A u \in Tasks : Held(st.store, u) => Held(r, u)
    BY <1>1, ActiveLessens
  <1>3. r \in Store
    BY <1>2 DEF Lessens, StoreStep
  <1>4. Look(st, t) = WithStore(st, r)
    BY DEF Look
  <1> HIDE DEF r
  <1>5. Good(WithStore(st, r), R, K, gone, X, Y, E \cup {})
    BY <1>2, StoreLessened
  <1>6. E \cup {} = E
    OBVIOUS
  <1> QED
    BY <1>1, <1>3, <1>4, <1>5, <1>6, StoreField DEF r

\* Acquiring, in a turn that leaves nothing excused but requests for the task.
LEMMA Acquired ==
    ASSUME NEW R, NEW K, Premises(R, K), NEW gone, NEW Y, NEW st,
           Good(st, R, K, gone, {}, Y, {}),
           NEW t \in Tasks, NEW c \in Clients, NEW o \in Owners, NEW a \in Actions, NEW takeover,
           \A q \in R : (WasGranted(st, q) /\ q.taskId = t) => q.requesterClientId = c,
           \A k \in K : k[1] = t => c \in May(R, t, k[2])
    PROVE  Good(EmitIfChanged(st, Acquire(st.store, t, c, o, a, takeover)), R, K, gone, {}, Y, {})
  <1> DEFINE result == Acquire(st.store, t, c, o, a, takeover)
             r == result.store
  <1>1. st \in TurnState /\ st.store \in Store /\ Current(st.store) /\ WellAsked(R)
    BY TurnTyping DEF Good, Premises, Rightful
  <1>2. /\ result.snapshot = Snapshot(r, t)
        /\ result.changed => Gives(st.store, r, t, c, a)
        /\ ~result.changed =>
              Lessens(st.store, r) /\ \A u \in Tasks : Held(st.store, u) => Held(r, u)
    BY <1>1, AcquireOutcome
  <1> HIDE DEF result
  <1>3. CASE result.changed
    <2>1. Gives(st.store, r, t, c, a)
      BY <1>2, <1>3
    <2>2. Snapshot(r, t) \in ControllerSnapshot /\ Snapshot(r, t).taskId = t
      <3>1. r \in Store /\ r.version \in Nat
        BY <2>1 DEF Gives, StoreStep, Store
      <3> HIDE DEF r
      <3> QED
        BY <3>1, SnapshotTyping DEF Snapshot
    <2> HIDE DEF r
    <2>3. Good(WithStore(st, r), R, K, gone, {} \cup {q \in R : q.taskId = t}, Y,
               {} \cup {Snapshot(r, t)})
      BY <2>1, StoreGiven
    <2>4. Good(WithStore(st, r), R, K, gone, {q \in R : q.taskId = t}, Y, {Snapshot(r, t)})
      BY <2>3
    <2>5. Good(Emit(WithStore(st, r), Snapshot(r, t)), R, K, gone, {}, Y, {})
      BY <2>2, <2>4, <1>1, Emitted
    <2> QED
      BY <2>5, <1>2, <1>3 DEF EmitIfChanged, r, result
  <1>4. CASE ~result.changed
    <2>1. Lessens(st.store, r) /\ \A u \in Tasks : Held(st.store, u) => Held(r, u)
      BY <1>2, <1>4
    <2> HIDE DEF r
    <2>2. Good(WithStore(st, r), R, K, gone, {}, Y, {} \cup {})
      BY <2>1, StoreLessened
    <2>3. {} \cup {} = {}
      OBVIOUS
    <2> QED
      BY <2>2, <2>3, <1>4 DEF EmitIfChanged, r, result
  <1> QED
    BY <1>3, <1>4


-----------------------------------------------------------------------------
(* Resolving a request. *)

\* A request of the turn is pending under its own name only.
LEMMA PendingIs ==
    ASSUME NEW st \in TurnState, NEW R, WellAsked(R), Asked(st) \subseteq R, NEW q \in R
    PROVE  IsPending(st, q.requestId) <=> q \in Asked(st)
  <1>1. \A i \in DOMAIN st.pending : st.pending[i] \in R
    BY DEF Asked, Elements
  <1> QED
    BY <1>1 DEF IsPending, Asked, Elements, WellAsked

\* The controller that a read finds.
LEMMA ControllerIs ==
    ASSUME NEW st \in TurnState, Current(st.store), NEW t \in Tasks
    PROVE  LET c == CurrentControllerId(st, t) IN
           /\ c # None <=> Held(st.store, t)
           /\ c # None <=> Held(Active(st.store, t), t)
           /\ c # None => /\ c = st.store.lease[t].clientId
                          /\ c = Active(st.store, t).lease[t].clientId
  <1> DEFINE s == st.store
             q == Active(s, t)
  <1>1. s \in Store /\ Current(s)
    BY TurnTyping
  <1>2. /\ q \in Store
        /\ ~Expired(q, t)
        /\ q.lease[t] = IF Expired(s, t) THEN None ELSE s.lease[t]
    BY <1>1, ActiveStep DEF StoreStep
  <1>3. CurrentControllerId(st, t) = IF q.lease[t] = None THEN None ELSE q.lease[t].clientId
    BY DEF CurrentControllerId, Snapshot, SnapshotAt
  <1> HIDE DEF s, q
  <1>4. q.lease[t] # None => q.lease[t].clientId # None /\ q.lease[t].ttl \in 0..LeaseMs
    BY <1>2, LeaseTyping, LeaseAssumption DEF Lease
  <1>5. s.lease[t] # None => s.lease[t].ttl \in 0..LeaseMs
    BY <1>1, LeaseTyping DEF Lease
  <1>6. q.lease[t] # None <=> Held(q, t)
    BY <1>2, <1>4, LeaseAssumption DEF Held, Expired
  <1>7. q.lease[t] # None <=> Held(s, t)
    BY <1>2, <1>5, LeaseAssumption DEF Held, Expired
  <1>8. q.lease[t] # None => q.lease[t] = s.lease[t]
    BY <1>2
  <1> QED
    BY <1>3, <1>4, <1>6, <1>7, <1>8 DEF s, q

\* What the change of a controller decides.
LEMMA ChangeDecides ==
    ASSUME NEW st \in TurnState, Current(st.store), NEW q \in Request
    PROVE  LET d == ChangeDecision(st, q) IN
           /\ d \in Decision \cup {None}
           /\ d = "owner-missing" => ~Held(st.store, q.taskId)
           /\ d = "approved" => Controls(st, q.taskId, q.requesterClientId)
           /\ d = None => Controls(st, q.taskId, q.targetControllerId)
           /\ d # "force-required"
  <1>1. q.taskId \in Tasks
    BY RequestTyping
  <1> DEFINE c == CurrentControllerId(st, q.taskId)
  <1>2. /\ c # None <=> Held(st.store, q.taskId)
        /\ c # None => c = st.store.lease[q.taskId].clientId
    BY <1>1, ControllerIs
  <1>3. ChangeDecision(st, q) = IF c = None THEN "owner-missing"
                                ELSE IF c = q.requesterClientId THEN "approved"
                                ELSE IF c # q.targetControllerId THEN "denied"
                                ELSE None
    BY DEF ChangeDecision
  <1> HIDE DEF c
  <1>4. None \notin {"approved", "denied", "owner-missing", "force-required"}
    BY ControlAssumption DEF Decision
  <1> QED
    BY <1>2, <1>3, <1>4 DEF Controls, Decision

\* Resolving a request takes it out and answers it or puts its answer off until the
\* takeover has been applied.  It may hand the lease over if no other client has got
\* the task in this turn.
LEMMA Resolved ==
    ASSUME NEW R, NEW K, Premises(R, K), NEW gone, NEW X, NEW Y, NEW st,
           Good(st, R, K, gone, X, Y, {}), NEW q \in R, X \subseteq {q}, Y \subseteq {q},
           NEW d \in Decision,
           (Grants(d) /\ q \in Asked(st)) =>
               \A p \in R : (WasGranted(st, p) /\ p.taskId = q.taskId) =>
                   p.requesterClientId = q.requesterClientId
    PROVE  Good(Resolve(st, q, d), R, K, gone, {}, {}, {})
  <1> DEFINE cleared == Clear(st, q.requestId)
  <1>1. st \in TurnState /\ WellAsked(R) /\ R \subseteq Request /\ Asked(st) \subseteq R
    BY DEF Good, Premises, Rightful, WellAsked, Known
  <1>2. q \in Request /\ q.requestId \in RequestIds
    BY <1>1, RequestTyping
  <1>3. IsPending(st, q.requestId) <=> q \in Asked(st)
    BY <1>1, PendingIs
  <1>4. CASE q \notin Asked(st)
    <2>1. Good(st, R, K, gone, {}, {}, {})
      BY <1>4 DEF Good, Asks, Cleans
    <2> QED
      BY <2>1, <1>3, <1>4 DEF Resolve
  <1>5. CASE q \in Asked(st)
    <2>1. /\ Good(cleared, R, K, gone, X \ {q}, Y \ {q}, {})
          /\ Open(cleared, q.requestId)
          /\ cleared.store = st.store /\ cleared.answers = st.answers
      BY <1>1, <1>5, Cleared
    <2>2. X \ {q} = {} /\ Y \ {q} = {}
      OBVIOUS
    <2>3. Good(cleared, R, K, gone, {}, {}, {})
      BY <2>1, <2>2
    <2> HIDE DEF cleared
    <2>4. CASE ~Grants(d)
      <3>1. Good(Answer(cleared, q.requestId, d), R, K, gone, {}, {}, {})
        BY <2>1, <2>3, <2>4, <1>1, <1>2, Answered
      <3> QED
        BY <3>1, <2>4, <1>3, <1>5 DEF Resolve, cleared
    <2>5. CASE Grants(d)
      <3> DEFINE nx == ToDo(cleared, <<AnswerIt(q, d)>>)
      <3>1. Good(nx, R, K, gone, {}, {}, {}) /\ nx.store = st.store /\ nx.answers = st.answers
        BY <2>1, <2>3, <1>2, AnswerPushed
      <3>2. Resolve(st, q, d) = ApplyApprovedTakeover(nx, q)
        BY <2>5, <1>3, <1>5 DEF Resolve, cleared
      <3> HIDE DEF nx
      <3>3. \A p \in R : (WasGranted(nx, p) /\ p.taskId = q.taskId) =>
                p.requesterClientId = q.requesterClientId
        BY <2>5, <1>5, <3>1 DEF WasGranted
      <3>4. \A k \in K : k[1] = q.taskId => q.requesterClientId \in May(R, q.taskId, k[2])
        BY DEF May
      <3>5. /\ q.taskId \in Tasks /\ q.requesterClientId \in Clients
            /\ q.requesterOwnerId \in Owners /\ q.action \in Actions
        BY <1>2, RequestTyping
      <3>6. Good(EmitIfChanged(nx, Acquire(nx.store, q.taskId, q.requesterClientId,
                                           q.requesterOwnerId, q.action, TRUE)),
                 R, K, gone, {}, {}, {})
        BY <3>1, <3>3, <3>4, <3>5, Acquired
      <3> QED
        BY <3>2, <3>6 DEF ApplyApprovedTakeover
    <2> QED
      BY <2>4, <2>5
  <1> QED
    BY <1>4, <1>5

-----------------------------------------------------------------------------
(* The calls that a turn makes, one by one. *)

\* The answer to an applied takeover.
LEMMA AppliedAnswered ==
    ASSUME NEW R, NEW K, Premises(R, K), NEW gone, NEW st, Good(st, R, K, gone, {}, {}, {}),
           NEW q \in R, NEW d \in Decision, Open(st, q.requestId)
    PROVE  Good(AnswerApplied(st, q, d), R, K, gone, {}, {}, {})
  <1>1. /\ st \in TurnState /\ Current(st.store) /\ WellAsked(R)
        /\ q \in Request /\ q.taskId \in Tasks /\ q.requestId \in RequestIds
        /\ q.requesterClientId # None
    BY RequestTyping DEF Good, Premises, Rightful, WellAsked
  <1> DEFINE t == q.taskId
             c == CurrentControllerId(st, t)
             look == Look(st, t)
             decision == IF c = q.requesterClientId THEN d ELSE "denied"
  <1>2. /\ Good(look, R, K, gone, {}, {}, {})
        /\ look.store = Active(st.store, t) /\ look.answers = st.answers
        /\ Asked(look) = Asked(st) /\ Calls(look) = Calls(st)
    BY <1>1, Looked
  <1>3. /\ c # None <=> Held(Active(st.store, t), t)
        /\ c # None => c = Active(st.store, t).lease[t].clientId
    BY <1>1, ControllerIs
  <1>4. AnswerApplied(st, q, d) = Answer(look, q.requestId, decision)
    BY DEF AnswerApplied
  <1>5. decision \in Decision /\ (Grants(decision) => c = q.requesterClientId)
    BY DEF Decision, Grants
  <1> HIDE DEF look, c, decision
  <1>6. Open(look, q.requestId)
    BY <1>2 DEF Open
  <1>7. ASSUME NEW p \in R, p.requestId = q.requestId, Grants(decision)
        PROVE  Controls(look, p.taskId, p.requesterClientId)
    <2>1. p = q
      BY <1>1, <1>7 DEF WellAsked
    <2> QED
      BY <2>1, <1>1, <1>2, <1>3, <1>5, <1>7 DEF Controls
  <1> QED
    BY <1>1, <1>2, <1>4, <1>5, <1>6, <1>7, Answered

\* The reconciliation of a request with the controller of a task.
LEMMA RequestReconciled ==
    ASSUME NEW R, NEW K, Premises(R, K), NEW gone, NEW X, NEW st,
           Good(st, R, K, gone, X, {}, {}),
           NEW q \in R, NEW t \in Tasks, X \subseteq {q}, q.taskId # t => X = {}
    PROVE  Good(ReconcileRequest(st, q, t), R, K, gone, {}, {}, {})
  <1> DEFINE d == ChangeDecision(st, q)
             look == Look(st, t)
  <1>1. /\ st \in TurnState /\ Current(st.store) /\ q \in Request
    BY DEF Good, Premises, Rightful, WellAsked
  <1>2. CASE q.taskId # t
    <2>1. Good(st, R, K, gone, {}, {}, {})
      BY <1>2
    <2> QED
      BY <2>1, <1>2 DEF ReconcileRequest
  <1>3. CASE q.taskId = t
    <2>1. /\ Good(look, R, K, gone, X, {}, {})
          /\ look.store = Active(st.store, t) /\ look.answers = st.answers
          /\ Asked(look) = Asked(st)
      BY Looked
    <2>2. /\ d \in Decision \cup {None}
          /\ d = "owner-missing" => ~Held(st.store, t)
          /\ d = "approved" => Controls(st, t, q.requesterClientId)
          /\ d = None => Controls(st, t, q.targetControllerId)
      BY <1>1, <1>3, ChangeDecides
    <2>3. \A c : Controls(st, t, c) => Controls(look, t, c)
      <3>1. /\ Held(st.store, t) => Held(Active(st.store, t), t)
            /\ Held(st.store, t) =>
                  Active(st.store, t).lease[t].clientId = st.store.lease[t].clientId
        BY <1>1, ControllerIs
      <3> QED
        BY <3>1, <2>1 DEF Controls
    <2>4. ~Held(st.store, t) => ~Held(look.store, t)
      BY <1>1, <2>1, ControllerIs
    <2>5. ReconcileRequest(st, q, t) = IF d = None THEN look ELSE Resolve(look, q, d)
      BY <1>3 DEF ReconcileRequest
    <2> HIDE DEF look, d
    <2>6. CASE d = None
      <3>1. Controls(look, q.taskId, q.targetControllerId)
        BY <2>2, <2>3, <2>6, <1>3
      <3>2. Asks(look, {})
        BY <2>1, <3>1 DEF Good, Asks, Controls
      <3>3. Good(look, R, K, gone, {}, {}, {})
        BY <2>1, <3>2 DEF Good
      <3> QED
        BY <3>3, <2>5, <2>6
    <2>7. CASE d # None
      <3>1. ASSUME Grants(d), NEW p \in R, WasGranted(look, p), p.taskId = q.taskId
            PROVE  p.requesterClientId = q.requesterClientId
        <4>1. Controls(look, t, p.requesterClientId)
          BY <2>1, <3>1, <1>3 DEF Good, Granted
        <4>2. CASE d = "owner-missing"
          BY <4>1, <4>2, <2>2, <2>4 DEF Controls
        <4>3. CASE d = "approved"
          BY <4>1, <4>3, <2>2, <2>3 DEF Controls
        <4> QED
          BY <4>2, <4>3, <3>1 DEF Grants
      <3>2. d \in Decision
        BY <2>2, <2>7
      <3>3. Good(Resolve(look, q, d), R, K, gone, {}, {}, {})
        BY <2>1, <3>1, <3>2, Resolved
      <3> QED
        BY <3>3, <2>5, <2>7
    <2> QED
      BY <2>6, <2>7
  <1> QED
    BY <1>2, <1>3

\* The clean-up of a request after a client has gone.
LEMMA RequestCleanedUp ==
    ASSUME NEW R, NEW K, Premises(R, K), NEW gone, NEW Y, NEW st,
           Good(st, R, K, gone, {}, Y, {}), NoReconcile(st),
           NEW q \in R, NEW c \in Clients, Y \subseteq {q}, c # gone => Y = {}
    PROVE  Good(CleanUpRequest(st, q, c), R, K, gone, {}, {}, {})
  <1>1. CASE q.requesterClientId = c
    <2>1. "denied" \in Decision /\ ~Grants("denied")
      BY DEF Decision, Grants
    <2>2. Good(Resolve(st, q, "denied"), R, K, gone, {}, {}, {})
      BY <2>1, Resolved
    <2> QED
      BY <2>2, <1>1 DEF CleanUpRequest
  <1>2. CASE q.requesterClientId # c /\ q.targetControllerId = c
    <2>1. ASSUME q \in Asked(st), NEW p \in R, WasGranted(st, p), p.taskId = q.taskId
          PROVE  FALSE
      <3>1. Controls(st, q.taskId, p.requesterClientId)
        BY <2>1 DEF Good, Granted
      <3>2. Reconcile(q, q.taskId) \notin Calls(st)
        BY DEF NoReconcile, Reconcile
      <3>3. st.store.lease[q.taskId].clientId = q.targetControllerId
        BY <2>1, <3>1, <3>2 DEF Good, Asks, Controls
      <3> QED
        BY <2>1, <3>1, <3>3 DEF Premises, Rightful, WellAsked, Controls
    <2>2. "owner-missing" \in Decision
      BY DEF Decision
    <2>3. Good(Resolve(st, q, "owner-missing"), R, K, gone, {}, {}, {})
      BY <2>1, <2>2, Resolved
    <2> QED
      BY <2>3, <1>2 DEF CleanUpRequest
  <1>3. CASE q.requesterClientId # c /\ q.targetControllerId # c
    <2>1. Cleans(st, gone, {})
      BY <1>3 DEF Good, Cleans
    <2>2. Good(st, R, K, gone, {}, {}, {})
      BY <2>1 DEF Good
    <2> QED
      BY <2>2, <1>3 DEF CleanUpRequest
  <1> QED
    BY <1>1, <1>2, <1>3

\* A snapshot for which the time has come is the least of those left.
LEMMA AllEmitted ==
    ASSUME NEW R, NEW K, Premises(R, K), NEW gone, NEW snapshots, NEW st,
           Good(st, R, K, gone, {}, {}, snapshots), NoReconcile(st)
    PROVE  Good(EmitAll(st, snapshots), R, K, gone, {}, {}, {})
  <1> DEFINE first == CHOOSE s \in snapshots : \A u \in snapshots : s.version <= u.version
             rest == snapshots \ {first}
  <1>1. snapshots \subseteq ControllerSnapshot /\ WellAsked(R)
    BY DEF Good, Premises, Rightful
  <1>2. CASE snapshots = {}
    BY <1>2 DEF EmitAll
  <1>3. CASE snapshots # {}
    <2>1. first \in snapshots
      <3>1. \A s \in snapshots : s.version \in Nat
        BY <1>1 DEF ControllerSnapshot
      <3>2. PICK m \in {s.version : s \in snapshots} :
                \A n \in {s.version : s \in snapshots} : m <= n
        BY <1>3, <3>1, LeastNatural
      <3>3. \E s \in snapshots : \A u \in snapshots : s.version <= u.version
        BY <3>2
      <3> QED
        BY <3>3
    <2>2. EmitAll(st, snapshots) = Emit(ToDo(st, <<Announce(rest)>>), first)
      BY <1>3 DEF EmitAll
    <2> HIDE DEF first
    <2> DEFINE call == Announce(rest)
    <2>3. call \in Call /\ call.name = "announce" /\ call.snapshots = rest
      <3>1. rest \in SUBSET ControllerSnapshot
        BY <1>1
      <3> HIDE DEF rest
      <3> QED
        BY <3>1 DEF Announce, Call
    <2> HIDE DEF call
    <2>4. <<call>> \in Seq(Call) /\ Elements(<<call>>) = {call}
      BY <2>3, OnlyOne
    <2>5. Pushable(st, R, <<call>>)
      <3>1. Layered(<<call>>)
        BY <2>3, <2>4, OuterLayered
      <3> QED
        BY <3>1, <2>3, <2>4 DEF Pushable, AboutRequest
    <2>6. Relieves(st, <<call>>, gone, {}, {}, {}, {}, snapshots, {first})
      BY <2>1, <2>3, <2>4 DEF Relieves, Says
    <2>7. Good(ToDo(st, <<call>>), R, K, gone, {}, {}, {first})
      BY <2>5, <2>6, Pushed
    <2>8. Good(Emit(ToDo(st, <<call>>), first), R, K, gone, {}, {}, {})
      BY <2>1, <2>7, <1>1, Emitted
    <2> QED
      BY <2>2, <2>8 DEF call
  <1> QED
    BY <1>2, <1>3

\* The leases of a client that has left are released.
LEMMA ReleasedEmitted ==
    ASSUME NEW R, NEW K, Premises(R, K), NEW gone, NEW st, Good(st, R, K, gone, {}, {}, {}),
           NoReconcile(st), NEW c \in Leavers, NEW order \in KeyOrders
    PROVE  Good(EmitReleased(st, c, order), R, K, gone, {}, {}, {})
  <1> DEFINE s == st.store
             removed == ExpiredTasks(s) \cup
                        {t \in Tasks : s.lease[t] # None /\ s.lease[t].clientId = c}
             r == DeleteAll(s, removed)
             snapshots == ReleasedSnapshots(s, removed, order)
             nx == WithStore(st, r)
  <1>1. st \in TurnState /\ s \in Store /\ Current(s)
    BY TurnTyping DEF Good
  <1>2. removed \in SUBSET Tasks /\ \A t \in removed : s.lease[t] # None
    BY DEF ExpiredTasks, Expired
  <1>3. \A t \in removed : Held(s, t) => s.lease[t].clientId \in Leavers
    <2>1. \A t \in Tasks : Held(s, t) => ~Expired(s, t)
      BY <1>1, LeaseTyping DEF Held, Expired, Lease
    <2> QED
      BY <2>1 DEF ExpiredTasks
  <1>4. EmitReleased(st, c, order) = EmitAll(nx, snapshots)
    BY DEF EmitReleased, ReleaseForClient
  <1> HIDE DEF removed
  <1>5. /\ Lessens(s, r)
        /\ \A t \in Tasks : Held(r, t) <=> (Held(s, t) /\ t \notin removed)
    BY <1>1, <1>2, DeleteAllLessens
  <1>6. /\ snapshots \subseteq ControllerSnapshot
        /\ \A p \in snapshots : p.version <= r.version /\ ~Held(r, p.taskId)
    BY <1>1, <1>2, WalkSnapshots
  <1>7. r \in Store
    BY <1>5 DEF Lessens, StoreStep
  <1> HIDE DEF r, snapshots
  <1>8. Good(nx, R, K, gone, {}, {}, {} \cup snapshots)
    BY <1>3, <1>5, <1>6, StoreLessened DEF s
  <1>9. NoReconcile(nx)
    <2>1. Calls(nx) = Calls(st)
      BY <1>1, <1>7, StoreField
    <2> QED
      BY <2>1 DEF NoReconcile
  <1> HIDE DEF nx
  <1>10. {} \cup snapshots = snapshots
    OBVIOUS
  <1>11. Good(nx, R, K, gone, {}, {}, snapshots)
    BY <1>8, <1>10
  <1> QED
    BY <1>4, <1>9, <1>11, AllEmitted

\* Calls of the prune timer and of a disconnect.
Departures(R, calls) ==
    /\ calls \in Seq(Call)
    /\ \A call \in Elements(calls) :
          /\ call.name \in {"clean up", "release", "release each", "sweep"}
          /\ call.name = "clean up" => call.request \in R
          /\ call.name = "release" => call.client \in Leavers
          /\ call.name = "release each" => call.clients \subseteq Leavers

\* They may be put before the others.
LEMMA OuterPushed ==
    ASSUME NEW R, NEW K, NEW gone, NEW Y, NEW st, Good(st, R, K, gone, {}, Y, {}),
           NoReconcile(st), NEW calls, Departures(R, calls),
           \/ Y = {}
           \/ \A q \in Asked(st) : CleanUp(q, gone) \in Elements(calls)
    PROVE  /\ Good(ToDo(st, calls), R, K, gone, {}, {}, {})
           /\ NoReconcile(ToDo(st, calls))
           /\ Asked(ToDo(st, calls)) = Asked(st)
  <1>1. calls \in Seq(Call) /\ \A call \in Elements(calls) : call.name # "reconcile"
    BY DEF Departures
  <1>2. Pushable(st, R, calls)
    BY <1>1, OuterLayered DEF Pushable, AboutRequest, Departures
  <1>3. \A call \in Elements(calls) : \A s : ~Says(call, s)
    BY DEF Says, Departures
  <1>4. Relieves(st, calls, gone, {}, {}, Y, {}, {}, {})
    BY <1>3 DEF Relieves
  <1>5. /\ Good(ToDo(st, calls), R, K, gone, {}, {}, {})
        /\ Calls(ToDo(st, calls)) = Elements(calls) \cup Calls(st)
        /\ Asked(ToDo(st, calls)) = Asked(st)
    BY <1>2, <1>4, Pushed
  <1>6. NoReconcile(ToDo(st, calls))
    BY <1>1, <1>5 DEF NoReconcile
  <1> QED
    BY <1>5, <1>6

\* All pending requests are looked at when a client has gone.
LEMMA AllCleanedUp ==
    ASSUME NEW R, NEW K, NEW gone, NEW Y, NEW st, Good(st, R, K, gone, {}, Y, {}),
           NoReconcile(st), NEW c \in Clients, Y = {} \/ c = gone
    PROVE  /\ Good(CleanupRequestsForClient(st, c), R, K, gone, {}, {}, {})
           /\ NoReconcile(CleanupRequestsForClient(st, c))
  <1> DEFINE calls == [i \in DOMAIN st.pending |-> CleanUp(st.pending[i], c)]
  <1>1. st \in TurnState /\ Asked(st) \subseteq R
    BY DEF Good, Known
  <1>2. calls \in Seq(Call) /\ Elements(calls) = {CleanUp(q, c) : q \in Asked(st)}
    BY <1>1, CleansAll
  <1>3. CleanupRequestsForClient(st, c) = ToDo(st, calls)
    BY DEF CleanupRequestsForClient
  <1> HIDE DEF calls
  <1>4. \A call \in Elements(calls) :
            call.name = "clean up" /\ call.request \in R
    <2>1. \A q : CleanUp(q, c).name = "clean up" /\ CleanUp(q, c).request = q
      BY DEF CleanUp
    <2> QED
      BY <2>1, <1>1, <1>2
  <1>5. Y = {} \/ \A q \in Asked(st) : CleanUp(q, gone) \in Elements(calls)
    BY <1>2
  <1>6. /\ Good(ToDo(st, calls), R, K, gone, {}, {}, {})
        /\ NoReconcile(ToDo(st, calls))
    <2>1. Departures(R, calls)
      BY <1>2, <1>4 DEF Departures
    <2> QED
      BY <2>1, <1>5, OuterPushed
  <1> QED
    BY <1>3, <1>6

\* A client that has left is taken care of, and then the others.
LEMMA FirstReleased ==
    ASSUME NEW R, NEW K, Premises(R, K), NEW gone, NEW st, Good(st, R, K, gone, {}, {}, {}),
           NoReconcile(st), NEW clients \in SUBSET Leavers,
           NEW order \in KeyOrders, NEW clientOrder \in ClientOrders
    PROVE  Good(ReleaseFirst(st, clients, order, clientOrder), R, K, gone, {}, {}, {})
  <1> DEFINE first == CHOOSE c \in clients : \A d \in clients : clientOrder[c] <= clientOrder[d]
             rest == clients \ {first}
             each == ReleaseEach(rest, order, clientOrder)
             release == ReleaseLeases(first, order)
  <1>1. CASE clients = {}
    BY <1>1 DEF ReleaseFirst
  <1>2. CASE clients # {}
    <2>1. first \in clients
      <3>1. \A c \in clients : clientOrder[c] \in Nat
        BY DEF ClientOrders, Leavers
      <3> DEFINE places == {clientOrder[c] : c \in clients}
      <3>2. places \in SUBSET Nat /\ places # {}
        BY <1>2, <3>1
      <3> HIDE DEF places
      <3>3. PICK m \in places : \A n \in places : m <= n
        BY <3>2, LeastNatural
      <3>4. \E c \in clients : \A d \in clients : clientOrder[c] <= clientOrder[d]
        BY <3>3 DEF places
      <3> QED
        BY <3>4
    <2>2. ReleaseFirst(st, clients, order, clientOrder) =
              CleanupRequestsForClient(ToDo(ToDo(st, <<each>>), <<release>>), first)
      BY <1>2 DEF ReleaseFirst, ReleaseInactiveClientState
    <2> HIDE DEF first
    <2>3. first \in Clients /\ first \in Leavers /\ rest \subseteq Leavers /\ rest \subseteq Clients
      BY <2>1 DEF Leavers
    <2> HIDE DEF rest
    <2>4. /\ each \in Call /\ each.name = "release each" /\ each.clients = rest
          /\ release \in Call /\ release.name = "release" /\ release.client = first
      BY <2>3 DEF ReleaseEach, ReleaseLeases, Call
    <2> HIDE DEF each, release
    <2> DEFINE one == <<each>>
               two == <<release>>
    <2>5. /\ one \in Seq(Call) /\ Elements(one) = {each}
          /\ two \in Seq(Call) /\ Elements(two) = {release}
      BY <2>4, OnlyOne
    <2> HIDE DEF one, two
    <2>6. Departures(R, one) /\ Departures(R, two)
      BY <2>3, <2>4, <2>5 DEF Departures
    <2>7. /\ Good(ToDo(st, one), R, K, gone, {}, {}, {})
          /\ NoReconcile(ToDo(st, one))
      BY <2>6, OuterPushed
    <2>8. /\ Good(ToDo(ToDo(st, one), two), R, K, gone, {}, {}, {})
          /\ NoReconcile(ToDo(ToDo(st, one), two))
      BY <2>6, <2>7, OuterPushed
    <2>9. Good(CleanupRequestsForClient(ToDo(ToDo(st, one), two), first), R, K, gone, {}, {}, {})
      BY <2>3, <2>8, AllCleanedUp
    <2> QED
      BY <2>2, <2>9 DEF one, two
  <1> QED
    BY <1>1, <1>2

\* The second loop of the prune timer releases none but those who have left.
LEMMA HoldersSwept ==
    ASSUME NEW R, NEW K, Premises(R, K), NEW gone, NEW st, Good(st, R, K, gone, {}, {}, {}),
           NoReconcile(st), NEW order \in KeyOrders, NEW clientOrder \in ClientOrders
    PROVE  Good(SweepHolders(st, order, clientOrder), R, K, gone, {}, {}, {})
  <1> DEFINE s == st.store
             removed == ExpiredTasks(s)
             r == DeleteAll(s, removed)
             nx == WithStore(st, r)
             each == ReleaseEach(Releasable(st, order), order, clientOrder)
  <1>1. st \in TurnState /\ s \in Store /\ Current(s)
    BY TurnTyping DEF Good
  <1>2. removed \in SUBSET Tasks /\ \A t \in removed : s.lease[t] # None
    BY DEF ExpiredTasks, Expired
  <1>3. SweepHolders(st, order, clientOrder) = ToDo(nx, <<each>>)
    BY DEF SweepHolders, Controllers
  <1>4. Releasable(st, order) \subseteq Leavers /\ Releasable(st, order) \subseteq Clients
    <2>1. \A p \in Controllers(s, order).snapshots : p.controllerId \in Clients
      <3>1. \A t \in Tasks : Held(s, t) => s.lease[t].clientId \in Clients
        BY <1>1, LeaseTyping DEF Held, Lease
      <3> QED
        BY <3>1 DEF Controllers, SnapshotAt, Held
    <2>2. \A c \in Releasable(st, order) : c \in Clients \ connected
      BY <2>1 DEF Releasable
    <2>3. \A c \in Releasable(st, order) : grace[c] \in {None, 0}
      BY <2>2 DEF Releasable, GraceEnded
    <2> QED
      BY <2>2, <2>3 DEF Leavers, InGrace
  <1>5. each \in Call /\ each.name = "release each" /\ each.clients \subseteq Leavers
    <2> DEFINE cs == Releasable(st, order)
    <2>1. cs \in SUBSET Clients /\ cs \subseteq Leavers
      BY <1>4
    <2> HIDE DEF cs
    <2>2. LET e == ReleaseEach(cs, order, clientOrder)
          IN  e \in Call /\ e.name = "release each" /\ e.clients = cs
      BY <2>1 DEF ReleaseEach, Call
    <2> QED
      BY <2>1, <2>2 DEF cs
  <1>6. /\ Lessens(s, r)
        /\ \A t \in Tasks : Held(r, t) <=> (Held(s, t) /\ t \notin removed)
    BY <1>1, <1>2, DeleteAllLessens
  <1>7. \A t \in Tasks : Held(s, t) => Held(r, t)
    <2>1. \A t \in Tasks : Held(s, t) => ~Expired(s, t)
      BY <1>1, LeaseTyping DEF Held, Expired, Lease
    <2> QED
      BY <2>1, <1>6 DEF ExpiredTasks
  <1>8. r \in Store
    BY <1>6 DEF Lessens, StoreStep
  <1> HIDE DEF r, each
  <1>9. Good(nx, R, K, gone, {}, {}, {} \cup {})
    BY <1>6, <1>7, StoreLessened DEF s
  <1>10. {} \cup {} = {}
    OBVIOUS
  <1>11. Good(nx, R, K, gone, {}, {}, {})
    BY <1>9, <1>10
  <1>12. NoReconcile(nx)
    <2>1. Calls(nx) = Calls(st)
      BY <1>1, <1>8, StoreField
    <2> QED
      BY <2>1 DEF NoReconcile
  <1> HIDE DEF nx
  <1> DEFINE one == <<each>>
  <1>13. one \in Seq(Call) /\ Elements(one) = {each}
    BY <1>5, OnlyOne
  <1> HIDE DEF one
  <1>14. Departures(R, one)
    BY <1>5, <1>13 DEF Departures
  <1>15. Good(ToDo(nx, one), R, K, gone, {}, {}, {})
    BY <1>11, <1>12, <1>14, OuterPushed
  <1> QED
    BY <1>3, <1>15 DEF one

-----------------------------------------------------------------------------
(* A turn from its first call to its last. *)

\* What a call of each kind has to take care of.
LEMMA Cares ==
    ASSUME NEW call \in Call, NEW gone
    PROVE  /\ ToReconcile(call) # {} =>
                 /\ call.name = "reconcile" /\ ToReconcile(call) \subseteq {call.request}
                 /\ call.request.taskId = call.taskId
           /\ ToCleanUp(call, gone) # {} =>
                 /\ call.name = "clean up" /\ ToCleanUp(call, gone) \subseteq {call.request}
                 /\ call.client = gone
           /\ ToAnnounce(call) =
                 IF call.name = "broadcast" THEN {call.snapshot}
                 ELSE IF call.name = "announce" THEN call.snapshots ELSE {}
  <1>1. \A q \in ToReconcile(call) :
            call.name = "reconcile" /\ call.request = q /\ call.taskId = q.taskId
    BY DEF ToReconcile, Reconcile
  <1>2. \A q \in ToCleanUp(call, gone) :
            call.name = "clean up" /\ call.request = q /\ call.client = gone
    <2>1. \A q : LET c == CleanUp(q, gone)
                 IN  c.name = "clean up" /\ c.request = q /\ c.client = gone
      BY DEF CleanUp
    <2> QED
      BY <2>1 DEF ToCleanUp
  <1>3. /\ call.name = "broadcast" => call.snapshot \in ControllerSnapshot
        /\ call.name = "announce" => call.snapshots \subseteq ControllerSnapshot
    BY CallTyping
  <1>4. ToAnnounce(call) =
            IF call.name = "broadcast" THEN {call.snapshot}
            ELSE IF call.name = "announce" THEN call.snapshots ELSE {}
    BY <1>3 DEF ToAnnounce, Says
  <1> QED
    BY <1>1, <1>2, <1>4

\* Every call keeps what holds between two calls.
LEMMA NextCallKeeps ==
    ASSUME NEW R, NEW K, Premises(R, K), NEW gone, NEW st, Good(st, R, K, gone, {}, {}, {})
    PROVE  Good(NextCall(st), R, K, gone, {}, {}, {})
  <1> DEFINE call == Head(st.todo)
             nx == [st EXCEPT !.todo = Tail(@)]
             X == ToReconcile(call)
             Y == ToCleanUp(call, gone)
             E == ToAnnounce(call)
  <1>1. CASE st.todo = <<>>
    BY <1>1 DEF NextCall
  <1>2. CASE st.todo # <<>>
    <2>1. /\ call \in Call
          /\ call.name \in AboutRequest => call.request \in R
          /\ call.name = "answer" => Open(nx, call.request.requestId)
          /\ call.name \in Outer => NoReconcile(nx)
          /\ call.name = "release" => call.client \in Leavers
          /\ call.name = "release each" => call.clients \subseteq Leavers
          /\ Good(nx, R, K, gone, X, Y, E)
      BY <1>2, Popped
    <2>2. NextCall(st) = Made(nx, call)
      BY <1>2 DEF NextCall
    <2> HIDE DEF call, nx
    <2>3. /\ X # {} => /\ call.name = "reconcile" /\ X \subseteq {call.request}
                       /\ call.request.taskId = call.taskId
          /\ Y # {} => /\ call.name = "clean up" /\ Y \subseteq {call.request}
                       /\ call.client = gone
          /\ E = IF call.name = "broadcast" THEN {call.snapshot}
                 ELSE IF call.name = "announce" THEN call.snapshots ELSE {}
      BY <2>1, Cares
    <2> HIDE DEF X, Y, E
    <2>4. CASE call.name = "reconcile"
      <3>1. /\ Y = {} /\ E = {} /\ X \subseteq {call.request} /\ call.request \in R
            /\ call.request.taskId # call.taskId => X = {}
        BY <2>1, <2>3, <2>4 DEF AboutRequest
      <3>2. call.taskId \in Tasks
        BY <2>1, <2>4, CallTyping
      <3>3. Good(nx, R, K, gone, X, {}, {})
        BY <2>1, <3>1
      <3>4. Good(ReconcileRequest(nx, call.request, call.taskId), R, K, gone, {}, {}, {})
        BY <3>1, <3>2, <3>3, RequestReconciled
      <3> QED
        BY <3>4, <2>2, <2>4 DEF Made
    <2>5. CASE call.name = "broadcast"
      <3>1. X = {} /\ Y = {} /\ E = {call.snapshot}
        BY <2>3, <2>5
      <3>2. call.snapshot \in ControllerSnapshot
        BY <2>1, <2>5, CallTyping
      <3>3. Good(nx, R, K, gone, {}, {}, {call.snapshot})
        BY <2>1, <3>1
      <3>4. Good(Broadcast(nx, call.snapshot), R, K, gone, {}, {}, {})
        BY <3>2, <3>3, Broadcasted
      <3> QED
        BY <3>4, <2>2, <2>5 DEF Made
    <2>6. CASE call.name = "answer"
      <3>1. X = {} /\ Y = {} /\ E = {} /\ call.request \in R
        BY <2>1, <2>3, <2>6 DEF AboutRequest
      <3>2. call.decision \in Decision
        BY <2>1, <2>6, CallTyping
      <3>3. Good(nx, R, K, gone, {}, {}, {}) /\ Open(nx, call.request.requestId)
        BY <2>1, <2>6, <3>1
      <3>4. Good(AnswerApplied(nx, call.request, call.decision), R, K, gone, {}, {}, {})
        BY <3>1, <3>2, <3>3, AppliedAnswered
      <3> QED
        BY <3>4, <2>2, <2>6 DEF Made
    <2>7. CASE call.name = "clean up"
      <3>1. /\ X = {} /\ E = {} /\ Y \subseteq {call.request} /\ call.request \in R
            /\ call.client # gone => Y = {}
        BY <2>1, <2>3, <2>7 DEF AboutRequest
      <3>2. call.client \in Clients
        BY <2>1, <2>7, CallTyping
      <3>3. Good(nx, R, K, gone, {}, Y, {}) /\ NoReconcile(nx)
        BY <2>1, <2>7, <3>1 DEF Outer
      <3>4. Good(CleanUpRequest(nx, call.request, call.client), R, K, gone, {}, {}, {})
        BY <3>1, <3>2, <3>3, RequestCleanedUp
      <3> QED
        BY <3>4, <2>2, <2>7 DEF Made
    <2>8. CASE call.name = "announce"
      <3>1. X = {} /\ Y = {} /\ E = call.snapshots
        BY <2>3, <2>8
      <3>2. Good(nx, R, K, gone, {}, {}, call.snapshots) /\ NoReconcile(nx)
        BY <2>1, <2>8, <3>1 DEF Outer
      <3>3. Good(EmitAll(nx, call.snapshots), R, K, gone, {}, {}, {})
        BY <3>2, AllEmitted
      <3> QED
        BY <3>3, <2>2, <2>8 DEF Made
    <2>9. CASE call.name = "release"
      <3>1. X = {} /\ Y = {} /\ E = {}
        BY <2>3, <2>9
      <3>2. call.order \in KeyOrders /\ call.client \in Leavers
        BY <2>1, <2>9, CallTyping
      <3>3. Good(nx, R, K, gone, {}, {}, {}) /\ NoReconcile(nx)
        BY <2>1, <2>9, <3>1 DEF Outer
      <3>4. Good(EmitReleased(nx, call.client, call.order), R, K, gone, {}, {}, {})
        BY <3>2, <3>3, ReleasedEmitted
      <3> QED
        BY <3>4, <2>2, <2>9 DEF Made
    <2>10. CASE call.name = "release each"
      <3>1. X = {} /\ Y = {} /\ E = {}
        BY <2>3, <2>10
      <3>2. /\ call.order \in KeyOrders /\ call.clientOrder \in ClientOrders
            /\ call.clients \in SUBSET Leavers
        BY <2>1, <2>10, CallTyping
      <3>3. Good(nx, R, K, gone, {}, {}, {}) /\ NoReconcile(nx)
        BY <2>1, <2>10, <3>1 DEF Outer
      <3>4. Good(ReleaseFirst(nx, call.clients, call.order, call.clientOrder),
                 R, K, gone, {}, {}, {})
        BY <3>2, <3>3, FirstReleased
      <3> QED
        BY <3>4, <2>2, <2>10 DEF Made
    <2>11. CASE call.name = "sweep"
      <3>1. X = {} /\ Y = {} /\ E = {}
        BY <2>3, <2>11
      <3>2. call.order \in KeyOrders /\ call.clientOrder \in ClientOrders
        BY <2>1, <2>11, CallTyping
      <3>3. Good(nx, R, K, gone, {}, {}, {}) /\ NoReconcile(nx)
        BY <2>1, <2>11, <3>1 DEF Outer
      <3>4. Good(SweepHolders(nx, call.order, call.clientOrder), R, K, gone, {}, {}, {})
        BY <3>2, <3>3, HoldersSwept
      <3> QED
        BY <3>4, <2>2, <2>11 DEF Made
    <2> QED
      BY <2>1, <2>4, <2>5, <2>6, <2>7, <2>8, <2>9, <2>10, <2>11, CallTyping
      DEF AboutRequest, Outer
  <1> QED
    BY <1>1, <1>2

\* So do all the calls of a turn, one after the other.
LEMMA FinishKeeps ==
    ASSUME NEW R, NEW K, Premises(R, K), NEW gone, NEW turn,
           Good(turn, R, K, gone, {}, {}, {})
    PROVE  Good(Finish(turn), R, K, gone, {}, {}, {})
  <1> DEFINE G == {st \in TurnState : Good(st, R, K, gone, {}, {}, {})}
             next(st) == CHOOSE nx \in {NextCall(s) : s \in {st}} : TRUE
             step(f) == [n \in 0..MaxCalls |-> IF n = 0 THEN turn ELSE next(f[n - 1])]
             after == CHOOSE f : f = step(f)
             F == [st \in G |-> NextCall(st)]
  <1>1. turn \in G /\ \A st \in G : NextCall(st) \in G
    BY NextCallKeeps DEF Good
  <1>2. \A st : next(st) = NextCall(st)
    <2>1. \A st : next(st) \in {NextCall(s) : s \in {st}}
      OBVIOUS
    <2> QED
      BY <2>1
  <1>3. Finish(turn) = after[MaxCalls]
    BY DEF Finish
  <1> HIDE DEF G, next
  <1>4. MaxCalls \in Nat /\ F \in [G -> G]
    BY <1>1, ControlAssumption
  <1>5. PICK g : g \in Iterates(F, G, turn, MaxCalls)
    <2> HIDE DEF F
    <2> QED
      BY <1>1, <1>4, Iterate
  <1>6. g = step(g)
    <2>1. /\ g \in [0..MaxCalls -> G] /\ g[0] = turn
          /\ \A i \in 1..MaxCalls : g[i] = F[g[i - 1]]
      BY <1>5 DEF Iterates
    <2>2. ASSUME NEW n \in 0..MaxCalls, n # 0 PROVE g[n] = next(g[n - 1])
      <3>1. n \in 1..MaxCalls /\ n - 1 \in 0..MaxCalls
        BY <2>2, <1>4
      <3> QED
        BY <3>1, <2>1, <1>2
    <2> QED
      BY <2>1, <2>2
  <1>7. after = step(after)
    <2> HIDE DEF step
    <2> QED
      BY <1>6
  <1> HIDE DEF after
  <1>8. after[0] = turn /\ \A n \in 0..MaxCalls : n # 0 => after[n] = next(after[n - 1])
    BY <1>4, <1>7
  <1> DEFINE S == {n \in Nat : n <= MaxCalls => after[n] \in G}
  <1>9. 0 \in S
    BY <1>1, <1>8
  <1>10. ASSUME NEW n \in Nat, n \in S PROVE n + 1 \in S
    <2>1. CASE n + 1 <= MaxCalls
      <3>1. n + 1 \in 0..MaxCalls /\ n + 1 # 0 /\ n + 1 - 1 = n /\ n <= MaxCalls
        BY <2>1, <1>4
      <3>2. after[n + 1] = NextCall(after[n])
        BY <3>1, <1>2, <1>8
      <3> QED
        BY <3>1, <3>2, <1>1, <1>10
    <2> QED
      BY <2>1
  <1> HIDE DEF S
  <1>11. MaxCalls \in S
    BY <1>4, <1>9, <1>10, NaturalsByStep
  <1>12. after[MaxCalls] \in G
    BY <1>4, <1>11 DEF S
  <1> QED
    BY <1>3, <1>12 DEF G

\* A turn that ends leaves its state in the variables.
LEMMA TurnEnds ==
    ASSUME NEW R, NEW K, Premises(R, K), NEW gone, NEW turn,
           Good(turn, R, K, gone, {}, {}, {}), EndTurn(turn)
    PROVE  /\ Good(Turn', R, K, gone, {}, {}, {})
           /\ Settled(Turn')
  <1>1. PICK st : /\ st = Finish(turn)
                  /\ st.todo = <<>> /\ store' = st.store /\ pending' = st.pending
                  /\ answers' = st.answers /\ announced' = st.announced
    BY DEF EndTurn
  <1>2. Good(st, R, K, gone, {}, {}, {})
    BY <1>1, FinishKeeps
  <1>3. Turn' = st
    BY <1>1, <1>2 DEF Turn, Good, TurnState
  <1>4. Good(Turn', R, K, gone, {}, {}, {}) /\ Turn'.todo = <<>>
    BY <1>1, <1>2, <1>3
  <1>5. WellAsked(Asked(Turn'))
    BY <1>4 DEF Good, Known, Premises, Rightful, WellAsked
  <1> QED
    BY <1>4, <1>5 DEF Settled, Good

-----------------------------------------------------------------------------
(* Where a turn begins and where it leads. *)

\* The leases that sockets and the prune timer may not take, each with its holder.
InForce ==
    {<<t, store.lease[t].clientId>> :
        t \in {u \in Tasks : Held(store, u) /\ InGrace(store.lease[u].clientId)}}

\* The fields of the turn that is about to begin.
LEMMA TurnIs ==
    /\ Turn.store = store /\ Turn.pending = pending /\ Turn.answers = answers
    /\ Turn.announced = announced /\ Turn.todo = <<>>
    /\ Asked(Turn) = PendingRequests
    /\ Calls(Turn) = {}
  BY EmptySeq DEF Turn, Asked, Calls, Elements, PendingRequests

\* Between two turns nothing is to be done, and no pending request has an answer.
LEMMA Begins ==
    ASSUME IInv
    PROVE  /\ Turn \in TurnState /\ store \in Store /\ Current(store)
           /\ \A K \in {{}, InForce} :
                 /\ Premises(Asked(Turn), K)
                 /\ Good(Turn, Asked(Turn), K, None, {}, {}, {})
                 /\ \A gone : Good(Turn, Asked(Turn), K, gone, {}, Asked(Turn), {})
           /\ NoReconcile(Turn)
           /\ Free(Turn, Asked(Turn), {})
           /\ \A q \in Asked(Turn) : ~WasGranted(Turn, q) /\ answers[q.requestId] = <<>>
  <1> DEFINE R == Asked(Turn)
  <1>1. /\ Settled(Turn) /\ Turn \in TurnState /\ Turn.store = store /\ Turn.answers = answers
        /\ Turn.todo = <<>> /\ Calls(Turn) = {} /\ Current(Turn.store)
        /\ store \in Store /\ WellAsked(R) /\ R \subseteq Request
    BY TurnIs, TurnTyping DEF IInv, Settled, WellAsked
  <1>2. Rightful(R)
    BY <1>1 DEF IInv, Rightful, Leavers, InGrace
  <1>3. \A q \in R : answers[q.requestId] = <<>> /\ ~WasGranted(Turn, q)
    <2>1. \A q \in R : Turn.answers[q.requestId] = <<>>
      BY <1>1 DEF Settled, Once
    <2>2. <<>> # <<"approved">> /\ <<>> # <<"owner-missing">>
      OBVIOUS
    <2> QED
      BY <2>1, <2>2, <1>1 DEF WasGranted
  <1>4. \A K \in {{}, InForce} :
            K \subseteq Tasks \X (Clients \ Leavers) /\ Kept(Turn, R, K)
    <2>1. \A t \in Tasks : Held(store, t) => store.lease[t].clientId \in Clients
      BY <1>1, LeaseTyping DEF Held, Lease
    <2>2. InForce \subseteq Tasks \X (Clients \ Leavers)
      BY <2>1 DEF InForce, Leavers
    <2>3. Kept(Turn, R, InForce)
      BY <1>1 DEF Kept, InForce, May
    <2> QED
      BY <2>2, <2>3 DEF Kept
  <1>5. /\ Layered(<<>>) /\ Leaving(Turn) /\ NoReconcile(Turn) /\ Known(Turn, R)
    <2>1. DOMAIN <<>> = {}
      BY EmptySeq
    <2> QED
      BY <2>1, <1>1 DEF Layered, Leaving, NoReconcile, Known
  <1>6. /\ Cleans(Turn, None, {})
        /\ \A gone : Cleans(Turn, gone, R)
    BY <1>1, RequestTyping DEF Cleans
  <1>7. ASSUME NEW K \in {{}, InForce}, NEW gone, NEW Y, Cleans(Turn, gone, Y)
        PROVE  Good(Turn, R, K, gone, {}, Y, {})
    BY <1>1, <1>3, <1>4, <1>5, <1>7 DEF Good, Settled, Granted
  <1> QED
    BY <1>1, <1>2, <1>3, <1>4, <1>5, <1>6, <1>7 DEF Premises, Free

\* What a step of the control plane promises.
Promise ==
    /\ IInv'
    /\ Granted(Turn', Asked(Turn))

\* A turn of an unchanged set of sockets.
LEMMA TurnKeeps ==
    ASSUME IInv, NEW R, NEW turn, Premises(R, {}),
           Asked(Turn) \subseteq R, \A q \in R : q.requesterClientId \in connected,
           Good(turn, R, {}, None, {}, {}, {}), EndTurn(turn), UNCHANGED Transport
    PROVE  Promise
  <1>1. Good(Turn', R, {}, None, {}, {}, {}) /\ Settled(Turn')
    BY TurnEnds
  <1>2. /\ \A q \in Asked(Turn') : q.requesterClientId \in connected'
        /\ Granted(Turn', Asked(Turn))
    BY <1>1 DEF Good, Known, Granted, Transport
  <1>3. connected' = connected /\ grace' = grace /\ away' = away
    BY DEF Transport
  <1> QED
    BY <1>1, <1>2, <1>3 DEF Promise, IInv

\* A turn about the requests that were pending when it began.
LEMMA PlainTurnKeeps ==
    ASSUME IInv, NEW turn, Good(turn, Asked(Turn), {}, None, {}, {}, {}),
           EndTurn(turn), UNCHANGED Transport
    PROVE  Promise
  <1>1. Premises(Asked(Turn), {}) /\ \A q \in Asked(Turn) : q.requesterClientId \in connected
    BY Begins DEF IInv
  <1> QED
    BY <1>1, TurnKeeps

\* A turn that takes leases from their holders, at its beginning.
LEMMA LessenedKeeps ==
    ASSUME IInv, NEW result, Lessens(store, result.store),
           result.changed => /\ result.snapshot \in ControllerSnapshot
                             /\ result.snapshot.version = result.store.version
                             /\ ~Held(result.store, result.snapshot.taskId)
    PROVE  Good(EmitIfChanged(Turn, result), Asked(Turn), {}, None, {}, {}, {})
  <1> DEFINE R == Asked(Turn)
             r == result.store
             p == result.snapshot
             nx == WithStore(Turn, r)
  <1>1. /\ Premises(R, {}) /\ Good(Turn, R, {}, None, {}, {}, {}) /\ Free(Turn, R, {})
        /\ Turn.store = store /\ WellAsked(R)
    BY Begins, TurnIs DEF Premises, Rightful
  <1>2. r \in Store /\ r.version \in Nat
    BY DEF Lessens, StoreStep, Store
  <1> HIDE DEF R, r
  <1>3. CASE result.changed
    <2>1. {p} \in SUBSET ControllerSnapshot
          /\ \A x \in {p} : x.version <= r.version /\ ~Held(r, x.taskId)
      BY <1>2, <1>3 DEF r
    <2>2. Lessens(Turn.store, r)
      BY <1>1 DEF r
    <2>3. Good(WithStore(Turn, r), R, {}, None, {}, {}, {} \cup {p})
      BY <2>1, <2>2, <1>1, StoreLessened
    <2>4. {} \cup {p} = {p}
      OBVIOUS
    <2>5. Good(nx, R, {}, None, {}, {}, {p})
      BY <2>3, <2>4
    <2> HIDE DEF nx
    <2>6. Good(Emit(nx, p), R, {}, None, {}, {}, {})
      BY <2>5, <1>1, <1>3, Emitted
    <2> QED
      BY <2>6, <1>3 DEF EmitIfChanged, nx, r, R
  <1>4. CASE ~result.changed
    <2>1. Lessens(Turn.store, r)
      BY <1>1 DEF r
    <2>2. Good(WithStore(Turn, r), R, {}, None, {}, {}, {} \cup {})
      BY <2>1, <1>1, StoreLessened
    <2>3. {} \cup {} = {}
      OBVIOUS
    <2> QED
      BY <2>2, <2>3, <1>4 DEF EmitIfChanged, r, R
  <1> QED
    BY <1>3, <1>4

-----------------------------------------------------------------------------
(* The steps, one by one. *)

\* A client acquires.
LEMMA AcquireKeeps ==
    ASSUME IInv, NEW t \in Tasks, NEW c \in Clients, NEW o \in Owners, NEW a \in Actions,
           NEW takeover, AcquireTaskCommandLease(t, c, o, a, takeover)
    PROVE  Promise
  <1> DEFINE R == Asked(Turn)
  <1>1. /\ Premises(R, {}) /\ Good(Turn, R, {}, None, {}, {}, {})
        /\ \A q \in R : ~WasGranted(Turn, q)
        /\ Turn.store = store
    BY Begins, TurnIs
  <1> HIDE DEF R
  <1>2. Good(EmitIfChanged(Turn, Acquire(Turn.store, t, c, o, a, takeover)), R, {}, None,
             {}, {}, {})
    BY <1>1, Acquired
  <1>3. Good(EmitIfChanged(Turn, Acquire(store, t, c, o, a, takeover)), R, {}, None, {}, {}, {})
    BY <1>1, <1>2
  <1> QED
    BY <1>3, PlainTurnKeeps DEF AcquireTaskCommandLease, R

\* A client renews.
LEMMA RenewKeeps ==
    ASSUME IInv, NEW t \in Tasks, NEW c \in Clients, NEW o \in Owners,
           RenewTaskCommandLease(t, c, o)
    PROVE  Promise
  <1> DEFINE r == Renew(store, t, c, o, None).store
             result == [store |-> r, changed |-> FALSE]
  <1>1. Lessens(store, r)
    BY Begins, RenewLessens
  <1>2. EndTurn(WithStore(Turn, r)) /\ UNCHANGED Transport
    BY DEF RenewTaskCommandLease
  <1> HIDE DEF r
  <1>3. EmitIfChanged(Turn, result) = WithStore(Turn, r)
        /\ result.store = r /\ result.changed = FALSE
    BY DEF EmitIfChanged
  <1> HIDE DEF result
  <1>4. Good(EmitIfChanged(Turn, result), Asked(Turn), {}, None, {}, {}, {})
    BY <1>1, <1>3, LessenedKeeps
  <1> QED
    BY <1>2, <1>3, <1>4, PlainTurnKeeps

\* A client releases.
LEMMA ReleaseKeeps ==
    ASSUME IInv, NEW t \in Tasks, NEW c \in Clients, NEW o \in Owners,
           ReleaseTaskCommandLease(t, c, o)
    PROVE  Promise
  <1> DEFINE result == Release(store, t, c, o, None)
  <1>1. /\ Lessens(store, result.store) /\ result.snapshot \in ControllerSnapshot
        /\ result.snapshot.version = result.store.version /\ result.snapshot.taskId = t
        /\ result.changed => ~Held(result.store, t)
    BY Begins, ReleaseLessens
  <1>2. EndTurn(EmitIfChanged(Turn, result)) /\ UNCHANGED Transport
    BY DEF ReleaseTaskCommandLease
  <1> HIDE DEF result
  <1>3. Good(EmitIfChanged(Turn, result), Asked(Turn), {}, None, {}, {}, {})
    BY <1>1, LessenedKeeps
  <1> QED
    BY <1>2, <1>3, PlainTurnKeeps

\* A task is cleared.
LEMMA ClearKeeps ==
    ASSUME IInv, NEW t \in Tasks, ClearTaskCommandLeaseForTask(t)
    PROVE  Promise
  <1> DEFINE result == ClearForTask(store, t)
  <1>1. /\ Lessens(store, result.store) /\ result.snapshot \in ControllerSnapshot
        /\ result.snapshot.version = result.store.version /\ result.snapshot.taskId = t
        /\ result.changed => ~Held(result.store, t)
    BY Begins, ClearLessens
  <1>2. EndTurn(EmitIfChanged(Turn, result)) /\ UNCHANGED Transport
    BY DEF ClearTaskCommandLeaseForTask
  <1> HIDE DEF result
  <1>3. Good(EmitIfChanged(Turn, result), Asked(Turn), {}, None, {}, {}, {})
    BY <1>1, LessenedKeeps
  <1> QED
    BY <1>2, <1>3, PlainTurnKeeps

\* The table is read.
LEMMA ReadKeeps ==
    ASSUME IInv, NEW t \in Tasks, ReadTaskCommandLease(t)
    PROVE  Promise
  <1>1. Good(Look(Turn, t), Asked(Turn), {}, None, {}, {}, {})
    BY Begins, Looked
  <1> QED
    BY <1>1, PlainTurnKeeps DEF ReadTaskCommandLease

\* The decision on a pending request is its first and may be any.
LEMMA DecisionKeeps ==
    ASSUME IInv, NEW q \in PendingRequests, NEW d \in Decision,
           EndTurn(Resolve(Look(Turn, q.taskId), q, d)), UNCHANGED Transport
    PROVE  Promise
  <1> DEFINE R == Asked(Turn)
             look == Look(Turn, q.taskId)
  <1>1. /\ Premises(R, {}) /\ Good(Turn, R, {}, None, {}, {}, {})
        /\ \A p \in R : ~WasGranted(Turn, p)
        /\ q \in R /\ R \subseteq Request
    BY Begins, TurnIs DEF Premises, Rightful, WellAsked
  <1>2. q.taskId \in Tasks
    BY <1>1, RequestTyping
  <1> HIDE DEF R
  <1>3. Good(look, R, {}, None, {}, {}, {}) /\ look.answers = Turn.answers
    BY <1>1, <1>2, Looked
  <1> HIDE DEF look
  <1>4. \A p \in R : ~WasGranted(look, p)
    BY <1>1, <1>3 DEF WasGranted
  <1>5. Good(Resolve(look, q, d), R, {}, None, {}, {}, {})
    BY <1>1, <1>3, <1>4, Resolved
  <1> QED
    BY <1>5, PlainTurnKeeps DEF R, look

\* The target of a request responds.
LEMMA RespondKeeps ==
    ASSUME IInv, NEW c \in Clients, NEW q \in PendingRequests, NEW approved \in BOOLEAN,
           RespondTakeover(c, q, approved)
    PROVE  Promise
  <1>1. ResponseDecision(Turn, q, approved) \in Decision
    <2>1. Turn \in TurnState /\ Current(Turn.store) /\ q \in Request
      BY Begins, TurnIs DEF Premises, Rightful, WellAsked
    <2>2. ChangeDecision(Turn, q) \in Decision \cup {None}
      BY <2>1, ChangeDecides
    <2> QED
      BY <2>2 DEF ResponseDecision, Decision
  <1> QED
    BY <1>1, DecisionKeeps DEF RespondTakeover

\* The time for a response is over.
LEMMA TimeoutKeeps ==
    ASSUME IInv, NEW q \in PendingRequests, TakeoverTimeout(q)
    PROVE  Promise
  <1>1. TimeoutDecision(Turn, q, connected, away) \in Decision
    <2>1. Turn \in TurnState /\ Current(Turn.store) /\ q \in Request
      BY Begins, TurnIs DEF Premises, Rightful, WellAsked
    <2>2. ChangeDecision(Turn, q) \in Decision \cup {None}
      BY <2>1, ChangeDecides
    <2> QED
      BY <2>2 DEF TimeoutDecision, Decision
  <1> QED
    BY <1>1, DecisionKeeps DEF TakeoverTimeout, OnTimeout

\* A request that asks the controller of its task joins the pending ones.
LEMMA AskKeeps ==
    ASSUME IInv, NEW look, Good(look, Asked(Turn), {}, None, {}, {}, {}),
           look.answers = answers, look.todo = <<>>, Asked(look) = Asked(Turn),
           NEW q \in Request, q.requesterClientId \in connected,
           q.requesterClientId # q.targetControllerId,
           \A p \in Asked(Turn) : p.requestId # q.requestId,
           answers[q.requestId] = <<>>,
           Controls(look, q.taskId, q.targetControllerId),
           EndTurn([look EXCEPT !.pending = Append(@, q)]), UNCHANGED Transport
    PROVE  Promise
  <1> DEFINE R == Asked(Turn) \cup {q}
             p == look.pending
             longer == Append(p, q)
             nx == [look EXCEPT !.pending = longer]
  <1>1. /\ look \in TurnState /\ p \in Seq(Request) /\ look.todo = <<>> /\ Calls(look) = {}
        /\ Asked(Turn) = Elements(p)
        /\ WellAsked(Asked(Turn)) /\ Rightful(Asked(Turn))
        /\ \A r \in Asked(Turn) : r.requesterClientId \in connected /\ answers[r.requestId] = <<>>
    <2>1. Calls(look) = {}
      BY EmptySeq DEF Calls, Elements
    <2> QED
      BY <2>1, Begins, TurnTyping DEF Good, Premises, Rightful, IInv, Asked
  <1>2. /\ longer \in Seq(Request) /\ Len(longer) = Len(p) + 1
        /\ \A i \in 1..Len(p) : longer[i] = p[i]
        /\ longer[Len(p) + 1] = q
    BY <1>1, AppendProperties
  <1>3. /\ Len(p) \in Nat /\ DOMAIN p = 1..Len(p) /\ DOMAIN longer = 1..Len(p) + 1
    BY <1>1, <1>2, LenProperties
  <1>4. \A i \in DOMAIN longer :
            \/ i \in DOMAIN p /\ longer[i] = p[i]
            \/ i = Len(p) + 1 /\ longer[i] = q
    BY <1>2, <1>3
  <1>5. Elements(longer) \subseteq Elements(p) \cup {q}
    BY <1>4 DEF Elements
  <1> HIDE DEF longer
  <1>6. /\ nx \in TurnState /\ nx.store = look.store /\ nx.pending = longer
        /\ nx.answers = look.answers /\ nx.announced = look.announced /\ nx.todo = <<>>
        /\ Calls(nx) = {}
    BY <1>1, <1>2, PendingField
  <1>7. Asked(nx) \subseteq R
    BY <1>1, <1>5, <1>6 DEF Asked
  <1>8. [look EXCEPT !.pending = Append(@, q)] = nx
    BY DEF longer
  <1> HIDE DEF nx
  <1>9. \A r \in Asked(Turn) : r.taskId = q.taskId => r.targetControllerId = q.targetControllerId
    <2>1. Asks(look, {})
      BY DEF Good
    <2> QED
      BY <2>1, <1>1 DEF Asks, Controls
  <1>10. WellAsked(R)
    BY <1>1, <1>9 DEF WellAsked
  <1>11. Premises(R, {})
    BY <1>1, <1>10 DEF Premises, Rightful, Leavers, InGrace
  <1>12. \A r \in R : r.requesterClientId \in connected /\ nx.answers[r.requestId] = <<>>
    BY <1>1, <1>6
  <1>13. Known(nx, R) /\ Leaving(nx) /\ Layered(nx.todo) /\ Kept(nx, R, {})
    <2>1. DOMAIN <<>> = {}
      BY EmptySeq
    <2> QED
      BY <2>1, <1>6, <1>7 DEF Known, Leaving, Layered, Kept
  <1>14. Once(nx)
    <2>1. Once(look)
      BY DEF Good
    <2>2. Distinct(longer)
      <3>1. \A i \in DOMAIN p : p[i] \in Asked(Turn)
        BY <1>1 DEF Elements
      <3>2. Distinct(p)
        BY <2>1 DEF Once
      <3> QED
        BY <3>1, <3>2, <1>4 DEF Distinct
    <2> QED
      BY <2>1, <2>2, <1>1, <1>6, <1>7, <1>12 DEF Once
  <1>15. Asks(nx, {})
    <2>1. Asks(look, {})
      BY DEF Good
    <2> QED
      BY <2>1, <1>1, <1>6, <1>7 DEF Asks, Controls
  <1>16. Cleans(nx, None, {})
    <2>1. \A r \in R : r \in Request
      BY <1>10 DEF WellAsked
    <2> QED
      BY <2>1, <1>7, RequestTyping DEF Cleans
  <1>17. Granted(nx, R)
    <2>1. <<>> # <<"approved">> /\ <<>> # <<"owner-missing">>
      OBVIOUS
    <2> QED
      BY <2>1, <1>12 DEF Granted, WasGranted
  <1>18. Truth(nx, {}) /\ Current(nx.store)
    <2>1. \A t \in Tasks : Said(nx, {}, t) = Said(look, {}, t)
      BY <1>1, <1>6 DEF Said
    <2> QED
      BY <2>1, <1>6 DEF Good, Truth
  <1>19. Good(nx, R, {}, None, {}, {}, {})
    BY <1>6, <1>13, <1>14, <1>15, <1>16, <1>17, <1>18 DEF Good
  <1> QED
    BY <1>8, <1>11, <1>12, <1>19, TurnKeeps

\* A client asks for a takeover.
LEMMA RequestKeeps ==
    ASSUME IInv, NEW r \in RequestIds, NEW c \in Clients, NEW target \in Clients,
           NEW o \in Owners, NEW a \in Actions, NEW t \in Tasks,
           RequestTakeover(r, c, o, a, target, t)
    PROVE  Promise
  <1> DEFINE R == Asked(Turn)
             look == Look(Turn, t)
             q == NewRequest(r, c, o, a, target, t)
  <1>1. /\ Premises(R, {}) /\ Good(Turn, R, {}, None, {}, {}, {}) /\ WellAsked(R)
        /\ Turn.answers = answers /\ Turn.todo = <<>> /\ Calls(Turn) = {}
    BY Begins, TurnIs DEF Premises, Rightful
  <1>2. /\ Good(look, R, {}, None, {}, {}, {})
        /\ look.store = Active(Turn.store, t) /\ look.answers = answers /\ look.todo = <<>>
        /\ Asked(look) = R /\ Calls(look) = {}
    BY <1>1, Looked
  <1>3. /\ c \in connected /\ ~IsPending(Turn, r) /\ answers[r] = <<>>
        /\ EndTurn(Ask(look, q)) /\ UNCHANGED Transport
    BY DEF RequestTakeover
  <1>4. /\ q \in Request /\ q.requestId = r /\ q.requesterClientId = c
        /\ q.targetControllerId = target /\ q.taskId = t
    BY ControlAssumption DEF NewRequest, Request
  <1> HIDE DEF look, q
  <1>5. \A p \in R : p.requestId # r
    BY <1>3 DEF IsPending, Asked, Elements
  <1>6. Open(look, r)
    BY <1>2, <1>3, <1>5 DEF Open
  <1>7. ASSUME NEW d \in Decision, EndTurn(Answer(look, r, d)) PROVE Promise
    <2>1. Good(Answer(look, r, d), R, {}, None, {}, {}, {})
      BY <1>1, <1>2, <1>5, <1>6, Answered
    <2> QED
      BY <2>1, <1>3, <1>7, PlainTurnKeeps DEF R
  <1> DEFINE controller == CurrentControllerId(look, t)
             asked == [look EXCEPT !.pending = Append(@, q)]
  <1>8. Ask(look, q) = IF controller # target THEN Answer(look, r, "owner-missing")
                       ELSE IF c = target THEN Answer(look, r, "approved")
                       ELSE IF target \notin connected THEN Answer(look, r, "owner-missing")
                       ELSE asked
    BY <1>4 DEF Ask
  <1>9. "owner-missing" \in Decision /\ "approved" \in Decision
    BY DEF Decision
  <1>10. ASSUME controller = target, c # target, EndTurn(asked) PROVE Promise
    <2>1. look \in TurnState /\ Current(look.store)
      BY <1>2 DEF Good
    <2>2. target # None
      BY LeaseAssumption
    <2>3. Controls(look, t, target)
      BY <2>1, <2>2, <1>10, ControllerIs DEF Controls
    <2> HIDE DEF R
    <2> QED
      BY <2>3, <1>2, <1>3, <1>4, <1>5, <1>10, AskKeeps DEF R
  <1> HIDE DEF controller, asked
  <1> QED
    BY <1>3, <1>7, <1>8, <1>9, <1>10

\* The last socket of a client goes away.
LEMMA DisconnectKeeps ==
    ASSUME IInv, NEW c \in Clients, Disconnect(c)
    PROVE  /\ Promise
           /\ Kept(Turn', Asked(Turn), InForce)
  <1> DEFINE R == Asked(Turn)
             turn == CleanupRequestsForClient(Turn, c)
  <1>1. /\ Premises(R, InForce) /\ Good(Turn, R, InForce, c, {}, R, {}) /\ NoReconcile(Turn)
        /\ \A q \in R : q.requesterClientId \in connected
    BY Begins DEF IInv
  <1>2. Good(turn, R, InForce, c, {}, {}, {})
    BY <1>1, AllCleanedUp
  <1>3. EndTurn(turn)
    BY DEF Disconnect
  <1> HIDE DEF turn
  <1>4. Good(Turn', R, InForce, c, {}, {}, {}) /\ Settled(Turn')
    BY <1>1, <1>2, <1>3, TurnEnds
  <1>5. \A q \in Asked(Turn') : q.requesterClientId \in connected'
    <2>1. Calls(Turn') = {}
      BY <1>4, EmptySeq DEF Settled, Calls, Elements
    <2>2. \A q \in Asked(Turn') : q \in R /\ q.requesterClientId # c
      BY <2>1, <1>4 DEF Good, Known, Cleans
    <2> QED
      BY <2>2, <1>1 DEF Disconnect
  <1>6. /\ connected' \subseteq Clients
        /\ grace' \in [Clients -> {None} \cup 0..GraceMs]
        /\ away' \subseteq connected'
    BY ControlAssumption DEF IInv, Disconnect, RemovePeerPresence
  <1>7. Granted(Turn', R) /\ Kept(Turn', R, InForce)
    BY <1>4 DEF Good
  <1> QED
    BY <1>4, <1>5, <1>6, <1>7 DEF Promise, IInv

\* The prune timer.
LEMMA PruneKeeps ==
    ASSUME IInv, Prunes
    PROVE  /\ Promise
           /\ Kept(Turn', Asked(Turn), InForce)
  <1>1. PICK order \in KeyOrders, clientOrder \in ClientOrders : PruneTimer(order, clientOrder)
    BY DEF Prunes
  <1> DEFINE R == Asked(Turn)
             removed == ExpiredTasks(store)
             r == DeleteAll(store, removed)
             snapshots == ReleasedSnapshots(store, removed, order)
             nx == WithStore(Turn, r)
             gone == GraceEnded \ connected
             announce == Announce(snapshots)
             each == ReleaseEach(gone, order, clientOrder)
             sweep == Sweep(order, clientOrder)
             calls == <<announce, each, sweep>>
  <1>2. EndTurn(ToDo(nx, calls))
    BY <1>1 DEF PruneTimer, Prune
  <1>3. /\ Premises(R, InForce) /\ Good(Turn, R, InForce, None, {}, {}, {}) /\ NoReconcile(Turn)
        /\ store \in Store /\ Current(store) /\ Turn \in TurnState /\ Turn.store = store
    BY Begins, TurnIs
  <1>4. removed \in SUBSET Tasks /\ \A t \in removed : store.lease[t] # None
    BY DEF ExpiredTasks, Expired
  <1>5. /\ Lessens(store, r)
        /\ \A t \in Tasks : Held(r, t) <=> (Held(store, t) /\ t \notin removed)
    BY <1>3, <1>4, DeleteAllLessens
  <1>6. \A t \in Tasks : Held(store, t) => Held(r, t)
    <2>1. \A t \in Tasks : Held(store, t) => ~Expired(store, t)
      BY <1>3, LeaseTyping DEF Held, Expired, Lease
    <2> QED
      BY <2>1, <1>5 DEF ExpiredTasks
  <1>7. /\ snapshots \in SUBSET ControllerSnapshot
        /\ \A p \in snapshots : p.version <= r.version /\ ~Held(r, p.taskId)
    BY <1>1, <1>3, <1>4, WalkSnapshots
  <1>8. gone \in SUBSET Clients /\ gone \subseteq Leavers
    BY DEF GraceEnded, Leavers, InGrace
  <1>9. r \in Store
    BY <1>5 DEF Lessens, StoreStep
  <1> HIDE DEF r, snapshots, gone, removed, R
  <1>10. Good(nx, R, InForce, None, {}, {}, {} \cup snapshots)
    BY <1>3, <1>5, <1>6, <1>7, StoreLessened
  <1>11. {} \cup snapshots = snapshots
    OBVIOUS
  <1>12. Good(nx, R, InForce, None, {}, {}, snapshots)
    BY <1>10, <1>11
  <1>13. NoReconcile(nx)
    <2>1. Calls(nx) = Calls(Turn)
      BY <1>3, <1>9, StoreField
    <2> QED
      BY <2>1, <1>3 DEF NoReconcile
  <1> HIDE DEF nx
  <1>14. /\ announce \in Call /\ announce.name = "announce" /\ announce.snapshots = snapshots
         /\ each \in Call /\ each.name = "release each" /\ each.clients = gone
         /\ sweep \in Call /\ sweep.name = "sweep"
    BY <1>1, <1>7, <1>8 DEF Announce, ReleaseEach, Sweep, Call
  <1> HIDE DEF announce, each, sweep
  <1>15. calls \in Seq(Call) /\ Elements(calls) = {announce, each, sweep}
    <2>1. announce \in Call /\ each \in Call /\ sweep \in Call
      BY <1>14
    <2>2. calls = <<announce, each, sweep>>
      BY DEF calls
    <2> HIDE DEF calls
    <2> QED
      BY <2>1, <2>2, OnlyThree
  <1> HIDE DEF calls
  <1>16. Pushable(nx, R, calls)
    <2>1. Layered(calls)
      BY <1>14, <1>15, OuterLayered
    <2> QED
      BY <2>1, <1>8, <1>13, <1>14, <1>15 DEF Pushable, AboutRequest
  <1>17. Relieves(nx, calls, None, {}, {}, {}, {}, snapshots, {})
    BY <1>14, <1>15 DEF Relieves, Says
  <1>18. Good(ToDo(nx, calls), R, InForce, None, {}, {}, {})
    BY <1>12, <1>16, <1>17, Pushed
  <1>19. Good(Turn', R, InForce, None, {}, {}, {}) /\ Settled(Turn')
    BY <1>2, <1>3, <1>18, TurnEnds
  <1>20. /\ connected' = connected /\ away' = away
         /\ grace' \in [Clients -> {None} \cup 0..GraceMs]
    BY <1>1 DEF PruneTimer, IInv
  <1>21. \A q \in Asked(Turn') : q.requesterClientId \in connected'
    BY <1>19, <1>20 DEF Good, Known, IInv, R
  <1>22. Granted(Turn', R) /\ Kept(Turn', R, InForce)
    BY <1>19 DEF Good
  <1> QED
    BY <1>19, <1>20, <1>21, <1>22 DEF Promise, IInv, R

\* A step that leaves the turn alone.
LEMMA UnchangedTurn ==
    ASSUME IInv, UNCHANGED <<store, pending, answers, announced>>
    PROVE  /\ Turn' = Turn
           /\ Settled(Turn')
           /\ Granted(Turn', Asked(Turn))
           /\ Kept(Turn', Asked(Turn), InForce)
  <1>1. Turn' = Turn
    BY DEF Turn
  <1>2. /\ \A q \in Asked(Turn) : ~WasGranted(Turn, q)
        /\ Good(Turn, Asked(Turn), InForce, None, {}, {}, {})
    BY Begins
  <1> HIDE DEF IInv
  <1> QED
    BY <1>1, <1>2 DEF IInv, Granted, Good

\* A client comes.
LEMMA ConnectKeeps ==
    ASSUME IInv, NEW c \in Clients, Connect(c)
    PROVE  Promise /\ Kept(Turn', Asked(Turn), InForce)
  <1>1. /\ Turn' = Turn /\ Settled(Turn') /\ Granted(Turn', Asked(Turn))
        /\ Kept(Turn', Asked(Turn), InForce)
    BY UnchangedTurn DEF Connect
  <1> QED
    BY <1>1 DEF Promise, IInv, Connect

\* A client turns away or back.
LEMMA AwayKeeps ==
    ASSUME IInv, NEW c \in Clients, SetAway(c)
    PROVE  Promise
  <1>1. Turn' = Turn /\ Settled(Turn') /\ Granted(Turn', Asked(Turn))
    BY UnchangedTurn DEF SetAway
  <1> QED
    BY <1>1 DEF Promise, IInv, SetAway

\* Time passes.
LEMMA TickKeeps ==
    ASSUME IInv, Tick
    PROVE  Promise
  <1> DEFINE R == Asked(Turn)
             older(q) == [q EXCEPT !.ttl = Countdown(@)]
  <1>1. /\ Settled(Turn) /\ store \in Store /\ Current(store)
        /\ pending \in Seq(Request) /\ answers \in [RequestIds -> Seq(Decision)]
        /\ announced \in [Tasks -> ControllerSnapshot]
        /\ R = {pending[i] : i \in DOMAIN pending} /\ Calls(Turn) = {}
    BY Begins, TurnIs, TurnTyping DEF IInv, PendingRequests
  <1>2. /\ store' = Elapse(store) /\ answers' = answers /\ announced' = announced
        /\ pending' = [i \in DOMAIN pending |-> older(pending[i])]
    BY DEF Tick
  <1>3. /\ store' \in Store /\ Current(store') /\ store'.version = store.version
        /\ \A t \in Tasks : Held(store', t) =>
              /\ Held(store, t)
              /\ store'.lease[t].clientId = store.lease[t].clientId
              /\ store'.lease[t].action = store.lease[t].action
    <2>1. /\ Elapse(store) \in Store /\ Current(Elapse(store))
          /\ Elapse(store).version = store.version
      BY <1>1, ElapseStep DEF StoreStep
    <2>2. ASSUME NEW t \in Tasks, Held(Elapse(store), t)
          PROVE  /\ Held(store, t)
                 /\ Elapse(store).lease[t].clientId = store.lease[t].clientId
                 /\ Elapse(store).lease[t].action = store.lease[t].action
      <3>1. Elapse(store).lease[t] = IF Held(store, t)
                                     THEN [store.lease[t] EXCEPT !.ttl = @ - 1]
                                     ELSE store.lease[t]
        BY DEF Elapse
      <3>2. store.lease[t] # None => store.lease[t] \in Lease
        BY <1>1, LeaseTyping
      <3> QED
        BY <2>2, <3>1, <3>2 DEF Held, Lease
    <2> QED
      BY <2>1, <2>2, <1>2
  <1>4. \A q \in Request :
            /\ older(q) \in Request /\ older(q).requestId = q.requestId
            /\ older(q).requesterClientId = q.requesterClientId
            /\ older(q).targetControllerId = q.targetControllerId /\ older(q).taskId = q.taskId
    BY ControlAssumption DEF Request, Countdown
  <1> HIDE DEF older
  <1>5. /\ pending' \in Seq(Request) /\ DOMAIN pending' = DOMAIN pending
        /\ \A i \in DOMAIN pending : pending[i] \in R /\ pending'[i] = older(pending[i])
    <2>1. Len(pending) \in Nat /\ DOMAIN pending = 1..Len(pending)
          /\ \A i \in DOMAIN pending : pending[i] \in Request
      BY <1>1, SequenceIs
    <2>2. /\ DOMAIN pending' = DOMAIN pending
          /\ \A i \in DOMAIN pending : pending'[i] = older(pending[i])
      BY <1>2
    <2>3. pending' = [i \in 1..Len(pending) |-> older(pending[i])]
      BY <2>1, <1>2
    <2>4. pending' \in Seq(Request)
      BY <2>1, <2>3, <1>4
    <2> QED
      BY <2>2, <2>4, <1>1
  <1> DEFINE nx == Turn'
  <1>6. /\ nx.store = store' /\ nx.pending = pending' /\ nx.answers = answers
        /\ nx.announced = announced /\ nx.todo = <<>> /\ nx \in TurnState
    BY <1>1, <1>2, <1>3, <1>5 DEF Turn, TurnState
  <1>7. Calls(nx) = {} /\ \A q \in Asked(nx) : \E p \in R : q = older(p)
    BY <1>5, <1>6, EmptySeq DEF Calls, Asked, Elements
  <1> HIDE DEF nx
  <1>8. /\ Turn.store = store /\ Turn.pending = pending /\ Turn.answers = answers
        /\ Turn.announced = announced /\ Turn.todo = <<>>
        /\ WellAsked(R) /\ R \subseteq Request
    BY <1>1, TurnIs DEF Settled, WellAsked
  <1>9. WellAsked(Asked(nx))
    BY <1>4, <1>7, <1>8 DEF WellAsked
  <1>10. Once(nx)
    <2>1. Once(Turn)
      BY <1>1 DEF Settled
    <2>2. Distinct(pending')
      <3>1. Distinct(pending)
        BY <2>1, <1>8 DEF Once
      <3>2. \A i \in DOMAIN pending : pending'[i].requestId = pending[i].requestId
        BY <1>4, <1>5, <1>8
      <3> QED
        BY <3>1, <3>2, <1>5 DEF Distinct
    <2>3. \A q \in Asked(nx) : nx.answers[q.requestId] = <<>>
      BY <2>1, <1>4, <1>6, <1>7, <1>8 DEF Once
    <2> QED
      BY <2>1, <2>2, <2>3, <1>6, <1>7, <1>8 DEF Once
  <1>11. Asks(nx, {})
    <2>1. Asks(Turn, {})
      BY <1>1 DEF Settled
    <2>2. \A q \in R : q.taskId \in Tasks
      BY <1>8, RequestTyping
    <2> QED
      BY <2>1, <2>2, <1>1, <1>3, <1>4, <1>6, <1>7, <1>8 DEF Asks
  <1>12. Truth(nx, {})
    <2>1. Truth(Turn, {})
      BY <1>1 DEF Settled
    <2>2. \A t \in Tasks : Said(nx, {}, t) = Said(Turn, {}, t)
      BY <1>1, <1>6, <1>7, <1>8 DEF Said
    <2>3. ASSUME NEW t \in Tasks PROVE NewestIsTrue(store', t, Said(nx, {}, t))
      <3>1. NewestIsTrue(store, t, Said(nx, {}, t))
        BY <2>1, <2>2, <1>8 DEF Truth
      <3> QED
        BY <3>1, <1>3 DEF NewestIsTrue, Agrees
    <2> QED
      BY <2>3, <1>6 DEF Truth
  <1>13. Settled(nx)
    BY <1>3, <1>6, <1>9, <1>10, <1>11, <1>12 DEF Settled
  <1>14. Granted(nx, R)
    <2>1. \A q \in R : ~WasGranted(Turn, q)
      BY Begins
    <2> QED
      BY <2>1, <1>6, <1>8 DEF Granted, WasGranted
  <1>15. \A q \in Asked(nx) : q.requesterClientId \in connected
    BY <1>4, <1>7, <1>8 DEF IInv
  <1>16. /\ connected' = connected /\ away' = away
         /\ grace' \in [Clients -> {None} \cup 0..GraceMs]
    <2>1. \A n \in 0..GraceMs : Countdown(n) \in 0..GraceMs
      BY ControlAssumption DEF Countdown
    <2> QED
      BY <2>1 DEF Tick, IInv
  <1> QED
    BY <1>13, <1>14, <1>15, <1>16 DEF Promise, IInv, nx, R

-----------------------------------------------------------------------------
(* The theorems. *)

\* Nothing has happened yet.
LEMMA InitIsSettled ==
    ASSUME Init
    PROVE  IInv
  <1>1. /\ EmptyStore \in Store /\ Current(EmptyStore)
        /\ \A t \in Tasks : ~Held(EmptyStore, t)
        /\ EmptyStore.version = 0
    BY DEF EmptyStore, Store, Current, Held
  <1>2. \A t \in Tasks : /\ Snapshot(EmptyStore, t) \in ControllerSnapshot
                         /\ Snapshot(EmptyStore, t).version = 0
    BY <1>1, SnapshotTyping DEF Snapshot
  <1>3. /\ store = EmptyStore /\ pending = <<>> /\ DOMAIN pending = {}
        /\ answers = [r \in RequestIds |-> <<>>]
        /\ announced = [t \in Tasks |-> Snapshot(EmptyStore, t)]
    BY EmptySeq DEF Init
  <1>4. /\ Turn.store = store /\ Turn.pending = pending /\ Turn.answers = answers
        /\ Turn.announced = announced /\ Turn.todo = <<>>
        /\ Asked(Turn) = {} /\ Calls(Turn) = {}
    BY <1>3, TurnIs DEF PendingRequests
  <1>5. Turn \in TurnState
    BY <1>1, <1>2, <1>3, EmptySeq DEF Turn, TurnState
  <1>6. Once(Turn) /\ WellAsked(Asked(Turn)) /\ Asks(Turn, {})
    <2>1. Len(<<>>) = 0 /\ \A r \in RequestIds : answers[r] = <<>>
      BY <1>3, EmptySeq
    <2>2. Distinct(pending) /\ OneAnswer(<<>>)
      BY <1>3 DEF Distinct, OneAnswer
    <2> QED
      BY <2>1, <2>2, <1>4 DEF Once, WellAsked, Asks
  <1>7. Truth(Turn, {})
    <2>1. \A t \in Tasks : Said(Turn, {}, t) = {Snapshot(EmptyStore, t)}
      BY <1>3, <1>4 DEF Said
    <2> QED
      BY <2>1, <1>1, <1>2, <1>3, <1>4 DEF Truth, NewestIsTrue
  <1>8. /\ connected = {} /\ away = {} /\ grace = [c \in Clients |-> None]
    BY DEF Init
  <1> QED
    BY <1>1, <1>3, <1>4, <1>5, <1>6, <1>7, <1>8 DEF IInv, Settled

\* Every step keeps the invariant and its promise.
LEMMA StepKeeps ==
    ASSUME IInv, [Next]_vars
    PROVE  Promise
  <1>1. ASSUME NEW t \in Tasks, NEW c \in Clients, NEW o \in Owners, NEW a \in Actions,
               NEW takeover \in BOOLEAN, AcquireTaskCommandLease(t, c, o, a, takeover)
        PROVE  Promise
    BY <1>1, AcquireKeeps
  <1>2. ASSUME NEW t \in Tasks, NEW c \in Clients, NEW o \in Owners,
               RenewTaskCommandLease(t, c, o)
        PROVE  Promise
    BY <1>2, RenewKeeps
  <1>3. ASSUME NEW t \in Tasks, NEW c \in Clients, NEW o \in Owners,
               ReleaseTaskCommandLease(t, c, o)
        PROVE  Promise
    BY <1>3, ReleaseKeeps
  <1>4. ASSUME NEW t \in Tasks, ClearTaskCommandLeaseForTask(t) \/ ReadTaskCommandLease(t)
        PROVE  Promise
    BY <1>4, ClearKeeps, ReadKeeps
  <1>5. ASSUME NEW r \in RequestIds, NEW c \in Clients, NEW target \in Clients,
               NEW o \in Owners, NEW a \in Actions, NEW t \in Tasks,
               RequestTakeover(r, c, o, a, target, t)
        PROVE  Promise
    BY <1>5, RequestKeeps
  <1>6. ASSUME NEW c \in Clients, NEW q \in PendingRequests, NEW approved \in BOOLEAN,
               RespondTakeover(c, q, approved)
        PROVE  Promise
    BY <1>6, RespondKeeps
  <1>7. ASSUME NEW r \in RequestIds, TimesOut(r)
        PROVE  Promise
    BY <1>7, TimeoutKeeps DEF TimesOut
  <1>8. ASSUME NEW c \in Clients, Connect(c) \/ Disconnect(c) \/ SetAway(c)
        PROVE  Promise
    BY <1>8, ConnectKeeps, DisconnectKeeps, AwayKeeps
  <1>9. ASSUME Prunes
        PROVE  Promise
    BY <1>9, PruneKeeps
  <1>10. ASSUME Tick
         PROVE  Promise
    BY <1>10, TickKeeps
  <1>11. ASSUME UNCHANGED vars
         PROVE  Promise
    <2>1. Settled(Turn') /\ Turn' = Turn /\ Granted(Turn', Asked(Turn))
      BY <1>11, UnchangedTurn DEF vars
    <2> QED
      BY <2>1, <1>11 DEF Promise, IInv, vars
  <1> HIDE DEF IInv
  <1> QED
    BY <1>1, <1>2, <1>3, <1>4, <1>5, <1>6, <1>7, <1>8, <1>9, <1>10, <1>11 DEF Next

\* The invariant holds in every state.
THEOREM Invariance == Spec => []IInv
  <1>1. Init => IInv
    BY InitIsSettled
  <1>2. IInv /\ [Next]_vars => IInv'
    BY StepKeeps DEF Promise
  <1> QED
    BY <1>1, <1>2, PTL DEF Spec

\* Every variable of the control plane has its type: the lease table, the pending
\* requests, the answers, what was broadcast, and who is connected, away or in grace.
THEOREM TypeCorrect == Spec => []TypeOK
  <1>1. IInv => TypeOK
    BY Begins, TurnIs, TurnTyping DEF IInv, TypeOK
  <1> QED
    BY <1>1, Invariance, PTL

\* A takeover request is decided at most once, and not while it is still pending,
\* for any number of clients, tasks and requests and any nesting of announcements.
THEOREM DecidedOnce == Spec => []AnsweredOnce
  <1>1. ASSUME IInv PROVE AnsweredOnce
    <2>1. Once(Turn) /\ Turn.answers = answers
      BY <1>1, TurnIs DEF IInv, Settled
    <2>2. \A r \in RequestIds : IsPending(Turn, r) => \E q \in Asked(Turn) : q.requestId = r
      BY DEF IsPending, Asked, Elements
    <2> QED
      BY <2>1, <2>2 DEF Once, AnsweredOnce
  <1> QED
    BY <1>1, Invariance, PTL

\* Whenever a task is controlled, it is by the client that every pending request for
\* it asked: a target's approval never gives away somebody else's lease.
THEOREM AskedHoldsControl == Spec => []PendingAsksController
  <1>1. ASSUME IInv PROVE PendingAsksController
    <2>1. Asks(Turn, {}) /\ Turn.store = store /\ Asked(Turn) = PendingRequests /\ Calls(Turn) = {}
      BY <1>1, TurnIs DEF IInv, Settled
    <2> QED
      BY <2>1 DEF Asks, PendingAsksController
  <1> QED
    BY <1>1, Invariance, PTL

\* What the newest broadcast of a task says is the truth while the lease lives, in
\* whatever order nested changes were announced.
THEOREM NewestIsTheTruth == Spec => []AnnouncedController
  <1>1. ASSUME IInv PROVE AnnouncedController
    <2>1. Truth(Turn, {}) /\ Turn.store = store /\ Turn.announced = announced /\ Calls(Turn) = {}
      BY <1>1, TurnIs DEF IInv, Settled
    <2>2. \A t \in Tasks : Said(Turn, {}, t) = {announced[t]}
      BY <2>1 DEF Said
    <2> QED
      BY <2>1, <2>2 DEF Truth, NewestIsTrue, Agrees, AnnouncedController
  <1> QED
    BY <1>1, Invariance, PTL

\* A request answered approved or owner-missing leaves its requester in control when
\* the turn ends, however many takeovers were resolved in that turn.
THEOREM GrantsControl == Spec => GrantedMeansControl
  <1>1. ASSUME IInv, [Next]_vars
        PROVE  \A q \in PendingRequests :
                   answers'[q.requestId] \in {<<"approved">>, <<"owner-missing">>}
                       => /\ Held(store', q.taskId)
                          /\ store'.lease[q.taskId].clientId = q.requesterClientId
    <2>1. Granted(Turn', Asked(Turn)) /\ Asked(Turn) = PendingRequests
      BY <1>1, StepKeeps, TurnIs DEF Promise
    <2>2. Turn'.store = store' /\ Turn'.answers = answers'
      BY DEF Turn
    <2> QED
      BY <2>1, <2>2 DEF Granted, WasGranted, Controls
  <1> QED
    BY <1>1, Invariance, PTL DEF GrantedMeansControl, Spec

\* Sockets that come and go and the prune timer never take a live lease from a client
\* that is connected or in its grace window, but to hand it to one that asked for it.
THEOREM BlipKeeps == Spec => BlipKeepsLease
  <1>1. ASSUME IInv, [Next]_vars, NEW t \in Tasks, Held(store, t),
               InGrace(store.lease[t].clientId),
               Prunes \/ \E d \in Clients : Connect(d) \/ Disconnect(d)
        PROVE  KeptOrHandedOver(t)
    <2>1. Kept(Turn', Asked(Turn), InForce)
      BY <1>1, PruneKeeps, ConnectKeeps, DisconnectKeeps
    <2>2. <<t, store.lease[t].clientId>> \in InForce
      BY <1>1 DEF InForce
    <2>3. Turn'.store = store' /\ Asked(Turn) = PendingRequests
      BY TurnIs DEF Turn
    <2> QED
      BY <2>1, <2>2, <2>3 DEF Kept, May, KeptOrHandedOver
  <1>2. ASSUME IInv, [Next]_vars
        PROVE  \A t \in Tasks :
                   (Held(store, t) /\ InGrace(store.lease[t].clientId) /\ ~KeptOrHandedOver(t)) =>
                       ~(Prunes \/ \E d \in Clients : Connect(d) \/ Disconnect(d))
    BY <1>1, <1>2
  <1> QED
    BY <1>2, Invariance, PTL DEF BlipKeepsLease, Spec
=============================================================================
